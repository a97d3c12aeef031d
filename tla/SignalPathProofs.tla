-------------------------- MODULE SignalPathProofs --------------------------
(***************************************************************************)
(* Proofs about SignalPath, for every number of samples a bit, of taps, of *)
(* samples between two outputs and of bins, and about the Interleaver the  *)
(* bits then go through, for every size of the block.                      *)
(***************************************************************************)
EXTENDS SignalPath, Interleaver, TLAPS

-----------------------------------------------------------------------------
(* Quotient and remainder, the way the proofs below use them.              *)
LEMMA Division ==
  ASSUME NEW a \in Nat, NEW m \in Nat \ {0}
  PROVE  /\ a \div m \in Nat
         /\ a % m \in 0 .. m - 1
         /\ a = m * (a \div m) + (a % m)
BY SMT

(* Two numbers are equal only when quotients and remainders are.           *)
LEMMA Quotients ==
  ASSUME NEW q \in Nat, NEW p \in Nat, NEW m \in Nat \ {0},
         NEW r \in 0 .. m - 1, NEW s \in 0 .. m - 1,
         m * q + r = m * p + s
  PROVE  q = p /\ r = s
<1>1. q - p \in Int /\ m * (q - p) = s - r
  BY SMT
<1>2. CASE q - p >= 1
  <2>1. m * (q - p) >= m
    BY <1>1, <1>2, SMT
  <2> QED BY <1>1, <2>1, SMT
<1>3. CASE q - p <= -1
  <2>1. m * (p - q) >= m
    BY <1>3, SMT
  <2> QED BY <1>1, <2>1, SMT
<1>4. CASE q = p
  BY <1>4, SMT
<1> QED BY <1>1, <1>2, <1>3, <1>4, SMT

(***************************************************************************)
(* The bit clock.  ToPeak and ToHalf are how many samples ahead the        *)
(* positions are at which a bit is taken and a candidate taken up.         *)
(***************************************************************************)
Ahead(position) ==
  IF position >= m_bitPos THEN position - m_bitPos
  ELSE position - m_bitPos + SamplesPerBit

HalfABit == SamplesPerBit \div 2
ToPeak   == Ahead(m_peakPos)
ToHalf   == Ahead(HalfBit(m_peakPos))

Rest     == m_bitPhasePos - m_bitPos * BitPhaseInc   \* what the last bit times left over

ClockTyped ==
  /\ m_bitPos \in BitPosition /\ m_peakPos \in BitPosition
  /\ m_newPeakPos \in BitPosition /\ m_bitPhasePos \in Nat
  /\ Rest \in 0 .. BitPhaseInc - 1
  /\ m_bitPos + 1 = SamplesPerBit => Rest < BitPhaseInc - BitRest
  /\ sinceBit \in Nat \cup {NoBit} /\ slipped \in BOOLEAN

NotStarted ==
  m_bitPos = 0 /\ m_peakPos = 0 /\ m_newPeakPos = 0 /\ m_bitPhasePos = 0 /\ ~slipped

(* No bit is due too soon, nor a change of position that would make one so. *)
NotTooSoon ==
  LET early == IF slipped THEN 1 ELSE 0 IN
  sinceBit + ToPeak >= HalfABit - early /\ sinceBit + ToHalf >= HalfABit - 1 - early

(* A bit is due within two bits' time, and within a bit and a half more    *)
(* after a slip; a change of position that is due before a bit comes a     *)
(* bit's time sooner.                                                      *)
NotTooLate ==
  LET late == IF slipped THEN SamplesPerBit + HalfABit - 1 ELSE 0 IN
  /\ sinceBit + 1 + ToPeak <= 2 * SamplesPerBit + late
  /\ m_newPeakPos # m_peakPos =>
       ToPeak < ToHalf \/ sinceBit + ToHalf <= SamplesPerBit - 1 + late

(* What that rests on when the peak was passed in this turn of the clock.  *)
PeakPassed ==
  m_bitPos > m_peakPos =>
    IF slipped THEN m_peakPos < HalfABit /\ m_newPeakPos = m_peakPos
    ELSE /\ m_peakPos >= HalfABit => sinceBit <= HalfABit - 1 + m_bitPos - m_peakPos
         /\ m_peakPos < HalfABit /\ m_newPeakPos # m_peakPos =>
              sinceBit = m_bitPos - m_peakPos - 1

(* A slip uses the rest up, and before it can have grown again a bit is    *)
(* due: few turns of the clock fit in between.                             *)
TurnsSinceSlip(turns) ==
  sinceBit >= turns * SamplesPerBit + m_bitPos /\ Rest < (turns + 1) * BitRest

SlipIsRecent == slipped => \E turns \in 0 .. 3 : TurnsSinceSlip(turns)

ClockInv ==
  /\ ClockTyped
  /\ IF sinceBit = NoBit THEN NotStarted
     ELSE NotTooSoon /\ NotTooLate /\ PeakPassed /\ SlipIsRecent

LEMMA BitHalves ==
  /\ SamplesPerBit \in Nat \ {0} /\ HalfABit \in Nat \ {0}
  /\ SamplesPerBit = 2 * HalfABit
  BY SignalAssumption, SMT DEF SignalAssumption, HalfABit

LEMMA HalfBitIs ==
  ASSUME NEW position \in BitPosition
  PROVE  HalfBit(position) = IF position < HalfABit THEN position + HalfABit
                             ELSE position - HalfABit
  BY BitHalves, SMT DEF HalfBit, BitPosition, HalfABit

LEMMA Increments ==
  /\ BitPhaseInc \in Nat \ {0} /\ BitTime \in Nat /\ BitRest \in Nat
  /\ BitTime = SamplesPerBit * BitPhaseInc - BitRest /\ 5 * BitRest <= BitPhaseInc
<1>1. SamplesPerBit * BitPhaseInc \in Nat
  BY BitHalves, BitClockAssumption, SMT DEF BitClockAssumption
<1> QED BY <1>1, BitHalves, BitClockAssumption, SMT DEF BitClockAssumption, BitRest

LEMMA ClockStarts ==
  ASSUME Init
  PROVE  ClockInv
<1>1. Rest = 0
  BY Increments, SMT DEF Init, Rest
<1>2. NotStarted /\ sinceBit = NoBit
  BY DEF Init, NotStarted
<1>3. m_bitPos = 0 /\ m_peakPos = 0 /\ m_newPeakPos = 0 /\ m_bitPhasePos = 0 /\ slipped \in BOOLEAN
  BY DEF Init
<1>4. 0 \in BitPosition
  BY BitHalves, SMT DEF BitPosition
<1>5. 0 \in 0 .. BitPhaseInc - 1 /\ 0 < BitPhaseInc - BitRest
  BY Increments, SMT
<1> QED BY <1>1, <1>2, <1>3, <1>4, <1>5 DEF ClockInv, ClockTyped

(* When bit time is over: at the last position, or at the one before if    *)
(* enough is left over from earlier bits.                                  *)
LEMMA TimeOver ==
  ASSUME ClockTyped
  PROVE  /\ BitTimeOver <=> \/ m_bitPos + 1 = SamplesPerBit
                            \/ m_bitPos + 2 = SamplesPerBit /\ Rest >= BitPhaseInc - BitRest
         /\ Slips => m_bitPos + 2 = SamplesPerBit /\ Rest >= BitPhaseInc - BitRest
<1> DEFINE pos == m_bitPos  inc == BitPhaseInc  rest == Rest  product == (pos + 1) * inc
<1>1. /\ pos \in 0 .. SamplesPerBit - 1 /\ rest \in 0 .. inc - 1
      /\ m_bitPhasePos = pos * inc + rest
  BY Increments, SMT DEF ClockTyped, BitPosition, Rest
<1>2. product = pos * inc + inc /\ pos * inc \in Nat /\ inc \in Nat \ {0}
  BY <1>1, BitHalves, Increments, SMT
<1>3. BitTimeOver <=> product + rest >= SamplesPerBit * inc - BitRest
  BY <1>1, <1>2, Increments, SMT DEF BitTimeOver
<1>4. (SamplesPerBit - 1) * inc = SamplesPerBit * inc - inc
      /\ (SamplesPerBit - 2) * inc = SamplesPerBit * inc - 2 * inc
      /\ SamplesPerBit * inc \in Nat
  BY BitHalves, Increments, SMT
<1>5. CASE pos + 1 = SamplesPerBit
  <2>1. product = SamplesPerBit * inc
    BY <1>5
  <2> QED BY <1>1, <1>2, <1>3, <1>4, <1>5, <2>1, BitHalves, Increments, SMT DEF Slips
<1>6. CASE pos + 2 = SamplesPerBit
  <2>1. product = (SamplesPerBit - 1) * inc
    <3>1. pos + 1 = SamplesPerBit - 1
      BY <1>1, <1>6, BitHalves, SMT
    <3> QED BY <3>1
  <2> HIDE DEF product, inc, rest, pos
  <2>2. BitTimeOver <=> rest >= inc - BitRest
    BY <1>1, <1>2, <1>3, <1>4, <2>1, Increments, SMT DEF inc
  <2> QED BY <1>1, <1>6, <2>2, BitHalves, SMT DEF Slips, inc, rest, pos
<1>7. CASE pos + 2 < SamplesPerBit
  <2>1. product <= (SamplesPerBit - 2) * inc
    BY <1>1, <1>2, <1>7, BitHalves, SMT
  <2> HIDE DEF product
  <2>2. ~BitTimeOver
    BY <1>1, <1>2, <1>3, <1>4, <2>1, Increments, SMT
  <2> QED BY <1>1, <1>7, <2>2, BitHalves, SMT DEF Slips
<1> QED BY <1>1, <1>5, <1>6, <1>7, BitHalves, SMT

LEMMA BitTimeNotPassed ==
  ASSUME NEW pos \in BitPosition, NEW phase \in Nat,
         phase - pos * BitPhaseInc \in 0 .. BitPhaseInc - 1,
         pos + 1 = SamplesPerBit => phase - pos * BitPhaseInc < BitPhaseInc - BitRest
  PROVE  phase \in 0 .. BitTime
<1> DEFINE inc == BitPhaseInc
<1>1. pos \in 0 .. SamplesPerBit - 1 /\ pos * inc \in Nat
  BY BitHalves, Increments, SMT DEF BitPosition
<1>2. (SamplesPerBit - 1) * inc = SamplesPerBit * inc - inc /\ SamplesPerBit * inc \in Nat
  BY BitHalves, Increments, SMT
<1>3. CASE pos + 1 = SamplesPerBit
  <2>1. pos = SamplesPerBit - 1
    BY <1>1, <1>3, BitHalves, SMT
  <2>2. pos * inc = SamplesPerBit * inc - inc
    BY <1>2, <2>1
  <2> QED BY <1>1, <1>2, <1>3, <2>2, Increments, SMT
<1>4. CASE pos + 1 < SamplesPerBit
  <2>1. pos * inc + inc <= (SamplesPerBit - 1) * inc
    <3>1. (pos + 1) * inc <= (SamplesPerBit - 1) * inc
      BY <1>1, <1>4, BitHalves, Increments, SMT
    <3>2. (pos + 1) * inc = pos * inc + inc
      BY <1>1, Increments, SMT
    <3> QED BY <3>1, <3>2
  <2> QED BY <1>1, <1>2, <2>1, Increments, SMT
<1> QED BY <1>1, <1>3, <1>4, BitHalves, SMT

(* Where the clock is after a sample: one further or at the start, and     *)
(* what is left over at the start.                                         *)
LEMMA ClockTurns ==
  ASSUME ClockTyped, BitClock
  PROVE  /\ ClockTyped'
         /\ m_bitPos' = IF m_bitPos + 1 = SamplesPerBit \/ Slips THEN 0 ELSE m_bitPos + 1
         /\ m_bitPos' # 0 => m_newPeakPos' = m_newPeakPos
         /\ Rest' = IF m_bitPos' # 0 THEN Rest
                    ELSE IF Slips THEN Rest + BitRest - BitPhaseInc ELSE Rest + BitRest
<1> DEFINE pos == m_bitPos  inc == BitPhaseInc  rest == Rest
<1>1. /\ pos \in 0 .. SamplesPerBit - 1 /\ rest \in 0 .. inc - 1
      /\ m_bitPhasePos = pos * inc + rest /\ inc \in Nat \ {0} /\ pos * inc \in Nat
  BY BitHalves, Increments, SMT DEF ClockTyped, BitPosition, Rest
<1>2. Slips <=> BitTimeOver /\ pos + 1 # SamplesPerBit
  BY <1>1, BitHalves, SMT DEF Slips
<1>3. m_bitPos' = IF pos + 1 = SamplesPerBit \/ Slips THEN 0 ELSE pos + 1
  BY <1>1, <1>2, TimeOver, BitHalves, SMT DEF BitClock
<1>4. m_bitPos' # 0 => ~BitTimeOver
  BY <1>1, <1>2, <1>3, TimeOver
<1>5. m_bitPos' # 0 => m_newPeakPos' = m_newPeakPos
  BY <1>4 DEF BitClock
<1>6. m_bitPos' \in BitPosition /\ m_newPeakPos' \in BitPosition /\ m_peakPos' \in BitPosition
  <2>1. m_newPeakPos' \in BitPosition /\ m_peakPos' \in BitPosition
    BY Zenon DEF BitClock, ClockTyped
  <2>2. m_bitPos' \in BitPosition
    BY <1>1, <1>3, BitHalves, SMT DEF BitPosition
  <2> QED BY <2>1, <2>2
<1>7. sinceBit' \in Nat \cup {NoBit} /\ slipped' \in BOOLEAN
  <2>1. sinceBit' \in Nat \cup {NoBit}
    BY SMT DEF BitClock, ClockTyped, NoBit
  <2>2. slipped' \in BOOLEAN
    BY DEF BitClock
  <2> QED BY <2>1, <2>2
<1>8. Rest' = m_bitPhasePos' - m_bitPos' * inc
  BY DEF Rest
<1>9. CASE m_bitPos' # 0
  <2>1. m_bitPos' = pos + 1 /\ m_bitPhasePos' = pos * inc + rest + inc /\ pos + 1 # SamplesPerBit
    BY <1>1, <1>3, <1>4, <1>9, SMT DEF BitClock
  <2>2. (pos + 1) * inc = pos * inc + inc
    BY <1>1, SMT
  <2>3. Rest' = rest /\ m_bitPhasePos' \in Nat
    BY <1>1, <1>8, <2>1, <2>2, SMT
  <2>4. pos + 2 = SamplesPerBit => rest < inc - BitRest
    BY <1>1, <1>4, <1>9, TimeOver, Increments, SMT
  <2>5. m_bitPos' + 1 = SamplesPerBit => Rest' < inc - BitRest
    BY <1>1, <2>1, <2>3, <2>4, BitHalves, SMT
  <2> QED BY <1>1, <1>3, <1>5, <1>6, <1>7, <1>9, <2>3, <2>5 DEF ClockTyped
<1>10. CASE m_bitPos' = 0
  <2>1. BitTimeOver
    BY <1>1, <1>2, <1>3, <1>10, TimeOver, SMT
  <2>2. m_bitPhasePos' = pos * inc + rest + inc - (SamplesPerBit * inc - BitRest)
    BY <1>1, <2>1, Increments, SMT DEF BitClock
  <2>3. Rest' = m_bitPhasePos'
    BY <1>1, <1>8, <1>10, <2>2, Increments, BitHalves, SMT
  <2>4. CASE Slips
    <3>1. pos = SamplesPerBit - 2 /\ rest >= inc - BitRest
      BY <1>1, <2>4, TimeOver, BitHalves, SMT
    <3>2. (SamplesPerBit - 2) * inc = SamplesPerBit * inc - 2 * inc /\ SamplesPerBit * inc \in Nat
      BY <1>1, BitHalves, SMT
    <3>3. pos * inc = SamplesPerBit * inc - 2 * inc
      BY <3>1, <3>2
    <3> HIDE DEF pos, inc, rest
    <3>4. m_bitPhasePos' = rest + BitRest - inc
      BY <1>1, <2>2, <3>2, <3>3, Increments, SMT
    <3>5. Rest' \in 0 .. inc - 1 /\ Rest' < inc - BitRest /\ m_bitPhasePos' \in Nat
      BY <1>1, <2>3, <3>1, <3>4, Increments, SMT DEF inc
    <3> QED BY <1>3, <1>5, <1>6, <1>7, <1>10, <2>3, <2>4, <3>4, <3>5 DEF ClockTyped, inc, rest, pos
  <2>5. CASE ~Slips
    <3>1. pos = SamplesPerBit - 1 /\ rest < inc - BitRest
      BY <1>1, <1>2, <2>1, <2>5, BitHalves, SMT DEF ClockTyped
    <3>2. (SamplesPerBit - 1) * inc = SamplesPerBit * inc - inc /\ SamplesPerBit * inc \in Nat
      BY <1>1, BitHalves, SMT
    <3>3. pos * inc = SamplesPerBit * inc - inc
      BY <3>1, <3>2
    <3> HIDE DEF pos, inc, rest
    <3>4. m_bitPhasePos' = rest + BitRest
      BY <1>1, <2>2, <3>2, <3>3, Increments, SMT
    <3>5. Rest' \in 0 .. inc - 1 /\ m_bitPhasePos' \in Nat
      BY <1>1, <2>3, <3>1, <3>4, Increments, SMT DEF inc
    <3>6. m_bitPos' + 1 # SamplesPerBit
      BY <1>10, BitHalves, SMT
    <3> QED BY <1>3, <1>5, <1>6, <1>7, <1>10, <2>3, <2>5, <3>4, <3>5, <3>6 DEF ClockTyped, inc, rest, pos
  <2> QED BY <2>4, <2>5
<1> QED BY <1>9, <1>10

(* The first sample of all takes the first symbol.                         *)
LEMMA ClockBegins ==
  ASSUME ClockInv, BitClock, sinceBit = NoBit
  PROVE  ClockInv'
<1>1. NotStarted /\ ClockTyped
  BY DEF ClockInv
<1>2. Rest = 0 /\ ~Slips
  <2>1. Rest = 0
    BY <1>1, Increments, SMT DEF NotStarted, Rest
  <2> QED BY <1>1, <2>1, TimeOver, Increments, SMT
<1>3. m_bitPos' = 1 /\ m_peakPos' = 0 /\ sinceBit' = 0 /\ SamplesPerBit > 1
  <2>1. HalfBit(0) = HalfABit /\ HalfABit # 0
    BY HalfBitIs, BitHalves, SMT DEF BitPosition
  <2>2. m_peakPos' = 0 /\ sinceBit' = 0
    BY <1>1, <2>1, SMT DEF BitClock, NotStarted, SymbolDue
  <2>3. SamplesPerBit > 1
    BY BitHalves, SMT
  <2>4. m_bitPos' = 1
    BY <1>1, <1>2, <2>3, ClockTurns, SMT DEF NotStarted
  <2> QED BY <2>2, <2>3, <2>4
<1>4. m_newPeakPos' = 0
  BY <1>1, <1>3, ClockTurns, SMT DEF NotStarted
<1>5. ~slipped'
  BY <1>1, <1>2 DEF BitClock, NotStarted
<1>6. ToPeak' = SamplesPerBit - 1 /\ ToHalf' = HalfABit - 1
  <2>1. HalfBit(m_peakPos)' = HalfABit
    BY <1>3, HalfBitIs, BitHalves, SMT DEF BitPosition, HalfBit, HalfABit
  <2> QED BY <1>3, <2>1, BitHalves, SMT DEF ToPeak, ToHalf, Ahead
<1>7. HalfABit' = HalfABit
  BY DEF HalfABit
<1>8. NotTooSoon'
  BY <1>3, <1>5, <1>6, <1>7, BitHalves, SMT DEF NotTooSoon
<1>9. NotTooLate'
  BY <1>3, <1>4, <1>5, <1>6, <1>7, BitHalves, SMT DEF NotTooLate
<1>10. PeakPassed'
  BY <1>3, <1>4, <1>5, <1>7, BitHalves, SMT DEF PeakPassed
<1>11. SlipIsRecent'
  BY <1>5 DEF SlipIsRecent
<1> QED BY <1>1, <1>3, <1>8, <1>9, <1>10, <1>11, ClockTurns DEF ClockInv, NoBit

(* Soon after a slip the clock does not slip again.                        *)
LEMMA SlipsOnce ==
  ASSUME ClockTyped, SlipIsRecent, slipped
  PROVE  ~Slips
<1>1. PICK turns \in 0 .. 3 : TurnsSinceSlip(turns)
  BY DEF SlipIsRecent
<1>2. Rest < (turns + 1) * BitRest
  BY <1>1 DEF TurnsSinceSlip
<1>3. (turns + 1) * BitRest <= 4 * BitRest
  BY <1>1, Increments, SMT
<1>4. Rest \in Int /\ turns \in Int
  BY <1>1, SMT DEF ClockTyped
<1>5. (turns + 1) * BitRest \in Int
  BY <1>4, Increments, SMT
<1>6. Rest < BitPhaseInc - BitRest
  <2> DEFINE most == (turns + 1) * BitRest
  <2>1. Rest < most /\ most <= 4 * BitRest /\ most \in Int
    BY <1>2, <1>3, <1>5
  <2> HIDE DEF most
  <2> QED BY <1>4, <2>1, Increments, SMT
<1> QED BY <1>4, <1>6, TimeOver, Increments, SMT

(* After the next turn there is one turn more.                             *)
LEMMA SlipStaysRecent ==
  ASSUME ClockTyped, NotTooLate, SlipIsRecent, BitClock, sinceBit # NoBit
  PROVE  SlipIsRecent'
<1>1. /\ m_bitPos \in 0 .. SamplesPerBit - 1 /\ sinceBit \in Nat /\ Rest \in Int
      /\ Rest >= 0 /\ Rest < BitPhaseInc
  BY Increments, SMT DEF ClockTyped, BitPosition
<1>2. m_bitPos' = IF m_bitPos + 1 = SamplesPerBit \/ Slips THEN 0 ELSE m_bitPos + 1
  BY ClockTurns
<1>3. sinceBit' \in Nat
  BY <1>1, SMT DEF BitClock
<1>4. CASE Slips
  <2>1. m_bitPos' = 0 /\ Rest' = Rest + BitRest - BitPhaseInc
    BY <1>2, <1>4, ClockTurns
  <2>2. Rest' < BitRest
    BY <1>1, <2>1, Increments, SMT
  <2>3. TurnsSinceSlip(0)'
    BY <1>3, <2>1, <2>2, BitHalves, Increments, SMT DEF TurnsSinceSlip, BitRest
  <2> QED BY <2>3 DEF SlipIsRecent, TurnsSinceSlip, BitRest
<1>5. CASE ~Slips /\ slipped'
  <2>1. slipped /\ ~SymbolDue
    BY <1>5 DEF BitClock
  <2>2. PICK turns \in 0 .. 3 : TurnsSinceSlip(turns)
    BY <2>1 DEF SlipIsRecent
  <2>3. sinceBit' = sinceBit + 1 /\ m_bitPos # m_peakPos
    BY <2>1 DEF BitClock, SymbolDue
  <2>4. turns \in 0 .. 3 /\ sinceBit >= turns * SamplesPerBit + m_bitPos
        /\ Rest < (turns + 1) * BitRest
    BY <2>2 DEF TurnsSinceSlip
  <2>5. CASE m_bitPos' # 0
    <3>1. m_bitPos' = m_bitPos + 1 /\ Rest' = Rest
      BY <1>2, <2>5, ClockTurns
    <3>2. sinceBit' >= turns * SamplesPerBit + m_bitPos'
      BY <1>1, <2>3, <2>4, <3>1, BitHalves, SMT
    <3>3. TurnsSinceSlip(turns)'
      BY <2>4, <3>1, <3>2 DEF TurnsSinceSlip, BitRest
    <3> QED BY <3>3 DEF SlipIsRecent, TurnsSinceSlip, BitRest
  <2>6. CASE m_bitPos' = 0
    <3>1. m_bitPos = SamplesPerBit - 1 /\ Rest' = Rest + BitRest
      BY <1>1, <1>2, <1>5, <2>6, ClockTurns, BitHalves, SMT
    <3>2. (turns + 1) * SamplesPerBit = turns * SamplesPerBit + SamplesPerBit
          /\ (turns + 2) * BitRest = (turns + 1) * BitRest + BitRest
          /\ turns * SamplesPerBit \in Int /\ (turns + 1) * BitRest \in Int
      BY <2>4, BitHalves, Increments, SMT
    <3>3. turns # 3
      <4>1. ToPeak >= 1
        <5>1. m_peakPos \in 0 .. SamplesPerBit - 1
          BY DEF ClockTyped, BitPosition
        <5> QED BY <1>1, <2>3, <5>1, BitHalves, SMT DEF ToPeak, Ahead
      <4>2. sinceBit + 1 + ToPeak <= 2 * SamplesPerBit + (SamplesPerBit + HalfABit - 1)
        BY <2>1 DEF NotTooLate
      <4>3. ToPeak \in Int
        BY <1>1, BitHalves, SMT DEF ToPeak, Ahead, ClockTyped, BitPosition
      <4> QED BY <1>1, <2>4, <3>1, <4>1, <4>2, <4>3, BitHalves, SMT
    <3>4. turns + 1 \in 0 .. 3
      BY <2>4, <3>3, SMT
    <3>5. sinceBit' >= (turns + 1) * SamplesPerBit + m_bitPos'
      BY <1>1, <2>3, <2>4, <2>6, <3>1, <3>2, BitHalves, SMT
    <3>6. Rest' < ((turns + 1) + 1) * BitRest
      <4> DEFINE most == (turns + 1) * BitRest
      <4>1. Rest < most /\ most \in Int /\ (turns + 2) * BitRest = most + BitRest
        BY <2>4, <3>2
      <4> HIDE DEF most
      <4>2. Rest' < (turns + 2) * BitRest
        BY <1>1, <3>1, <4>1, Increments, SMT
      <4>3. (turns + 1) + 1 = turns + 2
        BY <2>4, SMT
      <4> QED BY <4>2, <4>3
    <3>7. TurnsSinceSlip(turns + 1)'
      BY <3>5, <3>6 DEF TurnsSinceSlip, BitRest
    <3> QED BY <3>4, <3>7 DEF SlipIsRecent, TurnsSinceSlip, BitRest
  <2> QED BY <2>5, <2>6
<1>6. CASE ~slipped'
  BY <1>6 DEF SlipIsRecent
<1> QED BY <1>4, <1>5, <1>6

(* Each later sample keeps the symbols apart: by cases of whether one is   *)
(* due, the candidate is taken up, or neither; without a slip, at a slip,  *)
(* and after one.                                                          *)
LEMMA ClockRuns ==
  ASSUME ClockInv, BitClock, sinceBit # NoBit
  PROVE  /\ ClockInv'
         /\ sinceBit' = 0 => sinceBit + 1 >= HalfABit + (IF slipped THEN 0 ELSE 1)
         /\ sinceBit' < 2 * SamplesPerBit + (IF slipped' THEN SamplesPerBit + HalfABit ELSE 0)
<1> DEFINE half == HalfBit(m_peakPos)
           pos == m_bitPos  peak == m_peakPos  new == m_newPeakPos  since == sinceBit
<1>1. /\ pos \in 0 .. SamplesPerBit - 1 /\ peak \in 0 .. SamplesPerBit - 1
      /\ new \in 0 .. SamplesPerBit - 1 /\ since \in Nat
  BY SMT DEF ClockInv, ClockTyped, BitPosition
<1>2. ClockTyped /\ NotTooSoon /\ NotTooLate /\ PeakPassed /\ SlipIsRecent
  BY DEF ClockInv
<1>3. /\ half = IF peak < HalfABit THEN peak + HalfABit ELSE peak - HalfABit
      /\ HalfBit(m_peakPos') = IF m_peakPos' < HalfABit THEN m_peakPos' + HalfABit
                               ELSE m_peakPos' - HalfABit
  BY <1>2, HalfBitIs, ClockTurns DEF ClockTyped
<1>4. /\ ToPeak = IF peak >= pos THEN peak - pos ELSE peak - pos + SamplesPerBit
      /\ ToHalf = IF half >= pos THEN half - pos ELSE half - pos + SamplesPerBit
  BY DEF ToPeak, ToHalf, Ahead
<1>5. /\ ToPeak' = IF m_peakPos' >= m_bitPos' THEN m_peakPos' - m_bitPos'
                   ELSE m_peakPos' - m_bitPos' + SamplesPerBit
      /\ ToHalf' = IF HalfBit(m_peakPos') >= m_bitPos' THEN HalfBit(m_peakPos') - m_bitPos'
                   ELSE HalfBit(m_peakPos') - m_bitPos' + SamplesPerBit
  BY DEF ToPeak, ToHalf, Ahead, HalfBit
<1>6. /\ m_bitPos' # 0 => m_newPeakPos' = new
      /\ m_peakPos' \in 0 .. SamplesPerBit - 1 /\ m_newPeakPos' \in 0 .. SamplesPerBit - 1
      /\ ClockTyped'
  BY <1>2, ClockTurns DEF ClockTyped, BitPosition
<1>7. /\ m_peakPos' = IF pos = half THEN new ELSE peak
      /\ sinceBit' = IF pos = peak THEN 0 ELSE since + 1
  BY DEF BitClock, SymbolDue
<1>8. HalfABit \in Nat \ {0} /\ SamplesPerBit = 2 * HalfABit
  BY BitHalves
<1>9. HalfABit' = HalfABit
  BY DEF HalfABit
<1>10. SlipIsRecent' /\ sinceBit' \in Nat /\ sinceBit' # NoBit
  <2>1. sinceBit' \in Nat /\ sinceBit' # NoBit
    BY <1>1, <1>7, SMT DEF NoBit
  <2> QED BY <1>2, <2>1, SlipStaysRecent
<1>11. m_bitPos' = IF pos + 1 = SamplesPerBit \/ Slips THEN 0 ELSE pos + 1
  BY <1>2, ClockTurns
<1>12. CASE ~slipped
  <2> HIDE DEF half, pos, peak, new, since
  <2>1. /\ since + ToPeak >= HalfABit /\ since + ToHalf >= HalfABit - 1
        /\ since + 1 + ToPeak <= 2 * SamplesPerBit
        /\ new # peak => ToPeak < ToHalf \/ since + ToHalf <= SamplesPerBit - 1
    BY <1>2, <1>12, BitHalves, SMT DEF NotTooSoon, NotTooLate, new, peak, since
  <2>2. pos > peak =>
          /\ peak >= HalfABit => since <= HalfABit - 1 + pos - peak
          /\ peak < HalfABit /\ new # peak => since = pos - peak - 1
    BY <1>2, <1>12 DEF PeakPassed, pos, new, peak, since
  <2>3. sinceBit' = 0 => since + 1 > HalfABit
    BY <1>1, <1>4, <1>7, <1>8, <2>1, SMT
  <2>4. sinceBit' < 2 * SamplesPerBit
    BY <1>1, <1>4, <1>7, <1>8, <2>1, SMT
  <2>5. sinceBit' < 2 * SamplesPerBit + (IF slipped' THEN SamplesPerBit + HalfABit ELSE 0)
    BY <1>8, <1>10, <2>4, SMT
  <2>6. CASE ~Slips
    <3>1. m_bitPos' = IF pos + 1 = SamplesPerBit THEN 0 ELSE pos + 1
      BY <1>11, <2>6
    <3>2. ~slipped'
      BY <1>12, <2>6 DEF BitClock
    <3>3. sinceBit' + ToPeak' >= HalfABit
      BY <1>1, <1>3, <1>4, <1>5, <1>6, <1>7, <1>8, <2>1, <3>1, SMT
    <3>4. sinceBit' + ToHalf' >= HalfABit - 1
      BY <1>1, <1>3, <1>4, <1>5, <1>6, <1>7, <1>8, <2>1, <3>1, SMT
    <3>5. sinceBit' + 1 + ToPeak' <= 2 * SamplesPerBit
      BY <1>1, <1>3, <1>4, <1>5, <1>6, <1>7, <1>8, <2>1, <3>1, SMT
    <3>6. m_newPeakPos' # m_peakPos' =>
            ToPeak' < ToHalf' \/ sinceBit' + ToHalf' <= SamplesPerBit - 1
      BY <1>1, <1>3, <1>4, <1>5, <1>6, <1>7, <1>8, <2>1, <2>2, <3>1, SMT
    <3>7. m_bitPos' > m_peakPos' =>
            /\ m_peakPos' >= HalfABit => sinceBit' <= HalfABit - 1 + m_bitPos' - m_peakPos'
            /\ m_peakPos' < HalfABit /\ m_newPeakPos' # m_peakPos' =>
                 sinceBit' = m_bitPos' - m_peakPos' - 1
      BY <1>1, <1>3, <1>4, <1>5, <1>6, <1>7, <1>8, <2>1, <2>2, <3>1, SMT
    <3>8. NotTooSoon' /\ NotTooLate' /\ PeakPassed'
      <4>1. NotTooSoon'
        BY <1>8, <1>9, <3>2, <3>3, <3>4, SMT DEF NotTooSoon
      <4>2. NotTooLate'
        BY <1>8, <1>9, <3>2, <3>5, <3>6, SMT DEF NotTooLate
      <4>3. PeakPassed'
        BY <1>9, <3>2, <3>7 DEF PeakPassed
      <4> QED BY <4>1, <4>2, <4>3
    <3>9. ClockInv'
      BY <1>6, <1>10, <3>8 DEF ClockInv
    <3> QED BY <1>1, <1>8, <1>12, <2>3, <2>5, <3>9, SMT DEF since
  <2>7. CASE Slips
    <3>1. m_bitPos' = 0 /\ pos + 2 = SamplesPerBit
      BY <1>2, <1>11, <2>7, TimeOver DEF pos
    <3>2. slipped'
      BY <2>7 DEF BitClock
    <3>3. sinceBit' + ToPeak' >= HalfABit - 1
      BY <1>1, <1>3, <1>4, <1>5, <1>6, <1>7, <1>8, <2>1, <3>1, SMT
    <3>4. sinceBit' + ToHalf' >= HalfABit - 2
      BY <1>1, <1>3, <1>4, <1>5, <1>6, <1>7, <1>8, <2>1, <3>1, SMT
    <3>5. sinceBit' + 1 + ToPeak' <= 2 * SamplesPerBit + (SamplesPerBit + HalfABit - 1)
      BY <1>1, <1>3, <1>4, <1>5, <1>6, <1>7, <1>8, <2>1, <2>2, <3>1, SMT
    <3>6. m_newPeakPos' # m_peakPos' =>
            \/ ToPeak' < ToHalf'
            \/ sinceBit' + ToHalf' <= SamplesPerBit - 1 + (SamplesPerBit + HalfABit - 1)
      BY <1>1, <1>3, <1>4, <1>5, <1>6, <1>7, <1>8, <2>1, <2>2, <3>1, SMT
    <3>7. ~(m_bitPos' > m_peakPos')
      BY <1>6, <3>1, SMT
    <3>8. NotTooSoon' /\ NotTooLate' /\ PeakPassed'
      <4>1. NotTooSoon'
        BY <1>8, <1>9, <3>2, <3>3, <3>4, SMT DEF NotTooSoon
      <4>2. NotTooLate'
        BY <1>8, <1>9, <3>2, <3>5, <3>6, SMT DEF NotTooLate
      <4>3. PeakPassed'
        BY <3>7 DEF PeakPassed
      <4> QED BY <4>1, <4>2, <4>3
    <3>9. ClockInv'
      BY <1>6, <1>10, <3>8 DEF ClockInv
    <3> QED BY <1>1, <1>8, <1>12, <2>3, <2>5, <3>9, SMT DEF since
  <2> QED BY <2>6, <2>7
<1>13. CASE slipped
  <2> HIDE DEF half, pos, peak, new, since
  <2>1. /\ since + ToPeak >= HalfABit - 1 /\ since + ToHalf >= HalfABit - 2
        /\ since + 1 + ToPeak <= 3 * SamplesPerBit + HalfABit - 1
        /\ new # peak => ToPeak < ToHalf \/ since + ToHalf <= 2 * SamplesPerBit + HalfABit - 2
    BY <1>2, <1>13, BitHalves, SMT DEF NotTooSoon, NotTooLate, new, peak, since
  <2>2. pos > peak => peak < HalfABit /\ new = peak
    BY <1>2, <1>13 DEF PeakPassed, pos, new, peak
  <2>3. ~Slips
    BY <1>2, <1>13, SlipsOnce
  <2>4. m_bitPos' = IF pos + 1 = SamplesPerBit THEN 0 ELSE pos + 1
    BY <1>11, <2>3
  <2>5. slipped' <=> ~(pos = peak)
    BY <1>13, <2>3 DEF BitClock, SymbolDue, pos, peak
  <2>6. sinceBit' = 0 => since + 1 >= HalfABit
    BY <1>1, <1>4, <1>7, <1>8, <2>1, SMT
  <2>7. CASE pos = peak
    <3>1. sinceBit' = 0 /\ ~slipped' /\ m_peakPos' = peak
      BY <1>1, <1>3, <1>7, <1>8, <2>5, <2>7, SMT
    <3>2. sinceBit' + ToPeak' >= HalfABit /\ sinceBit' + ToHalf' >= HalfABit - 1
      BY <1>1, <1>3, <1>5, <1>6, <1>8, <2>4, <2>7, <3>1, SMT
    <3>3. sinceBit' + 1 + ToPeak' <= 2 * SamplesPerBit /\ sinceBit' + ToHalf' <= SamplesPerBit - 1
      BY <1>1, <1>3, <1>5, <1>6, <1>8, <2>4, <2>7, <3>1, SMT
    <3>4. m_bitPos' > m_peakPos' => sinceBit' = m_bitPos' - m_peakPos' - 1
      BY <1>1, <1>8, <2>4, <2>7, <3>1, SMT
    <3>5. NotTooSoon' /\ NotTooLate' /\ PeakPassed'
      <4>1. NotTooSoon'
        BY <1>8, <1>9, <3>1, <3>2, SMT DEF NotTooSoon
      <4>2. NotTooLate'
        BY <1>8, <1>9, <3>1, <3>3, SMT DEF NotTooLate
      <4>3. PeakPassed'
        <5>1. m_bitPos' > m_peakPos' => sinceBit' <= HalfABit - 1 + m_bitPos' - m_peakPos'
          BY <1>1, <1>8, <2>4, <2>7, <3>1, SMT
        <5> QED BY <1>9, <3>1, <3>4, <5>1 DEF PeakPassed
      <4> QED BY <4>1, <4>2, <4>3
    <3>6. ClockInv'
      BY <1>6, <1>10, <3>5 DEF ClockInv
    <3>7. sinceBit' < 2 * SamplesPerBit
      BY <1>8, <3>1, SMT
    <3> QED BY <1>13, <2>6, <3>1, <3>6, <3>7, <1>1, <1>8, SMT DEF since
  <2>8. CASE pos # peak
    <3>1. slipped' /\ sinceBit' = since + 1
      BY <1>7, <2>5, <2>8
    <3>2. sinceBit' + ToPeak' >= HalfABit - 1
      BY <1>1, <1>3, <1>4, <1>5, <1>6, <1>7, <1>8, <2>1, <2>4, <2>8, SMT
    <3>3. sinceBit' + ToHalf' >= HalfABit - 2
      BY <1>1, <1>3, <1>4, <1>5, <1>6, <1>7, <1>8, <2>1, <2>4, <2>8, SMT
    <3>4. sinceBit' + 1 + ToPeak' <= 2 * SamplesPerBit + (SamplesPerBit + HalfABit - 1)
      BY <1>1, <1>3, <1>4, <1>5, <1>6, <1>7, <1>8, <2>1, <2>2, <2>4, <2>8, SMT
    <3>5. m_newPeakPos' # m_peakPos' =>
            \/ ToPeak' < ToHalf'
            \/ sinceBit' + ToHalf' <= SamplesPerBit - 1 + (SamplesPerBit + HalfABit - 1)
      BY <1>1, <1>3, <1>4, <1>5, <1>6, <1>7, <1>8, <2>1, <2>2, <2>4, <2>8, SMT
    <3>6. m_bitPos' > m_peakPos' => m_peakPos' < HalfABit /\ m_newPeakPos' = m_peakPos'
      BY <1>1, <1>3, <1>4, <1>5, <1>6, <1>7, <1>8, <2>1, <2>2, <2>4, <2>8, SMT
    <3>7. NotTooSoon' /\ NotTooLate' /\ PeakPassed'
      <4>1. NotTooSoon'
        BY <1>8, <1>9, <3>1, <3>2, <3>3, SMT DEF NotTooSoon
      <4>2. NotTooLate'
        BY <1>8, <1>9, <3>1, <3>4, <3>5, SMT DEF NotTooLate
      <4>3. PeakPassed'
        BY <1>9, <3>1, <3>6 DEF PeakPassed
      <4> QED BY <4>1, <4>2, <4>3
    <3>8. ClockInv'
      BY <1>6, <1>10, <3>7 DEF ClockInv
    <3>9. sinceBit' < 2 * SamplesPerBit + (SamplesPerBit + HalfABit)
      <4>1. ToPeak >= 1
        BY <1>1, <1>4, <1>8, <2>8, SMT
      <4>2. ToPeak \in Int
        BY <1>1, <1>4, <1>8, SMT
      <4> QED BY <1>1, <1>8, <2>1, <3>1, <4>1, <4>2, SMT
    <3> QED BY <1>13, <2>6, <3>1, <3>8, <3>9, <1>1, <1>8, SMT DEF since
  <2> QED BY <2>7, <2>8
<1> QED BY <1>12, <1>13

(* Only a sample that comes out of the decimation moves the bit clock.     *)
LEMMA OnlyFilteredSamplesCount ==
  ASSUME [Next]_vars
  PROVE  BitClock \/ UNCHANGED <<decimated, clockVars>>
<1>1. CASE FilteredSample
  BY <1>1 DEF FilteredSample
<1>2. CASE SkippedSample
  BY <1>2 DEF SkippedSample
<1>3. CASE GenerateFft
  BY <1>3 DEF GenerateFft, filterVars
<1>4. CASE CollectFftOutput
  BY <1>4 DEF CollectFftOutput, filterVars
<1>5. CASE \E range \in Ranges : CollectFftOutputByRange(range)
  BY <1>5 DEF CollectFftOutputByRange, filterVars
<1>6. CASE ProcessAudio
  BY <1>6 DEF ProcessAudio, filterVars
<1>7. CASE UNCHANGED vars
  BY <1>7 DEF vars, filterVars
<1> QED BY <1>1, <1>2, <1>3, <1>4, <1>5, <1>6, <1>7 DEF Next

LEMMA ClockKept ==
  ASSUME ClockInv, [Next]_vars
  PROVE  ClockInv'
<1>1. CASE BitClock
  BY <1>1, ClockBegins, ClockRuns
<1>2. CASE UNCHANGED clockVars
  BY <1>2 DEF clockVars, ClockInv, ClockTyped, NotStarted, NotTooSoon, NotTooLate,
     PeakPassed, SlipIsRecent, TurnsSinceSlip, Rest, BitRest, ToPeak, ToHalf, Ahead, HalfBit, HalfABit
<1> QED BY <1>1, <1>2, OnlyFilteredSamplesCount

(* For every even number of samples a bit and every rounding of the sum of *)
(* a bit time that makes up for a sample in five bits at the most: wherever *)
(* the energy points from one bit time to the next, RxPutNextUCSample      *)
(* never takes two symbols half a bit or less apart, nor loses two bits in *)
(* a row, but for those around a slip of its clock.                        *)
THEOREM BitsApart == Spec => BitSpacing
<1>1. Init => ClockInv
  BY ClockStarts
<1>2. ClockInv /\ [Next]_vars => ClockInv'
  BY ClockKept
<1>3. ClockInv /\ [Next]_vars =>
        [decimated' # decimated /\ sinceBit # NoBit =>
           /\ sinceBit' = 0 =>
                sinceBit + 1 >= SamplesPerBit \div 2 + (IF slipped THEN 0 ELSE 1)
           /\ sinceBit' < 2 * SamplesPerBit
                + (IF slipped' THEN SamplesPerBit + SamplesPerBit \div 2 ELSE 0)]_vars
  BY OnlyFilteredSamplesCount, ClockRuns DEF HalfABit
<1> QED BY <1>1, <1>2, <1>3, PTL DEF Spec, BitSpacing

-----------------------------------------------------------------------------
(***************************************************************************)
(* The filters.  The ring's slot with the sample of age k, and a filter    *)
(* that has taken in count samples.                                        *)
(***************************************************************************)
SlotOf(index, k, length) ==
  IF index + 1 + k < length THEN index + 1 + k ELSE index + 1 + k - length

InSync(filter, count, length) ==
  /\ filter \in [index : Tap(length), history : [Tap(length) -> Nat]]
  /\ \A k \in Tap(length) : filter.history[SlotOf(filter.index, k, length)] = Latest(k, count)

LEMMA FreshInSync ==
  ASSUME NEW length \in Nat \ {0}
  PROVE  InSync(Fresh(length), 0, length)
<1>1. Fresh(length) \in [index : Tap(length), history : [Tap(length) -> Nat]]
  BY SMT DEF Fresh, Tap, Silence
<1>2. ASSUME NEW k \in Tap(length)
      PROVE  Fresh(length).history[SlotOf(Fresh(length).index, k, length)] = Latest(k, 0)
  <2>1. SlotOf(0, k, length) \in Tap(length)
    BY <1>2, SMT DEF SlotOf, Tap
  <2>2. Latest(k, 0) = Silence
    BY <1>2, SMT DEF Latest, Tap
  <2> QED BY <2>1, <2>2 DEF Fresh
<1> QED BY <1>1, <1>2 DEF InSync

(* ProcessSample: storing the next sample makes every other one older.     *)
LEMMA StoreInSync ==
  ASSUME NEW length \in Nat \ {0}, NEW count \in Nat, NEW filter,
         InSync(filter, count, length)
  PROVE  InSync(Store(filter, count + 1, length), count + 1, length)
<1> DEFINE stored == Store(filter, count + 1, length)
           next == IF filter.index - 1 < 0 THEN length - 1 ELSE filter.index - 1
<1>1. filter.index \in 0 .. length - 1 /\ filter.history \in [Tap(length) -> Nat]
  BY DEF InSync, Tap
<1>2. next \in 0 .. length - 1
  BY <1>1, SMT
<1>3. stored.index = next /\ stored.history = [filter.history EXCEPT ![filter.index] = count + 1]
  BY DEF Store
<1>4. stored.history \in [Tap(length) -> Nat]
  <2>1. \A history \in [Tap(length) -> Nat], index \in Tap(length), sample \in Nat :
          [history EXCEPT ![index] = sample] \in [Tap(length) -> Nat]
    OBVIOUS
  <2>2. count + 1 \in Nat
    OBVIOUS
  <2> HIDE DEF stored
  <2> QED BY <1>1, <1>3, <2>1, <2>2, Zenon DEF Tap
<1>5. stored \in [index : Tap(length), history : [Tap(length) -> Nat]]
  <2>1. stored = [index |-> next, history |-> stored.history]
    BY DEF Store
  <2> HIDE DEF stored, next
  <2> QED BY <1>2, <1>4, <2>1 DEF Tap
<1>6. ASSUME NEW k \in Tap(length)
      PROVE  stored.history[SlotOf(next, k, length)] = Latest(k, count + 1)
  <2>1. k \in 0 .. length - 1
    BY <1>6 DEF Tap
  <2>2. CASE k = 0
    <3>1. SlotOf(next, k, length) = filter.index
      BY <1>1, <2>2, SMT DEF SlotOf
    <3>2. Latest(k, count + 1) = count + 1
      BY <2>2, SMT DEF Latest, Silence
    <3> QED BY <1>1, <1>3, <3>1, <3>2 DEF Tap
  <2>3. CASE k # 0
    <3>1. k - 1 \in Tap(length)
      BY <2>1, <2>3, SMT DEF Tap
    <3>2. /\ SlotOf(next, k, length) = SlotOf(filter.index, k - 1, length)
          /\ SlotOf(next, k, length) # filter.index
          /\ SlotOf(next, k, length) \in Tap(length)
      <4> DEFINE index == filter.index
      <4>1. index \in 0 .. length - 1 /\ next = IF index = 0 THEN length - 1 ELSE index - 1
        BY <1>1, SMT
      <4> HIDE DEF index, next
      <4>2. SlotOf(next, k, length) = IF index + k < length THEN index + k ELSE index + k - length
        BY <2>1, <2>3, <4>1, SMT DEF SlotOf
      <4>3. SlotOf(index, k - 1, length) = IF index + k < length THEN index + k ELSE index + k - length
        BY <2>1, <2>3, <4>1, SMT DEF SlotOf
      <4>4. SlotOf(next, k, length) # index /\ SlotOf(next, k, length) \in Tap(length)
        BY <2>1, <2>3, <4>1, <4>2, SMT DEF Tap
      <4> QED BY <4>2, <4>3, <4>4 DEF index
    <3>3. filter.history[SlotOf(filter.index, k - 1, length)] = Latest(k - 1, count)
      BY <3>1 DEF InSync
    <3>4. Latest(k, count + 1) = Latest(k - 1, count)
      BY <2>1, SMT DEF Latest
    <3> QED BY <1>1, <1>3, <3>2, <3>3, <3>4
  <2> QED BY <2>2, <2>3
<1> QED BY <1>3, <1>5, <1>6 DEF InSync

(* Each tap's weight is there twice, length apart.                         *)
Doubled(values, weight, length) ==
  \A tap \in Tap(length) : values[tap] = weight[tap] /\ values[tap + length] = weight[tap]

(* The loop over the ring meets each of the latest samples once, with the  *)
(* weight of its age.                                                      *)
LEMMA ConvolveExact ==
  ASSUME NEW length \in Nat \ {0}, NEW count \in Nat, NEW filter, NEW values, NEW weight,
         InSync(filter, count, length), Doubled(values, weight, length)
  PROVE  Products(Convolve(values, filter, count + 1, length))
           = {<<weight[k], Latest(k, count + 1)>> : k \in Tap(length)}
<1> DEFINE out == Convolve(values, filter, count + 1, length)
           age(slot) == IF slot >= filter.index THEN slot - filter.index
                        ELSE slot - filter.index + length
           place(k) == IF filter.index + k < length THEN filter.index + k
                       ELSE filter.index + k - length
<1>1. filter.index \in 0 .. length - 1
  BY DEF InSync, Tap
<1>2. ASSUME NEW slot \in Tap(length)
      PROVE  age(slot) \in Tap(length) /\ out[slot] = <<weight[age(slot)], Latest(age(slot), count + 1)>>
  <2>1. slot \in 0 .. length - 1
    BY <1>2 DEF Tap
  <2>2. age(slot) \in 0 .. length - 1
    BY <1>1, <2>1, SMT
  <2>3. TapOf(filter.index, slot, length) \in {age(slot), age(slot) + length}
    BY <1>1, <2>1, SMT DEF TapOf
  <2>4. values[TapOf(filter.index, slot, length)] = weight[age(slot)]
    <3> HIDE DEF age
    <3> QED BY <2>2, <2>3 DEF Doubled, Tap
  <2>5. CASE slot = filter.index
    <3>1. age(slot) = 0 /\ Latest(0, count + 1) = count + 1
      BY <1>1, <2>5, SMT DEF Latest, Silence
    <3> QED BY <2>2, <2>4, <2>5, <3>1 DEF Convolve, Tap
  <2>6. CASE slot # filter.index
    <3>1. /\ age(slot) - 1 \in Tap(length)
          /\ SlotOf(filter.index, age(slot) - 1, length) = slot
      BY <1>1, <2>1, <2>6, SMT DEF SlotOf, Tap
    <3>2. filter.history[slot] = Latest(age(slot) - 1, count)
      BY <3>1 DEF InSync
    <3>3. Latest(age(slot) - 1, count) = Latest(age(slot), count + 1)
      <4> HIDE DEF age
      <4> QED BY <2>2, SMT DEF Latest
    <3> QED BY <2>2, <2>4, <2>6, <3>2, <3>3 DEF Convolve, Tap
  <2> QED BY <2>5, <2>6
<1>3. ASSUME NEW k \in Tap(length)
      PROVE  place(k) \in Tap(length) /\ age(place(k)) = k
  <2> DEFINE index == filter.index
  <2>1. index \in 0 .. length - 1 /\ k \in 0 .. length - 1
    BY <1>1, <1>3 DEF Tap
  <2>2. place(k) = IF index + k < length THEN index + k ELSE index + k - length
    OBVIOUS
  <2>3. age(place(k)) = IF place(k) >= index THEN place(k) - index
                        ELSE place(k) - index + length
    OBVIOUS
  <2> HIDE DEF index, place, age
  <2> QED BY <2>1, <2>2, <2>3, SMT DEF Tap
<1>4. DOMAIN out = Tap(length)
  BY DEF Convolve
<1> HIDE DEF out, age, place
<1>5. Products(out) = {out[slot] : slot \in Tap(length)}
  BY <1>4 DEF Products
<1>6. \A slot \in Tap(length) : out[slot] \in {<<weight[k], Latest(k, count + 1)>> : k \in Tap(length)}
  BY <1>2
<1>7. \A k \in Tap(length) : <<weight[k], Latest(k, count + 1)>> \in {out[slot] : slot \in Tap(length)}
  <2> TAKE k \in Tap(length)
  <2>1. out[place(k)] = <<weight[k], Latest(k, count + 1)>>
    BY <1>2, <1>3
  <2> QED BY <1>3, <2>1
<1>8. Products(out) = {<<weight[k], Latest(k, count + 1)>> : k \in Tap(length)}
  BY <1>5, <1>6, <1>7
<1> QED BY <1>8 DEF out

(* The taps the constructor computes: every place of the array is written, *)
(* and both copies of a tap have the weight of its distance from the       *)
(* nearer end, of the sinc function and of the window.                     *)
LEMMA SincTaps ==
  ASSUME NEW length \in Nat \ {0}, NEW tap \in Tap(length)
  PROVE  /\ SincValues(length)[tap] = FromEnd(tap, length)
         /\ SincValues(length)[tap + length] = FromEnd(tap, length)
<1>0. /\ length % 2 = 1 => length = 2 * (length \div 2) + 1
      /\ length % 2 # 1 => length = 2 * (length \div 2)
  BY SMT
<1>1. tap \in 0 .. length - 1 /\ length \div 2 \in Nat
  BY SMT DEF Tap
<1>2. ASSUME NEW place \in {tap, tap + length}
      PROVE  SincValues(length)[place] = FromEnd(tap, length)
  <2> DEFINE half == length \div 2  odd == length % 2
  <2>1. half \in Nat /\ (odd = 1 => length = 2 * half + 1) /\ (odd # 1 => length = 2 * half)
    BY <1>0, <1>1
  <2>2. place \in Place(length)
    BY <1>1, <1>2, SMT DEF Place
  <2>3. CASE odd = 1 /\ place \in CentreWrites(length)
    <3>1. SincValues(length)[place] = half
      BY <2>2, <2>3 DEF SincValues
    <3>2. place \in {half, length + half}
      BY <2>3 DEF CentreWrites
    <3> HIDE DEF half, odd
    <3>3. tap = half
      BY <1>1, <1>2, <2>1, <2>3, <3>2, SMT
    <3>4. FromEnd(tap, length) = half
      BY <2>1, <2>3, <3>3, SMT DEF FromEnd
    <3> QED BY <3>1, <3>4
  <2>4. CASE ~(odd = 1 /\ place \in CentreWrites(length))
    <3>1. SincValues(length)[place] = CHOOSE n \in 0 .. half - 1 : place \in SincWrites(n, length)
      BY <2>2, <2>4 DEF SincValues
    <3>2. odd = 1 => place # half /\ place # length + half
      BY <2>4 DEF CentreWrites
    <3> HIDE DEF half, odd
    <3>3. odd = 1 => tap # half
      BY <1>1, <1>2, <2>1, <3>2, SMT
    <3>4. FromEnd(tap, length) \in 0 .. half - 1
      BY <1>1, <2>1, <3>3, SMT DEF FromEnd
    <3>5. place \in SincWrites(FromEnd(tap, length), length)
      BY <1>1, <1>2, <2>1, <3>3, SMT DEF FromEnd, SincWrites
    <3>6. ASSUME NEW n \in 0 .. half - 1, place \in SincWrites(n, length)
          PROVE  n = FromEnd(tap, length)
      BY <1>1, <1>2, <2>1, <3>3, <3>6, SMT DEF FromEnd, SincWrites
    <3> QED BY <3>1, <3>4, <3>5, <3>6
  <2> QED BY <2>3, <2>4
<1> QED BY <1>2

LEMMA WindowTaps ==
  ASSUME NEW length \in Nat \ {0}, NEW tap \in Tap(length)
  PROVE  CalculateWindow("BLACKMAN", length)[tap] = FromEnd(tap, length)
<1> DEFINE half == length \div 2
           writers == {n \in 0 .. half : tap \in {n, length - n - 1}}
           last == CHOOSE n \in writers : \A m \in writers : m <= n
<1>1. CalculateWindow("BLACKMAN", length)[tap] = FromEnd(last, length)
  BY DEF CalculateWindow
<1>2. tap \in 0 .. length - 1 /\ half \in Nat /\ length \in {2 * half, 2 * half + 1}
  BY SMT DEF Tap
<1> HIDE DEF half
<1>3. \E n \in writers : \A m \in writers : m <= n
  <2>1. CASE tap <= half /\ length - 1 - tap <= half
    <3> DEFINE most == IF tap < length - 1 - tap THEN length - 1 - tap ELSE tap
    <3>1. most \in writers /\ \A m \in writers : m <= most
      BY <1>2, <2>1, SMT
    <3> QED BY <3>1
  <2>2. CASE ~(tap <= half /\ length - 1 - tap <= half)
    <3> DEFINE most == FromEnd(tap, length)
    <3>1. most \in writers /\ \A m \in writers : m <= most
      BY <1>2, <2>2, SMT DEF FromEnd
    <3> QED BY <3>1
  <2> QED BY <2>1, <2>2
<1>4. last \in writers
  BY <1>3
<1> HIDE DEF last
<1>5. last \in 0 .. half /\ tap \in {last, length - last - 1}
  BY <1>4
<1>6. FromEnd(last, length) = FromEnd(tap, length)
  BY <1>2, <1>5, SMT DEF FromEnd
<1> QED BY <1>1, <1>6

LEMMA LowPassDoubled ==
  Doubled(LowPassValues, [k \in Tap(LowPassTaps) |-> LowPassWeight(k)], LowPassTaps)
<1>1. LowPassTaps \in Nat \ {0}
  BY SignalAssumption DEF SignalAssumption
<1>2. Designable("LOW_PASS", LowPassTaps)
  BY <1>1, SMT DEF Designable, CalculateOneTransSinc
<1>3. ASSUME NEW tap \in Tap(LowPassTaps)
      PROVE  LowPassValues[tap] = LowPassWeight(tap) /\ LowPassValues[tap + LowPassTaps] = LowPassWeight(tap)
  <2>1. /\ tap \in Place(LowPassTaps) /\ tap < LowPassTaps
        /\ tap + LowPassTaps \in Place(LowPassTaps) /\ ~(tap + LowPassTaps < LowPassTaps)
        /\ (tap + LowPassTaps) - LowPassTaps = tap
    BY <1>1, <1>3, SMT DEF Tap, Place
  <2> DEFINE window == CalculateWindow("BLACKMAN", LowPassTaps)
             sinc == SincValues(LowPassTaps)
  <2>2. LowPassValues = ApplyWindow(sinc, window, LowPassTaps)
    BY <1>2 DEF LowPassValues, Designed
  <2> HIDE DEF window, sinc
  <2>3. LowPassValues[tap] = <<sinc[tap], window[tap]>>
    BY <2>1, <2>2 DEF ApplyWindow
  <2>4. LowPassValues[tap + LowPassTaps] = <<sinc[tap + LowPassTaps], window[tap]>>
    BY <2>1, <2>2 DEF ApplyWindow
  <2> QED BY <1>1, <2>3, <2>4, SincTaps, WindowTaps DEF window, sinc, LowPassWeight
<1> QED BY <1>3 DEF Doubled

LEMMA MatchedDoubled ==
  Doubled(MatchedValues, [k \in Tap(MatchedTaps) |-> MatchedWeight(k)], MatchedTaps)
<1>1. MatchedTaps \in Nat \ {0}
  BY SignalAssumption DEF SignalAssumption
<1>2. ASSUME NEW tap \in Tap(MatchedTaps)
      PROVE  MatchedValues[tap] = tap /\ MatchedValues[tap + MatchedTaps] = tap
  BY <1>1, <1>2, SMT DEF Tap, Place, MatchedValues, FromValues
<1> QED BY <1>2 DEF Doubled, MatchedWeight

(***************************************************************************)
(* The path: how far the decimation is, and both filters in sync with it.  *)
(***************************************************************************)
LastTaken == (decimated - 1) * Decimation + 1

PathTyped ==
  /\ heard \in Nat /\ decimated \in Nat
  /\ m_downSampleCount \in 0 .. Decimation - 1
  /\ heard = decimated * Decimation - m_downSampleCount

FiltersInSync ==
  /\ InSync(m_lowPassDecimating, heard, LowPassTaps)
  /\ InSync(m_matchedFilter, decimated, MatchedTaps)

OutputsRight ==
  decimated > 0 =>
    /\ Products(lowPassOut) =
         {<<LowPassWeight(k), Latest(k, LastTaken)>> : k \in Tap(LowPassTaps)}
    /\ Products(matchedOut) =
         {<<MatchedWeight(k), Latest(k, decimated)>> : k \in Tap(MatchedTaps)}

PathInv == PathTyped /\ FiltersInSync /\ OutputsRight

LEMMA PathStarts ==
  ASSUME Init
  PROVE  PathInv
<1>1. heard = 0 /\ decimated = 0 /\ m_downSampleCount = 0
      /\ m_lowPassDecimating = Fresh(LowPassTaps) /\ m_matchedFilter = Fresh(MatchedTaps)
  BY DEF Init
<1>2. PathTyped
  BY <1>1, SignalAssumption, SMT DEF SignalAssumption, PathTyped
<1>3. FiltersInSync
  BY <1>1, FreshInSync, SignalAssumption DEF SignalAssumption, FiltersInSync
<1>4. OutputsRight
  BY <1>1, SMT DEF OutputsRight
<1> QED BY <1>2, <1>3, <1>4 DEF PathInv

LEMMA PathTakesOutput ==
  ASSUME PathInv, FilteredSample
  PROVE  PathInv'
<1>1. /\ heard' = heard + 1 /\ decimated' = decimated + 1
      /\ m_downSampleCount - 1 < 0 /\ m_downSampleCount' = Decimation - 1
      /\ m_lowPassDecimating' = Store(m_lowPassDecimating, heard + 1, LowPassTaps)
      /\ m_matchedFilter' = Store(m_matchedFilter, decimated + 1, MatchedTaps)
      /\ lowPassOut' = Convolve(LowPassValues, m_lowPassDecimating, heard + 1, LowPassTaps)
      /\ matchedOut' = Convolve(MatchedValues, m_matchedFilter, decimated + 1, MatchedTaps)
  BY DEF FilteredSample, RxMixToZero, DownSample, MatchedFilter
<1>2. /\ heard \in Nat /\ decimated \in Nat /\ m_downSampleCount \in 0 .. Decimation - 1
      /\ heard = decimated * Decimation - m_downSampleCount
      /\ Decimation \in Nat \ {0} /\ LowPassTaps \in Nat \ {0} /\ MatchedTaps \in Nat \ {0}
  BY SignalAssumption DEF SignalAssumption, PathInv, PathTyped
<1>3. m_downSampleCount = 0
  BY <1>1, <1>2, SMT
<1>4. heard = decimated * Decimation
  BY <1>2, <1>3, SMT
<1>5. PathTyped'
  <2>1. (decimated + 1) * Decimation = decimated * Decimation + Decimation
    BY <1>2, SMT
  <2>2. heard + 1 = (decimated + 1) * Decimation - (Decimation - 1)
    BY <1>2, <1>4, <2>1, SMT
  <2>3. Decimation - 1 \in 0 .. Decimation - 1 /\ heard + 1 \in Nat /\ decimated + 1 \in Nat
    BY <1>2, SMT
  <2> QED BY <1>1, <2>2, <2>3 DEF PathTyped
<1>6. FiltersInSync'
  BY <1>1, <1>2, StoreInSync DEF FiltersInSync, PathInv
<1>7. LastTaken' = heard + 1
  <2>1. (decimated + 1) - 1 = decimated
    BY <1>2, SMT
  <2> QED BY <1>1, <1>4, <2>1 DEF LastTaken
<1>8. OutputsRight'
  <2> DEFINE low == [k \in Tap(LowPassTaps) |-> LowPassWeight(k)]
             matched == [k \in Tap(MatchedTaps) |-> MatchedWeight(k)]
  <2>1. Products(lowPassOut') = {<<low[k], Latest(k, heard + 1)>> : k \in Tap(LowPassTaps)}
    <3>1. Doubled(LowPassValues, low, LowPassTaps)
      BY LowPassDoubled
    <3>2. InSync(m_lowPassDecimating, heard, LowPassTaps)
      BY DEF PathInv, FiltersInSync
    <3> HIDE DEF low
    <3> QED BY <1>1, <1>2, <3>1, <3>2, ConvolveExact
  <2>2. Products(matchedOut') = {<<matched[k], Latest(k, decimated + 1)>> : k \in Tap(MatchedTaps)}
    <3>1. Doubled(MatchedValues, matched, MatchedTaps)
      BY MatchedDoubled
    <3>2. InSync(m_matchedFilter, decimated, MatchedTaps)
      BY DEF PathInv, FiltersInSync
    <3> HIDE DEF matched
    <3> QED BY <1>1, <1>2, <3>1, <3>2, ConvolveExact
  <2>3. {<<low[k], Latest(k, heard + 1)>> : k \in Tap(LowPassTaps)}
          = {<<LowPassWeight(k), Latest(k, heard + 1)>> : k \in Tap(LowPassTaps)}
    OBVIOUS
  <2>4. {<<matched[k], Latest(k, decimated + 1)>> : k \in Tap(MatchedTaps)}
          = {<<MatchedWeight(k), Latest(k, decimated + 1)>> : k \in Tap(MatchedTaps)}
    OBVIOUS
  <2> HIDE DEF low, matched
  <2> QED BY <1>1, <1>7, <2>1, <2>2, <2>3, <2>4 DEF OutputsRight, Products, LowPassWeight, MatchedWeight, Latest
<1> QED BY <1>5, <1>6, <1>8 DEF PathInv

LEMMA PathSkips ==
  ASSUME PathInv, SkippedSample
  PROVE  PathInv'
<1>1. /\ heard' = heard + 1 /\ decimated' = decimated
      /\ ~(m_downSampleCount - 1 < 0) /\ m_downSampleCount' = m_downSampleCount - 1
      /\ m_lowPassDecimating' = Store(m_lowPassDecimating, heard + 1, LowPassTaps)
      /\ UNCHANGED <<m_matchedFilter, lowPassOut, matchedOut>>
  BY DEF SkippedSample, RxMixToZero, DownSample
<1>2. /\ heard \in Nat /\ decimated \in Nat /\ m_downSampleCount \in 0 .. Decimation - 1
      /\ heard = decimated * Decimation - m_downSampleCount
      /\ Decimation \in Nat \ {0} /\ LowPassTaps \in Nat \ {0}
  BY SignalAssumption DEF SignalAssumption, PathInv, PathTyped
<1>3. PathTyped'
  <2> DEFINE taken == decimated * Decimation
  <2>1. taken \in Int /\ heard = taken - m_downSampleCount
    BY <1>2, SMT
  <2> HIDE DEF taken
  <2>2. heard + 1 = taken - (m_downSampleCount - 1) /\ heard + 1 \in Nat
        /\ m_downSampleCount - 1 \in 0 .. Decimation - 1
    BY <1>1, <1>2, <2>1, SMT
  <2> QED BY <1>1, <1>2, <2>2 DEF PathTyped, taken
<1>4. FiltersInSync'
  BY <1>1, <1>2, StoreInSync DEF FiltersInSync, PathInv
<1>5. OutputsRight'
  BY <1>1 DEF PathInv, OutputsRight, LastTaken, Products
<1> QED BY <1>3, <1>4, <1>5 DEF PathInv

LEMMA PathKept ==
  ASSUME PathInv, [Next]_vars
  PROVE  PathInv'
<1> DEFINE Idle == UNCHANGED <<heard, filterVars>>
<1>1. CASE FilteredSample
  BY <1>1, PathTakesOutput
<1>2. CASE SkippedSample
  BY <1>2, PathSkips
<1>3. CASE Idle
  BY <1>3 DEF filterVars, PathInv, PathTyped, FiltersInSync, OutputsRight, LastTaken, Products
<1>4. CASE GenerateFft
  BY <1>3, <1>4 DEF GenerateFft
<1>5. CASE CollectFftOutput
  BY <1>3, <1>5 DEF CollectFftOutput
<1>6. CASE \E range \in Ranges : CollectFftOutputByRange(range)
  BY <1>3, <1>6 DEF CollectFftOutputByRange
<1>7. CASE ProcessAudio
  BY <1>3, <1>7 DEF ProcessAudio
<1>8. CASE UNCHANGED vars
  BY <1>3, <1>8 DEF vars
<1> QED BY <1>1, <1>2, <1>4, <1>5, <1>6, <1>7, <1>8 DEF Next

LEMMA PathInvSuffices ==
  ASSUME PathInv
  PROVE  ConvolvesLatest
<1>1. /\ heard \in Nat /\ decimated \in Nat /\ m_downSampleCount \in 0 .. Decimation - 1
      /\ heard = decimated * Decimation - m_downSampleCount /\ Decimation \in Nat \ {0}
  BY SignalAssumption DEF SignalAssumption, PathInv, PathTyped
<1>2. LastTaken = decimated * Decimation - Decimation + 1
  BY <1>1, SMT DEF LastTaken
<1>3. heard - LastTaken \in 0 .. Decimation - 1
  <2> DEFINE taken == decimated * Decimation
  <2>1. taken \in Int /\ heard = taken - m_downSampleCount /\ LastTaken = taken - Decimation + 1
    BY <1>1, <1>2, SMT
  <2> HIDE DEF taken
  <2> QED BY <1>1, <2>1, SMT
<1> QED BY <1>3 DEF PathInv, OutputsRight, ConvolvesLatest, LastTaken

(* For every number of taps, even or odd, and every decimation: however    *)
(* often the rings have turned, each output of the decimating and of the   *)
(* matched filter is the convolution of its taps with the latest samples.  *)
THEOREM FiltersConvolve == Spec => []ConvolvesLatest
<1>1. Init => PathInv
  BY PathStarts
<1>2. PathInv /\ [Next]_vars => PathInv'
  BY PathKept
<1>3. PathInv => ConvolvesLatest
  BY PathInvSuffices
<1> QED BY <1>1, <1>2, <1>3, PTL DEF Spec

(***************************************************************************)
(* The spectrum: each of the two arrays holds the latest samples, one half *)
(* an array further than the other, and their results are of the latest    *)
(* two times an array was full.                                            *)
(***************************************************************************)
SampleAt(n) == IF n >= 1 THEN n ELSE Zero

FftType ==
  [m_writeIdx : Bin, m_fftIn : [0 .. NumBins -> Int], m_fftOut : [Bin -> Int],
   m_outputValid : BOOLEAN]

WrittenType ==
  [m_writeIdx : 0 .. NumBins, m_fftIn : [0 .. NumBins -> Int], m_fftOut : [Bin -> Int],
   m_outputValid : BOOLEAN]

(* What was written so far are the samples that end here.                  *)
Holding(fft, end) ==
  \A bin \in 0 .. fft.m_writeIdx - 1 : fft.m_fftIn[bin] = SampleAt(end - fft.m_writeIdx + bin + 1)

(* What an array is after the next buffer.                                 *)
Follows(after, fft, end) ==
  /\ after \in FftType /\ Holding(after, end)
  /\ IF fft.m_writeIdx + SamplesPerBuffer = NumBins
     THEN after.m_writeIdx = 0 /\ after.m_outputValid = TRUE /\ after.m_fftOut = Window(end)
     ELSE /\ after.m_writeIdx = fft.m_writeIdx + SamplesPerBuffer
          /\ after.m_outputValid = fft.m_outputValid /\ after.m_fftOut = fft.m_fftOut

Buffer(end) == [n \in 1 .. SamplesPerBuffer |-> end + n]

LEMMA Halved ==
  /\ NumBins \in Nat \ {0} /\ SamplesPerBuffer \in Nat \ {0} /\ Half \in Nat \ {0}
  /\ NumBins = 2 * Half /\ Half \div SamplesPerBuffer \in Nat \ {0}
  /\ Half = SamplesPerBuffer * (Half \div SamplesPerBuffer)
<1>1. /\ NumBins \in Nat \ {0} /\ NumBins % 2 = 0
      /\ SamplesPerBuffer \in Nat \ {0} /\ (NumBins \div 2) % SamplesPerBuffer = 0
  BY FftAssumption DEF Accepted
<1>2. Half \in Nat \ {0} /\ NumBins = 2 * Half
  BY <1>1, SMT DEF Half
<1>3. /\ Half \div SamplesPerBuffer \in Nat /\ Half % SamplesPerBuffer = 0
      /\ Half = SamplesPerBuffer * (Half \div SamplesPerBuffer) + (Half % SamplesPerBuffer)
  <2>1. Half % SamplesPerBuffer = 0
    BY <1>1 DEF Half
  <2>2. /\ Half \div SamplesPerBuffer \in Nat
        /\ Half = SamplesPerBuffer * (Half \div SamplesPerBuffer) + (Half % SamplesPerBuffer)
    BY ONLY <1>1, <1>2, Division
  <2> QED BY <2>1, <2>2
<1> DEFINE m == Half \div SamplesPerBuffer
<1> HIDE DEF m
<1>4. m \in Nat /\ Half = SamplesPerBuffer * m
  BY <1>1, <1>2, <1>3, SMT DEF m
<1>5. m # 0
  <2>1. SamplesPerBuffer * 0 = 0
    BY <1>1, SMT
  <2> QED BY <1>2, <1>4, <2>1
<1> QED BY <1>1, <1>2, <1>4, <1>5 DEF m

LEMMA SamplesWritten ==
  ASSUME NEW fft \in FftType, NEW end \in Int, NEW count \in Nat, Holding(fft, end),
         fft.m_writeIdx + count <= NumBins,
         NEW samples, Len(samples) = count,
         \A n \in 1 .. count : samples[n] = SampleAt(end + n),
         NEW written, written = Written(fft, samples)
  PROVE  /\ Room(fft, samples) = count
         /\ written \in WrittenType /\ Holding(written, end + count)
         /\ written.m_writeIdx = fft.m_writeIdx + count
         /\ written.m_fftOut = fft.m_fftOut /\ written.m_outputValid = fft.m_outputValid
<1> DEFINE first == fft.m_writeIdx
           next == first + count
           in == [bin \in 0 .. NumBins |->
                    IF bin \in first .. next - 1 THEN samples[bin - first + 1]
                    ELSE fft.m_fftIn[bin]]
<1>1. NumBins \in Nat \ {0} /\ count \in Nat
  BY Halved
<1>2. /\ first \in 0 .. NumBins - 1 /\ next \in 0 .. NumBins
      /\ fft.m_fftIn \in [0 .. NumBins -> Int] /\ fft.m_fftOut \in [Bin -> Int]
      /\ fft.m_outputValid \in BOOLEAN /\ next = first + count
  BY <1>1 DEF FftType, Bin
<1>3. Room(fft, samples) = count
  BY <1>1, <1>2 DEF Room, Smaller
<1>4. written = [fft EXCEPT !.m_writeIdx = next, !.m_fftIn = in]
  BY <1>3, Zenon DEF Written
<1>5. in \in [0 .. NumBins -> Int]
  <2> HIDE DEF first, next
  <2>1. ASSUME NEW bin \in first .. next - 1 PROVE samples[bin - first + 1] \in Int
    <3>1. bin - first + 1 \in 1 .. count
      BY ONLY <1>1, <1>2, <2>1
    <3> QED BY <1>1, <3>1 DEF SampleAt, Zero
  <2> QED BY <1>2, <2>1
<1>6. \A bin \in 0 .. NumBins :
        in[bin] = IF bin \in first .. next - 1 THEN samples[bin - first + 1] ELSE fft.m_fftIn[bin]
  OBVIOUS
<1> HIDE DEF in
<1>7. written = [m_writeIdx |-> next, m_fftIn |-> in, m_fftOut |-> fft.m_fftOut,
                 m_outputValid |-> fft.m_outputValid]
  <2> HIDE DEF next
  <2> QED BY <1>4, Zenon DEF FftType
<1>8. written \in WrittenType
  BY <1>2, <1>5, <1>7 DEF WrittenType
<1>9. Holding(written, end + count)
  <2> HIDE DEF first, next
  <2>1. ASSUME NEW bin \in 0 .. next - 1
        PROVE  in[bin] = SampleAt((end + count) - next + bin + 1)
    <3>1. bin \in 0 .. NumBins /\ (end + count) - next + bin + 1 = end - first + bin + 1
      BY <1>1, <1>2
    <3>2. CASE bin \in first .. next - 1
      <4>1. bin - first + 1 \in 1 .. count
        BY ONLY <1>1, <1>2, <3>2
      <4>2. in[bin] = SampleAt(end + (bin - first + 1))
        BY <1>6, <3>1, <3>2, <4>1
      <4>3. end + (bin - first + 1) = end - first + bin + 1
        BY ONLY <1>1, <1>2, <4>1, end \in Int, bin \in 0 .. next - 1
      <4> QED BY <3>1, <4>2, <4>3
    <3>3. CASE bin \notin first .. next - 1
      <4>1. bin \in 0 .. first - 1
        BY ONLY <1>1, <1>2, <3>3, bin \in 0 .. next - 1
      <4>2. in[bin] = fft.m_fftIn[bin]
        BY <1>6, <3>1, <3>3
      <4> QED BY <3>1, <4>1, <4>2 DEF Holding, first
    <3> QED BY <3>2, <3>3
  <2>2. written.m_writeIdx = next /\ written.m_fftIn = in
    BY <1>7
  <2> QED BY <2>1, <2>2 DEF Holding
<1> QED BY <1>3, <1>7, <1>8, <1>9

LEMMA TransformRun ==
  ASSUME NEW written \in WrittenType, NEW end \in Int, Holding(written, end),
         NEW after, after = CheckAndExecute(written)
  PROVE  /\ after \in FftType /\ Holding(after, end)
         /\ IF written.m_writeIdx = NumBins
            THEN after.m_writeIdx = 0 /\ after.m_outputValid = TRUE /\ after.m_fftOut = Window(end)
            ELSE after = written
<1>1. NumBins \in Nat \ {0}
  BY Halved
<1>2. CASE written.m_writeIdx = NumBins
  <2> DEFINE out == [bin \in Bin |-> written.m_fftIn[bin]]
  <2>1. after = [written EXCEPT !.m_fftOut = out, !.m_outputValid = TRUE, !.m_writeIdx = 0]
    BY <1>2, Zenon DEF CheckAndExecute, Full
  <2>2. out \in [Bin -> Int]
    BY <1>1 DEF Bin, WrittenType
  <2>3. out = Window(end)
    <3>1. \A bin \in Bin : written.m_fftIn[bin] = SampleAt(end - NumBins + bin + 1)
      BY <1>1, <1>2 DEF Holding, Bin
    <3>2. \A bin \in Bin : end - NumBins + bin + 1 = end - NumBins + 1 + bin
      BY <1>1 DEF Bin
    <3> QED BY <3>1, <3>2 DEF Window, SampleAt
  <2> HIDE DEF out
  <2>4. after = [m_writeIdx |-> 0, m_fftIn |-> written.m_fftIn, m_fftOut |-> out,
                 m_outputValid |-> TRUE]
    BY <2>1, Zenon DEF WrittenType
  <2>5. after \in FftType
    BY <1>1, <2>2, <2>4 DEF FftType, Bin, WrittenType
  <2>6. Holding(after, end)
    BY <2>4 DEF Holding
  <2> QED BY <1>2, <2>3, <2>4, <2>5, <2>6
<1>3. CASE written.m_writeIdx # NumBins
  <2>1. after = written
    BY <1>3 DEF CheckAndExecute, Full
  <2>2. written.m_writeIdx \in Bin
    BY <1>1, <1>3 DEF WrittenType, Bin
  <2> QED BY <1>3, <2>1, <2>2 DEF WrittenType, FftType
<1> QED BY <1>2, <1>3

LEMMA BufferTaken ==
  ASSUME NEW fft \in FftType, NEW end \in Nat, Holding(fft, end),
         fft.m_writeIdx + SamplesPerBuffer <= NumBins
  PROVE  /\ Room(fft, Buffer(end)) = Len(Buffer(end))
         /\ Full(Written(fft, Buffer(end))) <=> fft.m_writeIdx + SamplesPerBuffer = NumBins
         /\ Follows(AddToFft(fft, Buffer(end)), fft, end + SamplesPerBuffer)
<1>1. SamplesPerBuffer \in Nat \ {0}
  BY Halved
<1>2. /\ Len(Buffer(end)) = SamplesPerBuffer
      /\ \A n \in 1 .. SamplesPerBuffer : Buffer(end)[n] = SampleAt(end + n)
  <2>1. /\ Len(Buffer(end)) = SamplesPerBuffer
        /\ \A n \in 1 .. SamplesPerBuffer : Buffer(end)[n] = end + n
    BY <1>1 DEF Buffer
  <2>2. \A n \in 1 .. SamplesPerBuffer : SampleAt(end + n) = end + n
    <3> TAKE n \in 1 .. SamplesPerBuffer
    <3>1. end + n >= 1
      BY ONLY <1>1, end \in Nat, n \in 1 .. SamplesPerBuffer
    <3> QED BY <3>1 DEF SampleAt
  <2> QED BY <2>1, <2>2
<1> DEFINE samples == Buffer(end)
           written == Written(fft, samples)
           after == CheckAndExecute(written)
<1> HIDE DEF samples, written, after
<1>3. /\ Room(fft, samples) = SamplesPerBuffer
      /\ written \in WrittenType /\ Holding(written, end + SamplesPerBuffer)
      /\ written.m_writeIdx = fft.m_writeIdx + SamplesPerBuffer
      /\ written.m_fftOut = fft.m_fftOut /\ written.m_outputValid = fft.m_outputValid
  BY <1>1, <1>2, SamplesWritten DEF samples, written
<1>4. end \in Int /\ end + SamplesPerBuffer \in Int
  BY <1>1
<1>5. /\ after \in FftType /\ Holding(after, end + SamplesPerBuffer)
      /\ IF written.m_writeIdx = NumBins
         THEN /\ after.m_writeIdx = 0 /\ after.m_outputValid = TRUE
              /\ after.m_fftOut = Window(end + SamplesPerBuffer)
         ELSE after = written
  BY ZenonT(30), <1>3, <1>4, TransformRun DEF after
<1>6. Follows(after, fft, end + SamplesPerBuffer)
  BY <1>3, <1>5 DEF Follows
<1>7. Full(written) <=> fft.m_writeIdx + SamplesPerBuffer = NumBins
  BY <1>3 DEF Full
<1> QED BY <1>2, <1>3, <1>6, <1>7 DEF AddToFft, samples, written, after

(***************************************************************************)
(* How much of the next half has come, and what both arrays are then.      *)
(***************************************************************************)
SinceResult == received - Half * Results

BothTyped == m_fft.current \in FftType /\ m_fft.previous \in FftType

WholeBuffers == \E k \in 0 .. Half \div SamplesPerBuffer - 1 : SinceResult = SamplesPerBuffer * k

HalfApart ==
  /\ m_fft.previous.m_writeIdx = SinceResult
  /\ m_fft.current.m_writeIdx = SinceResult + Half
  /\ Holding(m_fft.previous, received) /\ Holding(m_fft.current, received)

LatestResults ==
  /\ m_fft.previous.m_outputValid <=> Results >= 1
  /\ m_fft.current.m_outputValid <=> Results >= 2
  /\ Results >= 1 => m_fft.previous.m_fftOut = Window(Half * Results)
  /\ Results >= 2 => m_fft.current.m_fftOut = Window(Half * Results - Half)

SpectrumInv ==
  /\ received \in Nat /\ BothTyped /\ WholeBuffers /\ HalfApart /\ LatestResults
  /\ SpectrumOfLatest

LEMMA SpectrumStarts ==
  ASSUME Init
  PROVE  SpectrumInv
<1>1. /\ NumBins \in Nat \ {0} /\ SamplesPerBuffer \in Nat \ {0} /\ Half \in Nat \ {0}
      /\ NumBins = 2 * Half /\ Half \div SamplesPerBuffer \in Nat \ {0}
  BY Halved
<1>2. /\ NewFft \in FftType /\ NewFft.m_writeIdx = 0 /\ NewFft.m_outputValid = FALSE
      /\ \A end \in Int : Holding(NewFft, end)
  BY <1>1 DEF NewFft, FftType, Bin, Garbage, Holding
<1> DEFINE silence == [n \in 1 .. NumBins \div 2 |-> Zero]
           written == Written(NewFft, silence)
           first == CheckAndExecute(written)
           start == -Half
<1>3. /\ Len(silence) = Half
      /\ \A n \in 1 .. Half : silence[n] = SampleAt(start + n)
  BY <1>1 DEF Half, SampleAt, Zero
<1>0. start \in Int /\ start + Half = 0
  BY <1>1
<1> HIDE DEF silence, written, first, start
<1>4. /\ written \in WrittenType /\ Holding(written, 0)
      /\ written.m_writeIdx = 0 + Half /\ written.m_outputValid = FALSE
  <2>1. Half \in Nat /\ NewFft.m_writeIdx + Half <= NumBins
    BY <1>1, <1>2
  <2>2. Holding(NewFft, start)
    BY <1>0, <1>2
  <2>3. /\ written \in WrittenType /\ Holding(written, start + Half)
        /\ written.m_writeIdx = NewFft.m_writeIdx + Half
        /\ written.m_outputValid = NewFft.m_outputValid
    <3>1. written = Written(NewFft, silence) /\ NewFft \in FftType /\ start \in Int
      BY <1>0, <1>2 DEF written
    <3> QED BY ONLY <1>3, <2>1, <2>2, <3>1, SamplesWritten
  <2> QED BY <1>0, <1>2, <2>3
<1>5. 0 \in Int /\ 0 + Half = Half /\ Half # NumBins /\ Half \in Bin
  BY <1>1 DEF Bin
<1>6. first \in FftType /\ Holding(first, 0) /\ first.m_writeIdx = Half /\ first.m_outputValid = FALSE
  BY ZenonT(30), <1>4, <1>5, TransformRun DEF first
<1>7. received = 0 /\ m_fft.current = first /\ m_fft.previous = NewFft
  BY DEF Init, Initialised, ZeroFill, first, written, silence
<1>8. Results = 0 /\ SinceResult = 0
  BY <1>1, <1>7 DEF Results, SinceResult
<1>9. WholeBuffers
  <2>1. 0 \in 0 .. Half \div SamplesPerBuffer - 1 /\ SamplesPerBuffer * 0 = 0
    BY <1>1
  <2> QED BY <1>8, <2>1 DEF WholeBuffers
<1>10. HalfApart
  BY <1>1, <1>2, <1>6, <1>7, <1>8 DEF HalfApart
<1>11. LatestResults /\ SpectrumOfLatest
  BY <1>2, <1>6, <1>7, <1>8 DEF LatestResults, SpectrumOfLatest
<1> QED BY <1>2, <1>6, <1>7, <1>9, <1>10, <1>11 DEF SpectrumInv, BothTyped

(* A result more when the half is full, none before.                       *)
LEMMA NextResult ==
  ASSUME NEW k \in 0 .. Half \div SamplesPerBuffer - 1, NEW q \in Nat,
         received = Half * q + SamplesPerBuffer * k
  PROVE  IF SamplesPerBuffer * k + SamplesPerBuffer = Half
         THEN (received + SamplesPerBuffer) \div Half = q + 1
         ELSE /\ (received + SamplesPerBuffer) \div Half = q
              /\ k + 1 \in 0 .. Half \div SamplesPerBuffer - 1
              /\ SamplesPerBuffer * (k + 1) = SamplesPerBuffer * k + SamplesPerBuffer
              /\ SamplesPerBuffer * k + SamplesPerBuffer < Half
<1> DEFINE m == Half \div SamplesPerBuffer
           part == SamplesPerBuffer * k
           sum == received + SamplesPerBuffer
<1>1. /\ SamplesPerBuffer \in Nat \ {0} /\ Half \in Nat \ {0} /\ m \in Nat \ {0}
      /\ Half = SamplesPerBuffer * m
  BY Halved
<1> HIDE DEF m
<1>2. k \in 0 .. m - 1
  BY DEF m
<1>3. part \in Nat /\ SamplesPerBuffer * (k + 1) = part + SamplesPerBuffer
  BY <1>1, <1>2, SMT
<1>4. k + 1 < m => SamplesPerBuffer * (k + 1) < SamplesPerBuffer * m
  BY <1>1, <1>2, SMT
<1>5. k + 1 = m => part + SamplesPerBuffer = Half
  BY <1>1, <1>3
<1>6. sum = Half * q + part + SamplesPerBuffer /\ Half * q \in Nat /\ Half * (q + 1) = Half * q + Half
  BY <1>1, SMT DEF part
<1> HIDE DEF part
<1>7. sum \in Nat
  BY <1>1, <1>3, <1>6
<1> HIDE DEF sum
<1>8. /\ sum \div Half \in Nat /\ sum % Half \in 0 .. Half - 1
      /\ sum = Half * (sum \div Half) + (sum % Half)
  BY <1>1, <1>7, Division
<1>9. CASE k + 1 = m
  <2>1. sum = Half * (q + 1) + 0 /\ 0 \in 0 .. Half - 1 /\ q + 1 \in Nat
    BY <1>1, <1>3, <1>5, <1>6, <1>9
  <2>2. sum \div Half = q + 1
    BY ONLY <1>1, <1>8, <2>1, Quotients
  <2> QED BY <1>5, <1>9, <2>2 DEF part, sum
<1>10. CASE k + 1 < m
  <2>1. part + SamplesPerBuffer < Half
    BY <1>1, <1>3, <1>4, <1>10
  <2>2. sum = Half * q + (part + SamplesPerBuffer) /\ part + SamplesPerBuffer \in 0 .. Half - 1
    BY <1>1, <1>3, <1>6, <2>1
  <2>3. sum \div Half = q
    <3> DEFINE r == part + SamplesPerBuffer  p == sum \div Half  rest == sum % Half
    <3>1. /\ Half * q + r = Half * p + rest
          /\ p \in Nat /\ r \in 0 .. Half - 1 /\ rest \in 0 .. Half - 1
      BY <1>8, <2>2
    <3> HIDE DEF r, p, rest
    <3>2. p = q
      BY ONLY <1>1, <3>1, q \in Nat, Quotients
    <3> QED BY <3>2 DEF p
  <2>4. k + 1 \in 0 .. m - 1
    BY <1>1, <1>2, <1>10
  <2>5. part + SamplesPerBuffer # Half
    BY <1>1, <1>3, <2>1
  <2> QED BY <1>3, <2>1, <2>3, <2>4, <2>5 DEF part, sum, m
<1> QED BY <1>1, <1>2, <1>9, <1>10

LEMMA SpectrumGrows ==
  ASSUME SpectrumInv, GenerateFft
  PROVE  SpectrumInv'
<1> DEFINE cur == m_fft.current  prev == m_fft.previous
           grownCur == AddToFft(cur, Buffer(received))
           grownPrev == AddToFft(prev, Buffer(received))
<1>1. /\ SamplesPerBuffer \in Nat \ {0} /\ Half \in Nat \ {0} /\ NumBins = 2 * Half
  BY Halved
<1>2. received \in Nat /\ received' = received + SamplesPerBuffer /\ received' \in Nat
  BY <1>1 DEF SpectrumInv, GenerateFft
<1>3. Results \in Nat
  BY <1>1, <1>2, Division DEF Results
<1>4. PICK k \in 0 .. Half \div SamplesPerBuffer - 1 : SinceResult = SamplesPerBuffer * k
  BY DEF SpectrumInv, WholeBuffers
<1> DEFINE part == SamplesPerBuffer * k
           due == part + SamplesPerBuffer = Half
           taken == Half * Results
<1>5. taken \in Nat /\ part \in Nat
  BY <1>1, <1>3, Halved
<1>6. received = taken + part
  BY <1>2, <1>4, <1>5 DEF SinceResult
<1>7. IF due THEN Results' = Results + 1
      ELSE /\ Results' = Results /\ k + 1 \in 0 .. Half \div SamplesPerBuffer - 1
           /\ SamplesPerBuffer * (k + 1) = part + SamplesPerBuffer
           /\ part + SamplesPerBuffer < Half
  BY <1>2, <1>3, <1>6, NextResult DEF Results
<1>8. Half * (Results + 1) = taken + Half
  BY <1>1, <1>3, SMT
<1> HIDE DEF taken, part
<1>9. /\ cur \in FftType /\ prev \in FftType
      /\ prev.m_writeIdx = part /\ cur.m_writeIdx = part + Half
      /\ Holding(cur, received) /\ Holding(prev, received)
  BY <1>4 DEF SpectrumInv, BothTyped, HalfApart, part
<1>10. part + SamplesPerBuffer <= Half
  BY <1>1, <1>5, <1>7
<1> HIDE DEF cur, prev
<1>11. /\ Room(cur, Buffer(received)) = Len(Buffer(received))
       /\ Full(Written(cur, Buffer(received))) <=> due
       /\ Follows(grownCur, cur, received')
  <2>1. /\ cur.m_writeIdx + SamplesPerBuffer <= NumBins
        /\ due <=> cur.m_writeIdx + SamplesPerBuffer = NumBins
    BY <1>1, <1>5, <1>9, <1>10
  <2> HIDE DEF due
  <2> QED BY <1>2, <1>9, <2>1, BufferTaken
<1>12. /\ Room(prev, Buffer(received)) = Len(Buffer(received))
       /\ ~Full(Written(prev, Buffer(received)))
       /\ Follows(grownPrev, prev, received')
       /\ prev.m_writeIdx + SamplesPerBuffer # NumBins
  <2>1. prev.m_writeIdx + SamplesPerBuffer <= NumBins /\ prev.m_writeIdx + SamplesPerBuffer # NumBins
    BY <1>1, <1>5, <1>9, <1>10
  <2> QED BY <1>2, <1>9, <2>1, BufferTaken
<1>13. AddSucceeds(m_fft, Buffer(received)) /\ (Updated(m_fft, Buffer(received)) <=> due)
  BY <1>11, <1>12 DEF AddSucceeds, Updated, OutOfSync, cur, prev
<1>14. m_fft' = Add(m_fft, Buffer(received))
  BY DEF GenerateFft, Buffer
<1>15. spectrum' = IF due THEN CopyResult(m_fft', NumBins, [older |-> Silent, newer |-> Silent])
                   ELSE spectrum
  BY <1>13 DEF GenerateFft, Buffer
<1>16. m_fft' = IF due THEN [current |-> grownPrev, previous |-> grownCur]
                ELSE [current |-> grownCur, previous |-> grownPrev]
  BY <1>13, <1>14 DEF Add, Swap, cur, prev
<1> HIDE DEF grownCur, grownPrev
<1>17. /\ grownCur \in FftType /\ Holding(grownCur, received')
       /\ IF due THEN /\ grownCur.m_writeIdx = 0 /\ grownCur.m_outputValid = TRUE
                      /\ grownCur.m_fftOut = Window(received')
          ELSE /\ grownCur.m_writeIdx = part + Half + SamplesPerBuffer
               /\ grownCur.m_outputValid = cur.m_outputValid /\ grownCur.m_fftOut = cur.m_fftOut
  BY <1>1, <1>5, <1>9, <1>11 DEF Follows
<1>18. /\ grownPrev \in FftType /\ Holding(grownPrev, received')
       /\ grownPrev.m_writeIdx = part + SamplesPerBuffer
       /\ grownPrev.m_outputValid = prev.m_outputValid /\ grownPrev.m_fftOut = prev.m_fftOut
  BY <1>9, <1>12 DEF Follows
<1>19. /\ prev.m_outputValid <=> Results >= 1
       /\ cur.m_outputValid <=> Results >= 2
       /\ Results >= 1 => prev.m_fftOut = Window(taken)
       /\ Results >= 2 => cur.m_fftOut = Window(taken - Half)
  BY DEF SpectrumInv, LatestResults, cur, prev, taken
<1>20. BothTyped'
  BY <1>16, <1>17, <1>18 DEF BothTyped
<1>21. CASE due
  <2>1. Results' = Results + 1 /\ received' = taken + Half /\ Half * Results' = received'
    <3>1. Results' = Results + 1
      BY <1>7, <1>21
    <3>2. received' = taken + Half
      BY ONLY <1>1, <1>2, <1>5, <1>6, <1>21
    <3> QED BY <1>8, <3>1, <3>2
  <2>2. SinceResult' = 0
    BY <1>2, <2>1 DEF SinceResult, Half
  <2>3. WholeBuffers'
    <3>1. 0 \in 0 .. Half \div SamplesPerBuffer - 1 /\ SamplesPerBuffer * 0 = 0
      BY Halved
    <3> QED BY <2>2, <3>1 DEF WholeBuffers, Half
  <2>4. HalfApart'
    <3>1. m_fft'.previous.m_writeIdx = 0 /\ m_fft'.current.m_writeIdx = 0 + Half
      BY <1>1, <1>16, <1>17, <1>18, <1>21
    <3>2. Holding(m_fft'.previous, received') /\ Holding(m_fft'.current, received')
      BY <1>16, <1>17, <1>18, <1>21
    <3> QED BY <2>2, <3>1, <3>2 DEF HalfApart, Half, Holding
  <2>5. /\ m_fft'.previous.m_outputValid = TRUE /\ m_fft'.previous.m_fftOut = Window(received')
        /\ m_fft'.current.m_outputValid <=> Results >= 1
        /\ Results >= 1 => m_fft'.current.m_fftOut = Window(received' - Half)
    <3>1. received' - Half = taken
      BY <1>1, <1>5, <2>1
    <3> QED BY <1>16, <1>17, <1>18, <1>19, <1>21, <3>1
  <2>6. LatestResults'
    <3>1. /\ Results' >= 1 /\ (Results' >= 2 <=> Results >= 1)
      BY <1>3, <2>1
    <3> DEFINE newer == m_fft'.previous  older == m_fft'.current
    <3>2. /\ newer.m_outputValid <=> Results' >= 1
          /\ older.m_outputValid <=> Results' >= 2
      BY <2>5, <3>1
    <3>3. /\ newer.m_fftOut = Window(Half * Results')
          /\ Results' >= 2 => older.m_fftOut = Window(Half * Results' - Half)
      BY <2>1, <2>5, <3>1
    <3> QED BY <3>2, <3>3 DEF LatestResults, Half, Window
  <2>7. SpectrumOfLatest'
    <3>1. CASE Results = 0
      <4>1. spectrum' = [older |-> Silent, newer |-> Silent]
        BY <1>15, <1>21, <2>5, <3>1 DEF CopyResult, IsOutputValid
      <4> QED BY <2>1, <3>1, <4>1 DEF SpectrumOfLatest, Silent
    <3>2. CASE Results >= 1
      <4>1. spectrum' = [older |-> Window(received' - Half), newer |-> Window(received')]
        BY <1>15, <1>21, <2>5, <3>2 DEF CopyResult, IsOutputValid
      <4>2. Results' * Half = received' /\ Results' > 1
        BY <1>1, <1>3, <2>1, <3>2, SMT
      <4> QED BY <4>1, <4>2 DEF SpectrumOfLatest, SpectrumAt, Window, Half
    <3> QED BY <1>3, <3>1, <3>2
  <2> QED BY <1>2, <1>20, <2>3, <2>4, <2>6, <2>7 DEF SpectrumInv
<1>22. CASE ~due
  <2>1. Results' = Results /\ Half * Results' = taken
    BY <1>7, <1>22 DEF taken
  <2>2. SinceResult' = part + SamplesPerBuffer
    <3>1. SinceResult' = received' - taken
      BY <2>1 DEF SinceResult, Half
    <3> QED BY <1>1, <1>2, <1>5, <1>6, <3>1
  <2>3. WholeBuffers'
    BY <1>7, <1>22, <2>2 DEF WholeBuffers, Half
  <2>4. HalfApart'
    <3>1. /\ m_fft'.previous.m_writeIdx = part + SamplesPerBuffer
          /\ m_fft'.current.m_writeIdx = part + SamplesPerBuffer + Half
      BY <1>1, <1>5, <1>16, <1>17, <1>18, <1>22
    <3>2. Holding(m_fft'.previous, received') /\ Holding(m_fft'.current, received')
      BY <1>16, <1>17, <1>18, <1>22
    <3> QED BY <2>2, <3>1, <3>2 DEF HalfApart, Half, Holding
  <2>5. LatestResults'
    <3>1. /\ m_fft'.previous.m_outputValid <=> Results >= 1
          /\ m_fft'.current.m_outputValid <=> Results >= 2
          /\ Results >= 1 => m_fft'.previous.m_fftOut = Window(taken)
          /\ Results >= 2 => m_fft'.current.m_fftOut = Window(taken - Half)
      BY <1>16, <1>17, <1>18, <1>19, <1>22
    <3> QED BY <2>1, <3>1 DEF LatestResults, Half, Window
  <2>6. SpectrumOfLatest'
    <3>1. spectrum' = spectrum /\ SpectrumOfLatest
      BY <1>15, <1>22 DEF SpectrumInv
    <3> QED BY <2>1, <3>1 DEF SpectrumOfLatest, SpectrumAt, Window, Silent, Half
  <2> QED BY <1>2, <1>20, <2>3, <2>4, <2>5, <2>6 DEF SpectrumInv
<1> QED BY <1>21, <1>22

LEMMA SpectrumNext ==
  ASSUME SpectrumInv, [Next]_vars
  PROVE  SpectrumInv'
<1>1. CASE UNCHANGED managerVars
  BY <1>1 DEF managerVars, SpectrumInv, BothTyped, WholeBuffers, HalfApart, LatestResults,
     SpectrumOfLatest, SinceResult, Results, Half, Holding, Window, SpectrumAt, Silent
<1>2. CASE GenerateFft
  BY <1>2, SpectrumGrows
<1>3. [Next]_vars => GenerateFft \/ UNCHANGED managerVars
  BY DEF Next, vars, CollectFftOutput, CollectFftOutputByRange, ProcessAudio, FilteredSample,
     SkippedSample, RxMixToZero
<1> QED BY <1>1, <1>2, <1>3

(* For every size of the transform and of the buffers that Initialise      *)
(* accepts, however the swaps fall: what the peak detector is given is the *)
(* spectrum of the latest samples.                                         *)
THEOREM SpectrumLatest == Spec => []SpectrumOfLatest
<1>1. Init => SpectrumInv
  BY SpectrumStarts
<1>2. SpectrumInv /\ [Next]_vars => SpectrumInv'
  BY SpectrumNext
<1>3. SpectrumInv => SpectrumOfLatest
  BY DEF SpectrumInv
<1> QED BY <1>1, <1>2, <1>3, PTL DEF Spec

(***************************************************************************)
(* The lines the application is shown.                                     *)
(***************************************************************************)
LEMMA DivisionOrdered ==
  ASSUME NEW a \in Nat, NEW b \in Nat, NEW m \in Nat \ {0}, a \div m < b \div m
  PROVE  a < b
<1> DEFINE q == a \div m  p == b \div m  r == a % m  s == b % m
<1>1. /\ q \in Nat /\ r \in 0 .. m - 1 /\ a = m * q + r
      /\ p \in Nat /\ s \in 0 .. m - 1 /\ b = m * p + s
  BY Division
<1>2. q + 1 <= p
  BY <1>1
<1> HIDE DEF q, p, r, s
<1>3. m * (q + 1) <= m * p /\ m * (q + 1) = m * q + m
  BY <1>1, <1>2, SMT
<1>4. m * q \in Nat /\ m * p \in Nat
  BY <1>1, SMT
<1> QED BY <1>1, <1>3, <1>4

(* A line has at least one bin, whatever was asked for.                    *)
LEMMA LineHasBins ==
  ASSUME NEW bins \in Int, NEW bufferLength \in Nat \ {0}
  PROVE  /\ SamplesPerLine(bins, bufferLength) \in Nat \ {0}
         /\ \/ SamplesPerLine(bins, bufferLength) = bins \div bufferLength
            \/ SamplesPerLine(bins, bufferLength) = 1 /\ bins \div bufferLength < 1
<1> DEFINE q == bins \div bufferLength
<1>1. q \in Int
  BY SMT
<1>2. SamplesPerLine(bins, bufferLength) = IF q < 1 THEN 1 ELSE q
  BY DEF SamplesPerLine
<1> HIDE DEF q
<1>3. /\ SamplesPerLine(bins, bufferLength) \in Nat \ {0}
      /\ \/ SamplesPerLine(bins, bufferLength) = q
         \/ SamplesPerLine(bins, bufferLength) = 1 /\ q < 1
  BY <1>1, <1>2
<1> QED BY <1>3 DEF q

(* The lines end where the buffer does or behind the last bin.             *)
LEMMA LinesCounted ==
  ASSUME NEW perLine \in Nat \ {0}, NEW lastBin \in Nat, NEW bufferLength \in Nat \ {0}
  PROVE  LET count == LineCount(perLine, lastBin, bufferLength) IN
         /\ count \in 0 .. bufferLength
         /\ count # bufferLength => perLine * count >= lastBin
         /\ Len(Lines(perLine, lastBin, bufferLength)) = count
         /\ \A line \in 1 .. count :
              Lines(perLine, lastBin, bufferLength)[line] = Line(perLine, lastBin, line)
<1> DEFINE all == lastBin + perLine - 1
           q == all \div perLine
           r == all % perLine
           count == LineCount(perLine, lastBin, bufferLength)
<1>1. all \in Nat
  OBVIOUS
<1> HIDE DEF all
<1>2. q \in Nat /\ r \in 0 .. perLine - 1 /\ all = perLine * q + r
  BY <1>1, Division
<1>3. count = IF bufferLength < q THEN bufferLength ELSE q
  BY DEF LineCount, Smaller, all
<1> HIDE DEF q, r
<1>4. count \in 0 .. bufferLength
  BY <1>2, <1>3
<1>5. count # bufferLength => perLine * count >= lastBin
  <2>1. all = lastBin + (perLine - 1)
    BY DEF all
  <2>2. count # bufferLength => count = q
    BY <1>3
  <2>3. perLine * q \in Nat /\ perLine * q >= lastBin
    BY <1>2, <2>1, SMT
  <2> QED BY <2>2, <2>3
<1> HIDE DEF count
<1>6. /\ Len(Lines(perLine, lastBin, bufferLength)) = count
      /\ \A line \in 1 .. count :
           Lines(perLine, lastBin, bufferLength)[line] = Line(perLine, lastBin, line)
  BY <1>4 DEF Lines, count
<1> QED BY <1>4, <1>5, <1>6 DEF count

LEMMA LinesConsecutive ==
  ASSUME NEW perLine \in Nat \ {0}, NEW lastBin \in Nat, NEW bufferLength \in Nat \ {0}
  PROVE  Consecutive(Lines(perLine, lastBin, bufferLength))
<1> DEFINE lines == Lines(perLine, lastBin, bufferLength)
           count == LineCount(perLine, lastBin, bufferLength)
<1>1. count \in Nat /\ Len(lines) = count /\ \A line \in 1 .. count : lines[line] = Line(perLine, lastBin, line)
  BY LinesCounted
<1> HIDE DEF lines, count
<1>2. ASSUME NEW line \in 2 .. count, NEW low \in lines[line - 1], NEW high \in lines[line]
      PROVE  low < high
  <2>1. line - 1 \in 1 .. count /\ line \in 1 .. count
    BY <1>1
  <2>2. /\ low \in 0 .. lastBin - 1 /\ low \div perLine = (line - 1) - 1
        /\ high \in 0 .. lastBin - 1 /\ high \div perLine = line - 1
    BY <1>1, <1>2, <2>1 DEF Line
  <2>3. low \div perLine < high \div perLine
    BY <1>1, <2>2
  <2> QED BY <2>2, <2>3, DivisionOrdered
<1> QED BY <1>1, <1>2 DEF Consecutive, lines

LEMMA SpectrumShown ==
  ASSUME NEW bufferLength \in Nat \ {0}
  PROVE  WholeSpectrumShown(bufferLength)
<1> DEFINE perLine == SamplesPerLine(FftResultSize, bufferLength)
           count == LineCount(perLine, FftResultSize, bufferLength)
           lines == WholeLines(bufferLength)
           shown == UNION {lines[line] : line \in 1 .. Len(lines)}
           left == (0 .. FftResultSize - 1) \ shown
<1>1. FftResultSize \in Nat /\ NumBins \in Nat /\ Ranges \subseteq Int \X Int
  BY SignalAssumption, Halved DEF SignalAssumption
<1>2. /\ perLine \in Nat \ {0}
      /\ \/ perLine = FftResultSize \div bufferLength
         \/ perLine = 1 /\ FftResultSize \div bufferLength < 1
  <2>1. FftResultSize \in Int
    BY <1>1
  <2> QED BY <2>1, LineHasBins
<1>10. lines = Lines(perLine, FftResultSize, bufferLength)
  BY DEF WholeLines
<1> HIDE DEF perLine, lines
<1>3. /\ count \in 0 .. bufferLength /\ (count # bufferLength => perLine * count >= FftResultSize)
      /\ Len(lines) = count
      /\ \A line \in 1 .. count : lines[line] = Line(perLine, FftResultSize, line)
  BY ZenonT(30), <1>1, <1>2, <1>10, LinesCounted
<1>4. Consecutive(lines)
  BY <1>1, <1>2, <1>10, LinesConsecutive
<1>5. ASSUME NEW range \in Ranges PROVE Consecutive(RangeLines(range, bufferLength))
  <2>1. range[2] - range[1] \in Int
    BY <1>1
  <2>2. SamplesPerLine(range[2] - range[1], bufferLength) \in Nat \ {0}
    BY <2>1, LineHasBins
  <2> QED BY <1>1, <2>2, LinesConsecutive DEF RangeLines
<1> HIDE DEF count
<1>6. \A bin \in shown : bin \in 0 .. FftResultSize - 1 /\ bin \div perLine < count
  <2> TAKE bin \in shown
  <2>1. PICK line \in 1 .. count : bin \in Line(perLine, FftResultSize, line)
    BY <1>3
  <2>2. bin \div perLine = line - 1 /\ bin \in 0 .. FftResultSize - 1
    BY <2>1 DEF Line
  <2> HIDE DEF perLine, count
  <2> QED BY <1>3, <2>2
<1>7. \A bin \in left : bin \in 0 .. FftResultSize - 1 /\ bin \div perLine >= count
  <2> TAKE bin \in left
  <2>1. bin \in 0 .. FftResultSize - 1 /\ bin \div perLine \in Nat
    BY <1>1, <1>2, Division
  <2>2. CASE bin \div perLine < count
    <3> DEFINE line == bin \div perLine + 1
    <3>1. line \in 1 .. count /\ line - 1 = bin \div perLine
      BY <1>3, <2>1, <2>2
    <3>2. bin \in lines[line]
      BY <1>3, <2>1, <3>1 DEF Line
    <3> QED BY <1>3, <3>1, <3>2
  <2> HIDE DEF perLine, count
  <2> QED BY <1>3, <2>1, <2>2
<1> HIDE DEF shown, left
<1>8. ASSUME NEW bin \in shown, NEW out \in left PROVE bin < out
  <2>1. /\ bin \in 0 .. FftResultSize - 1 /\ bin \div perLine < count
        /\ out \in 0 .. FftResultSize - 1 /\ out \div perLine >= count
    BY <1>6, <1>7
  <2>2. bin \in Nat /\ out \in Nat /\ bin \div perLine \in Nat /\ out \div perLine \in Nat
    <3>1. bin \in Nat /\ out \in Nat
      BY <1>1, <2>1
    <3> QED BY <1>2, <3>1, Division
  <2>3. bin \div perLine < out \div perLine
    BY <1>3, <2>1, <2>2
  <2> QED BY <1>2, <2>2, <2>3, DivisionOrdered
<1>9. ASSUME NEW out \in left PROVE out >= FftResultSize - bufferLength + 1
  <2> DEFINE q == out \div perLine  r == out % perLine
             p == FftResultSize \div bufferLength  s == FftResultSize % bufferLength
  <2>1. out \in 0 .. FftResultSize - 1 /\ out \in Nat /\ q >= count
    BY <1>1, <1>7
  <2>2. q \in Nat /\ r \in 0 .. perLine - 1 /\ out = perLine * q + r
    BY <1>2, <2>1, Division
  <2>3. p \in Nat /\ s \in 0 .. bufferLength - 1 /\ FftResultSize = bufferLength * p + s
    BY <1>1, Division
  <2>4. perLine = p \/ (perLine = 1 /\ p < 1)
    BY <1>2
  <2> HIDE DEF q, r, p, s, perLine, count
  <2>5. perLine * q >= perLine * count /\ perLine * q \in Nat /\ perLine * count \in Nat
    BY <1>2, <1>3, <2>1, <2>2, SMT
  <2>6. CASE count = bufferLength /\ perLine = p
    <3>1. perLine * count = bufferLength * p
      BY <1>2, <1>3, <2>6, SMT
    <3>2. out >= perLine * count
      BY <2>1, <2>2, <2>5
    <3> QED BY <1>1, <2>1, <2>3, <3>1, <3>2
  <2>7. CASE count = bufferLength /\ perLine = 1 /\ p < 1
    <3>1. perLine * count = bufferLength
      BY <1>2, <1>3, <2>7, SMT
    <3>2. out >= bufferLength
      BY <2>1, <2>2, <2>5, <3>1
    <3>3. bufferLength * p = 0
      BY <2>3, <2>7, SMT
    <3> QED BY <1>1, <2>1, <2>3, <3>2, <3>3
  <2>8. CASE count # bufferLength
    BY <1>1, <1>3, <2>1, <2>2, <2>5, <2>8
  <2> QED BY <1>2, <2>4, <2>6, <2>7, <2>8
<1>11. /\ Len(lines) <= bufferLength /\ Consecutive(lines)
       /\ \A range \in Ranges : Consecutive(RangeLines(range, bufferLength))
       /\ \A bin \in shown, out \in left : bin < out
       /\ \A bin \in left : bin >= FftResultSize - bufferLength + 1
  BY <1>3, <1>4, <1>5, <1>8, <1>9
<1> QED BY <1>11, Zenon DEF WholeSpectrumShown, shown, left, lines

(* What GetFftBuffer copies for the application: all or nothing.           *)
LEMMA CopiedToApplication ==
  ASSUME SpectrumInv, NEW count
  PROVE  GetFftBuffer(count) = IF count = NumBins /\ Results > 1 THEN SpectrumAt(Results * Half)
                               ELSE m_fftBuffer
<1>1. Results \in Nat /\ Half \in Nat
  BY Halved, Division DEF SpectrumInv, Results
<1>2. Results * Half = Half * Results
  BY <1>1, SMT
<1>3. LatestResults
  BY DEF SpectrumInv
<1>4. CASE count = NumBins /\ Results > 1
  BY <1>1, <1>2, <1>3, <1>4 DEF GetFftBuffer, CopyResult, IsOutputValid, LatestResults, SpectrumAt
<1>5. CASE ~(count = NumBins /\ Results > 1)
  BY <1>1, <1>3, <1>5 DEF GetFftBuffer, CopyResult, IsOutputValid, LatestResults
<1> QED BY <1>4, <1>5

(* What the application has was the latest spectrum once.                  *)
OnceLatest == m_fftBuffer \in {Untouched} \cup {SpectrumAt(r * Half) : r \in 2 .. Results}

LEMMA OnceLatestKept ==
  ASSUME SpectrumInv, OnceLatest, SpectrumInv', [Next]_vars
  PROVE  OnceLatest'
<1>1. Results \in Nat
  BY Halved, Division DEF SpectrumInv, Results
<1>2. Results' \in Nat /\ Results' >= Results
  <2>1. received' = received \/ received' = received + SamplesPerBuffer
    BY DEF Next, vars, managerVars, GenerateFft, CollectFftOutput, CollectFftOutputByRange,
       ProcessAudio, FilteredSample, SkippedSample, RxMixToZero
  <2>2. received \in Nat /\ received' \in Nat /\ Half \in Nat \ {0} /\ SamplesPerBuffer \in Nat
    BY Halved DEF SpectrumInv
  <2>3. received' >= received
    BY <2>1, <2>2
  <2>4. Results' = received' \div Half
    BY DEF Results, Half
  <2> DEFINE q == received \div Half  p == received' \div Half
             r == received % Half  s == received' % Half
  <2>5. /\ q \in Nat /\ r \in 0 .. Half - 1 /\ received = Half * q + r
        /\ p \in Nat /\ s \in 0 .. Half - 1 /\ received' = Half * p + s
    BY <2>2, Division
  <2>6. p >= q
    <3>1. p < q => received' < received
      BY <2>2, DivisionOrdered
    <3> HIDE DEF p, q, r, s
    <3> QED BY <2>2, <2>3, <2>5, <3>1
  <2>7. Results' = p /\ Results = q
    BY <2>4 DEF Results
  <2> HIDE DEF p, q, r, s
  <2> QED BY <2>5, <2>6, <2>7
<1>3. CASE m_fftBuffer' = m_fftBuffer
  <2>1. {SpectrumAt(r * Half) : r \in 2 .. Results} \subseteq {SpectrumAt(r * Half) : r \in 2 .. Results'}
    BY <1>1, <1>2
  <2> QED BY <1>3, <2>1 DEF OnceLatest, Untouched, SpectrumAt, Window, Half
<1>4. ASSUME NEW count, m_fftBuffer' = GetFftBuffer(count), UNCHANGED managerVars
      PROVE  OnceLatest'
  <2>1. Results' = Results
    BY <1>4 DEF managerVars, Results, Half
  <2> DEFINE whole == count = NumBins /\ Results > 1
  <2>2. m_fftBuffer' = IF whole THEN SpectrumAt(Results * Half) ELSE m_fftBuffer
    BY <1>4, CopiedToApplication
  <2>4. m_fftBuffer' = m_fftBuffer \/ (Results > 1 /\ m_fftBuffer' = SpectrumAt(Results * Half))
    BY <2>2
  <2>3. CASE Results > 1 /\ m_fftBuffer' = SpectrumAt(Results * Half)
    <3>1. Results \in 2 .. Results
      BY <1>1, <2>3
    <3> QED BY <2>1, <2>3, <3>1 DEF OnceLatest, SpectrumAt, Window, Half
  <2> QED BY <1>3, <2>3, <2>4
<1>5. CASE CollectFftOutput
  BY <1>4, <1>5 DEF CollectFftOutput
<1>6. CASE \E range \in Ranges : CollectFftOutputByRange(range)
  BY <1>4, <1>6 DEF CollectFftOutputByRange
<1>7. [Next]_vars => \/ CollectFftOutput \/ \E range \in Ranges : CollectFftOutputByRange(range)
                     \/ m_fftBuffer' = m_fftBuffer
  BY DEF Next, vars, GenerateFft, ProcessAudio, FilteredSample, SkippedSample, RxMixToZero
<1> QED BY <1>3, <1>5, <1>6, <1>7

(* For every size of the transform and of the result, and whatever the     *)
(* application has room for: the collection by range gives it the latest   *)
(* whole spectrum; what it has is always one that was the latest; and it   *)
(* is shown the bins in order, with fewer left out than it has lines.      *)
THEOREM RangeSeesLatest == Spec => []RangeShowsLatest
<1> DEFINE Inv == SpectrumInv /\ OnceLatest
<1>1. Init => Inv
  BY SpectrumStarts DEF Init, OnceLatest
<1>2. Inv /\ [Next]_vars => Inv'
  BY SpectrumNext, OnceLatestKept
<1>3. Inv => RangeShowsLatest
  <2>1. BufferLengths \subseteq Nat \ {0}
    BY SignalAssumption DEF SignalAssumption
  <2>2. \A bufferLength \in BufferLengths : WholeSpectrumShown(bufferLength)
    BY <2>1, SpectrumShown
  <2>3. SpectrumInv /\ Results > 1 => GetFftBuffer(NumBins) = SpectrumAt(Results * Half)
    BY CopiedToApplication
  <2> QED BY <2>2, <2>3 DEF RangeShowsLatest, OnceLatest
<1> QED BY <1>1, <1>2, <1>3, PTL DEF Spec

(***************************************************************************)
(* The types: the manager is whole buffers ahead of the decoder, and no    *)
(* filter's ring or oscillator leaves its range.                           *)
(***************************************************************************)
WholeBuffersAhead == \E k \in Nat : received - bufferEnd = SamplesPerBuffer * k

TypesInv == TypeOK /\ WholeBuffersAhead /\ decimated <= heard

LEMMA PhaseKept ==
  ASSUME NEW oscillator \in Oscillators
  PROVE  MixSample(oscillator) \in Oscillators
<1> DEFINE phase == oscillator.m_currentPhase  inc == oscillator.m_phaseInc
           next == NextPhase(oscillator)
<1>1. HalfTurn \in Nat \ {0}
  BY SignalAssumption DEF SignalAssumption
<1>2. phase \in 0 .. 2 * HalfTurn - 1 /\ inc \in -HalfTurn .. HalfTurn
  BY DEF Oscillators
<1>3. next = IF phase + inc >= 2 * HalfTurn THEN (phase + inc) - 2 * HalfTurn
             ELSE IF phase + inc < 0 THEN (phase + inc) + 2 * HalfTurn ELSE phase + inc
  BY DEF NextPhase
<1> HIDE DEF phase, inc, next
<1>4. next \in 0 .. 2 * HalfTurn - 1
  BY <1>1, <1>2, <1>3
<1>5. MixSample(oscillator) = [oscillator EXCEPT !.m_currentPhase = next]
  BY DEF MixSample, next
<1> QED BY <1>4, <1>5 DEF Oscillators

LEMMA FrequencySet ==
  ASSUME NEW oscillator \in Oscillators, NEW frequency \in Frequencies
  PROVE  /\ SetFrequency(oscillator, frequency) \in Oscillators
         /\ PhaseInc(frequency) \in -HalfTurn .. HalfTurn
<1>1. PhaseInc(frequency) \in -HalfTurn .. HalfTurn
  BY SignalAssumption DEF SignalAssumption, PhaseInc
<1> QED BY <1>1 DEF SetFrequency, Oscillators

LEMMA StoreTyped ==
  ASSUME NEW length \in Nat \ {0}, NEW filter \in Filters(length), NEW sample \in Samples
  PROVE  Store(filter, sample, length) \in Filters(length)
<1>1. filter.index \in 0 .. length - 1 /\ filter.history \in [0 .. length - 1 -> Samples]
  BY DEF Filters, Tap
<1>2. (IF filter.index - 1 < 0 THEN length - 1 ELSE filter.index - 1) \in 0 .. length - 1
  BY <1>1
<1>3. [filter.history EXCEPT ![filter.index] = sample] \in [0 .. length - 1 -> Samples]
  BY <1>1
<1> QED BY <1>2, <1>3 DEF Store, Filters, Tap

LEMMA TypesStart ==
  ASSUME Init
  PROVE  TypesInv
<1>1. SpectrumInv /\ ClockInv
  BY SpectrumStarts, ClockStarts
<1>2. /\ 0 \in Samples /\ 0 \in 0 .. Decimation - 1
      /\ LowPassTaps \in Nat \ {0} /\ MatchedTaps \in Nat \ {0} /\ HalfTurn \in Nat \ {0}
  BY SignalAssumption DEF SignalAssumption, Samples
<1>3. m_zeroDownMix \in Oscillators
  <2>1. PICK frequency \in Frequencies :
          m_zeroDownMix = [m_currentPhase |-> 0, m_phaseInc |-> PhaseInc(frequency)]
    BY DEF Init
  <2>2. PhaseInc(frequency) \in -HalfTurn .. HalfTurn
    BY SignalAssumption DEF SignalAssumption, PhaseInc
  <2> QED BY <1>2, <2>1, <2>2 DEF Oscillators
<1>4. Fresh(LowPassTaps) \in Filters(LowPassTaps) /\ Fresh(MatchedTaps) \in Filters(MatchedTaps)
  BY <1>2 DEF Fresh, Filters, Tap, Silence
<1>5. \A fft \in {m_fft.current, m_fft.previous} : fft.m_writeIdx \in Bin
  BY <1>1 DEF SpectrumInv, BothTyped, FftType
<1>6. WholeBuffersAhead
  <2>1. SamplesPerBuffer * 0 = 0 /\ received - bufferEnd = 0
    BY Halved DEF Init
  <2> QED BY <2>1 DEF WholeBuffersAhead
<1>7. /\ m_bitPos \in BitPosition /\ m_bitPhasePos \in 0 .. BitTime
      /\ m_peakPos \in BitPosition /\ m_newPeakPos \in BitPosition
      /\ sinceBit \in Nat \cup {NoBit} /\ slipped \in BOOLEAN
  <2>1. ClockTyped => m_bitPhasePos \in 0 .. BitTime
    BY BitTimeNotPassed DEF ClockTyped, Rest, BitPosition
  <2> QED BY <1>1, <2>1 DEF ClockInv, ClockTyped
<1>8. /\ received = 0 /\ heard = 0 /\ bufferEnd = 0 /\ decimated = 0 /\ m_downSampleCount = 0
      /\ m_mixToZero = TRUE
      /\ m_lowPassDecimating = Fresh(LowPassTaps) /\ m_matchedFilter = Fresh(MatchedTaps)
  BY DEF Init
<1> QED BY <1>2, <1>3, <1>4, <1>5, <1>6, <1>7, <1>8 DEF TypesInv, TypeOK

LEMMA TypesNext ==
  ASSUME TypesInv, SpectrumInv', ClockInv', [Next]_vars
  PROVE  TypesInv'
<1> DEFINE
      Numbers == /\ received \in Samples /\ heard \in Samples /\ bufferEnd \in Samples
                 /\ heard <= bufferEnd /\ bufferEnd <= received
                 /\ decimated \in Samples /\ decimated <= heard
                 /\ WholeBuffersAhead
      Mixer == m_mixToZero \in BOOLEAN /\ m_zeroDownMix \in Oscillators
      Rings == /\ m_downSampleCount \in 0 .. Decimation - 1
               /\ m_lowPassDecimating \in Filters(LowPassTaps)
               /\ m_matchedFilter \in Filters(MatchedTaps)
<1>1. SUFFICES Numbers' /\ Mixer' /\ Rings'
  <2>1. \A fft \in {m_fft'.current, m_fft'.previous} : fft.m_writeIdx \in Bin
    BY DEF SpectrumInv, BothTyped, FftType
  <2>2. /\ m_bitPos' \in BitPosition /\ m_bitPhasePos' \in 0 .. BitTime
        /\ m_peakPos' \in BitPosition /\ m_newPeakPos' \in BitPosition
        /\ sinceBit' \in Nat \cup {NoBit} /\ slipped' \in BOOLEAN
    <3>1. ClockTyped' => m_bitPhasePos' \in 0 .. BitTime
      BY BitTimeNotPassed DEF ClockTyped, Rest, BitRest, BitPosition
    <3> QED BY <3>1 DEF ClockInv, ClockTyped
  <2> QED BY <1>1, <2>1, <2>2 DEF TypesInv, TypeOK, Samples, Oscillators, Filters, Tap, BitPosition, Bin
<1>2. Numbers /\ Mixer /\ Rings
  BY DEF TypesInv, TypeOK
<1>3. /\ SamplesPerBuffer \in Nat \ {0} /\ MaxSamples \in Nat /\ Decimation \in Nat \ {0}
      /\ LowPassTaps \in Nat \ {0} /\ MatchedTaps \in Nat \ {0}
  BY Halved, SignalAssumption DEF SignalAssumption
<1>4. CASE GenerateFft
  <2>1. /\ received' = received + SamplesPerBuffer /\ received' <= MaxSamples
        /\ UNCHANGED <<bufferEnd, heard, mixVars, filterVars, clockVars>>
    BY <1>4 DEF GenerateFft
  <2>2. WholeBuffersAhead'
    <3>1. PICK k \in Nat : received - bufferEnd = SamplesPerBuffer * k
      BY <1>2 DEF WholeBuffersAhead
    <3>2. SamplesPerBuffer * (k + 1) = SamplesPerBuffer * k + SamplesPerBuffer
      BY <1>3, SMT
    <3>3. received' - bufferEnd' = SamplesPerBuffer * (k + 1)
      BY <1>2, <1>3, <2>1, <3>1, <3>2 DEF Samples
    <3> QED BY <3>3 DEF WholeBuffersAhead
  <2>3. received' \in Samples /\ bufferEnd' <= received'
    BY <1>2, <1>3, <2>1 DEF Samples
  <2> QED BY <1>2, <2>1, <2>2, <2>3 DEF mixVars, filterVars, Samples, Oscillators, Filters, Tap
<1>5. CASE ProcessAudio
  <2>1. /\ heard = bufferEnd /\ heard < received /\ bufferEnd' = bufferEnd + SamplesPerBuffer
        /\ m_mixToZero' \in BOOLEAN
        /\ UNCHANGED <<received, heard, filterVars>>
    BY <1>5 DEF ProcessAudio, managerVars
  <2>2. PICK frequency \in Frequencies : m_zeroDownMix' = SetFrequency(m_zeroDownMix, frequency)
    BY <1>5 DEF ProcessAudio
  <2>3. m_zeroDownMix' \in Oscillators
    BY <1>2, <2>2, FrequencySet
  <2>4. WholeBuffersAhead' /\ bufferEnd' <= received'
    <3>1. PICK k \in Nat : received - bufferEnd = SamplesPerBuffer * k
      BY <1>2 DEF WholeBuffersAhead
    <3>2. k # 0
      <4>1. SamplesPerBuffer * 0 = 0
        BY <1>3, SMT
      <4> QED BY <1>2, <2>1, <3>1, <4>1 DEF Samples
    <3>3. k - 1 \in Nat /\ SamplesPerBuffer * (k - 1) \in Nat
          /\ SamplesPerBuffer * k = SamplesPerBuffer * (k - 1) + SamplesPerBuffer
      BY <1>3, <3>2, SMT
    <3>4. received' - bufferEnd' = SamplesPerBuffer * (k - 1)
      BY <1>2, <1>3, <2>1, <3>1, <3>3 DEF Samples
    <3>5. bufferEnd' <= received'
      BY <1>2, <1>3, <2>1, <3>3, <3>4 DEF Samples
    <3> QED BY <3>3, <3>4, <3>5 DEF WholeBuffersAhead
  <2>5. bufferEnd' \in Samples /\ heard' <= bufferEnd'
    BY <1>2, <1>3, <2>1, <2>4 DEF Samples
  <2> QED BY <1>2, <2>1, <2>3, <2>4, <2>5 DEF filterVars, Samples, Oscillators, Filters, Tap
<1>6. CASE RxMixToZero /\ (FilteredSample \/ SkippedSample)
  <2>1. /\ heard < bufferEnd /\ heard' = heard + 1 /\ UNCHANGED <<received, bufferEnd, m_mixToZero>>
        /\ m_zeroDownMix' = IF m_mixToZero THEN MixSample(m_zeroDownMix) ELSE m_zeroDownMix
    BY <1>6 DEF RxMixToZero, managerVars
  <2>2. m_zeroDownMix' \in Oscillators
    BY <1>2, <2>1, PhaseKept
  <2>3. heard' \in Samples /\ heard' <= bufferEnd'
    BY <1>2, <1>3, <2>1 DEF Samples
  <2>4. WholeBuffersAhead'
    BY <1>2, <2>1 DEF WholeBuffersAhead
  <2>5. /\ m_lowPassDecimating' = Store(m_lowPassDecimating, heard', LowPassTaps)
        /\ m_downSampleCount' \in {Decimation - 1, m_downSampleCount - 1}
        /\ m_downSampleCount' = m_downSampleCount - 1 => ~(m_downSampleCount - 1 < 0)
    BY <1>2, <1>3, <1>6 DEF FilteredSample, SkippedSample, DownSample
  <2>6. m_downSampleCount' \in 0 .. Decimation - 1
    BY <1>2, <1>3, <2>5
  <2>7. m_lowPassDecimating' \in Filters(LowPassTaps)
    BY <1>2, <1>3, <2>3, <2>5, StoreTyped
  <2>8. /\ decimated' \in Samples /\ decimated' <= heard'
        /\ m_matchedFilter' \in Filters(MatchedTaps)
    <3>1. CASE FilteredSample
      <4>1. /\ decimated' = decimated + 1
            /\ m_matchedFilter' = Store(m_matchedFilter, decimated', MatchedTaps)
        BY <3>1 DEF FilteredSample, MatchedFilter
      <4>2. decimated' \in Samples /\ decimated' <= heard'
        BY <1>2, <1>3, <2>1, <2>3, <4>1 DEF Samples
      <4> QED BY <1>2, <1>3, <4>1, <4>2, StoreTyped
    <3>2. CASE SkippedSample
      <4>1. UNCHANGED <<decimated, m_matchedFilter>>
        BY <3>2 DEF SkippedSample
      <4> QED BY <1>2, <2>1, <4>1 DEF Samples, Filters, Tap
    <3> QED BY <1>6, <3>1, <3>2
  <2> QED BY <1>2, <2>1, <2>2, <2>3, <2>4, <2>6, <2>7, <2>8 DEF Samples, Oscillators, Filters, Tap
<1>7. CASE UNCHANGED <<received, heard, bufferEnd, mixVars, filterVars>>
  BY <1>2, <1>7 DEF mixVars, filterVars, WholeBuffersAhead
<1>8. [Next]_vars => \/ GenerateFft \/ ProcessAudio
                     \/ RxMixToZero /\ (FilteredSample \/ SkippedSample)
                     \/ UNCHANGED <<received, heard, bufferEnd, mixVars, filterVars>>
  BY DEF Next, vars, managerVars, FilteredSample, SkippedSample, CollectFftOutput,
     CollectFftOutputByRange
<1> QED BY <1>4, <1>5, <1>6, <1>7, <1>8

(* The types, for every number of taps and bins and every set of           *)
(* frequencies: the oscillator's phase stays within one turn although only *)
(* one turn is ever taken off it, no ring's index leaves its ring, no      *)
(* transform's its array, and the decoder never passes the manager.        *)
THEOREM TypeCorrect == Spec => []TypeOK
<1> DEFINE Inv == TypesInv /\ SpectrumInv /\ ClockInv
<1>1. Init => Inv
  BY TypesStart, SpectrumStarts, ClockStarts
<1>2. Inv /\ [Next]_vars => Inv'
  BY TypesNext, SpectrumNext, ClockKept
<1>3. Inv => TypeOK
  BY DEF TypesInv
<1> QED BY <1>1, <1>2, <1>3, PTL DEF Spec

(***************************************************************************)
(* The interleaver: it never puts two symbols in one place nor one over    *)
(* the sync vector, and the receiver takes them from where they were put.  *)
(***************************************************************************)
Indices == FirstIndex .. SYMPBLOCK - 1

(* A column further: the same remainder, the next quotient.                *)
LEMMA Decomposed ==
  ASSUME NEW k \in Nat
  PROVE  /\ (FirstIndex + k) \div COLUMNS = k \div COLUMNS + 1
         /\ (FirstIndex + k) % COLUMNS = k % COLUMNS
<1> DEFINE q == k \div COLUMNS
           r == k % COLUMNS
           p == (FirstIndex + k) \div COLUMNS
           t == (FirstIndex + k) % COLUMNS
<1>1. FirstIndex + k \in Nat /\ COLUMNS \in Nat \ {0}
  BY InterleaverAssumption, SMT DEF FirstIndex
<1>2. /\ q \in Nat /\ r \in 0 .. COLUMNS - 1 /\ k = COLUMNS * q + r
      /\ p \in Nat /\ t \in 0 .. COLUMNS - 1 /\ FirstIndex + k = COLUMNS * p + t
  BY <1>1, Division
<1> HIDE DEF q, r, p, t
<1>3. COLUMNS * (q + 1) + r = COLUMNS * p + t
  BY <1>1, <1>2, SMT DEF FirstIndex
<1>4. q + 1 = p /\ r = t
  BY <1>1, <1>2, <1>3, Quotients, SMT
<1> QED BY <1>4 DEF q, r, p, t

(* Where a symbol of the convolutional encoder goes: its column times ROWS *)
(* plus its row, which is never the row of the sync vector                 *)
(* (CCodecAO40::interleave_symbol).                                        *)
LEMMA Placed ==
  ASSUME NEW index \in Indices
  PROVE  \E column \in 0 .. COLUMNS - 1, row \in 1 .. ROWS - 1 :
           /\ index = COLUMNS * row + column
           /\ Interleaved(index) = ROWS * column + row
<1> DEFINE row    == index \div COLUMNS
           column == index % COLUMNS
<1>1. index \in Nat /\ COLUMNS \in Nat \ {0} /\ ROWS \in Nat \ {0, 1}
  BY InterleaverAssumption, SMT DEF Indices, FirstIndex, SYMPBLOCK
<1>2. row \in Nat /\ column \in 0 .. COLUMNS - 1 /\ index = COLUMNS * row + column
  BY <1>1, Division
<1>3. Interleaved(index) = column * ROWS + row
  BY DEF Interleaved
<1> HIDE DEF row, column
<1>4. COLUMNS * row + column >= COLUMNS /\ COLUMNS * row + column < ROWS * COLUMNS
  BY <1>1, <1>2, SMT DEF Indices, FirstIndex, SYMPBLOCK
<1>5. row >= 1
  <2>1. CASE row = 0
    BY <1>1, <1>2, <1>4, <2>1, SMT
  <2> QED BY <1>2, <2>1, SMT
<1>6. row < ROWS
  <2>1. CASE row >= ROWS
    <3>1. COLUMNS * row >= COLUMNS * ROWS
      BY <1>1, <1>2, <2>1, SMT
    <3> QED BY <1>1, <1>2, <1>4, <3>1, SMT
  <2> QED BY <1>1, <1>2, <2>1, SMT
<1> QED BY <1>1, <1>2, <1>3, <1>5, <1>6, SMT

(* No symbol falls on the sync vector or outside the block                 *)
(* (CCodecAO40::init_encoder writes the one, encode_and_interleave the     *)
(* rest).                                                                  *)
THEOREM SyncUntouched ==
  ASSUME NEW index \in Indices
  PROVE  Interleaved(index) \in (0 .. SYMPBLOCK - 1) \ SyncPositions
<1>1. PICK column \in 0 .. COLUMNS - 1, row \in 1 .. ROWS - 1 :
        Interleaved(index) = ROWS * column + row
  BY Placed
<1>2. ROWS \in Nat \ {0, 1} /\ COLUMNS \in Nat \ {0}
  BY InterleaverAssumption
<1>3. ROWS * column + row \in 0 .. SYMPBLOCK - 1
  <2>1. ROWS * column <= ROWS * (COLUMNS - 1)
    BY <1>2, SMT
  <2> QED BY <1>2, <2>1, SMT DEF SYMPBLOCK
<1>4. ASSUME NEW i \in 0 .. COLUMNS - 1, ROWS * column + row = ROWS * i
      PROVE  FALSE
  <2>1. ROWS * column + row = ROWS * i + 0
    BY <1>2, <1>4, SMT
  <2>2. 0 \in 0 .. ROWS - 1 /\ row \in 0 .. ROWS - 1 /\ column \in Nat /\ i \in Nat
    BY <1>2, SMT
  <2>3. row = 0
    BY <1>2, <2>1, <2>2, Quotients
  <2> QED BY <2>3, SMT
<1> QED BY <1>1, <1>3, <1>4 DEF SyncPositions

(* Two symbols never share a place (CCodecAO40::interleave_symbol).        *)
THEOREM NoCollision ==
  ASSUME NEW a \in Indices, NEW b \in Indices, Interleaved(a) = Interleaved(b)
  PROVE  a = b
<1>1. PICK columnA \in 0 .. COLUMNS - 1, rowA \in 1 .. ROWS - 1 :
        a = COLUMNS * rowA + columnA /\ Interleaved(a) = ROWS * columnA + rowA
  BY Placed
<1>2. PICK columnB \in 0 .. COLUMNS - 1, rowB \in 1 .. ROWS - 1 :
        b = COLUMNS * rowB + columnB /\ Interleaved(b) = ROWS * columnB + rowB
  BY Placed
<1>3. ROWS \in Nat \ {0} /\ COLUMNS \in Nat \ {0}
  BY InterleaverAssumption
<1>4. /\ columnA \in Nat /\ columnB \in Nat
      /\ rowA \in 0 .. ROWS - 1 /\ rowB \in 0 .. ROWS - 1
  BY <1>3, SMT
<1>5. columnA = columnB /\ rowA = rowB
  BY <1>1, <1>2, <1>3, <1>4, Quotients
<1> QED BY <1>1, <1>2, <1>5

(* The receiver's k-th symbol is the one the encoder put there as its k-th *)
(* (CFec::Deinterleave against CCodecAO40::interleave_symbol).             *)
THEOREM Undone ==
  ASSUME NEW k \in 0 .. (ROWS - 1) * COLUMNS - 1
  PROVE  Deinterleaved(k) = Interleaved(FirstIndex + k)
<1>1. k \in Nat
  BY InterleaverAssumption, SMT
<1>2. /\ (FirstIndex + k) \div COLUMNS = k \div COLUMNS + 1
      /\ (FirstIndex + k) % COLUMNS = k % COLUMNS
  BY <1>1, Decomposed
<1> QED BY <1>2 DEF Deinterleaved, Interleaved
=============================================================================
