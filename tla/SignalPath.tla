----------------------------- MODULE SignalPath -----------------------------
(***************************************************************************)
(* From samples to bits and to the spectrum.  The manager's thread adds    *)
(* each buffer of samples to the overlapped FFT and passes it on; a        *)
(* decoder's thread mixes, decimates, filters and clocks bits out of it,   *)
(* sample by sample (bpskDecoder.cpp); the application asks for the        *)
(* spectrum at any moment (decode.cpp).  A sample is its number, counted   *)
(* from 1.  What depends on the samples' values is chosen freely: the      *)
(* tuned frequency and the bit position of most energy.                    *)
(***************************************************************************)
EXTENDS OverlappedFft, FirFilter

CONSTANTS
  Decimation,        \* m_sampleRate / m_decimatedSampleRate
  LowPassTaps,       \* 131
  MatchedTaps,       \* m_rsMatchedFilterSize
  SamplesPerBit,     \* m_samplesPerBit
  BitTime,           \* m_bitTime, in units of the last bit of m_bitPhaseInc
  BitPhaseInc,       \* m_bitPhaseInc, with its share of what rounding adds to the sums
  HalfTurn,          \* PI, in steps of the oscillator's phase
  Frequencies,       \* tuned frequencies, in steps of phase per sample; 0 is near none
  FftResultSize,     \* m_fftResultSize
  Ranges,            \* <<binStart, binEnd>> the application asks for
  BufferLengths,     \* *outBufferElements
  MaxSamples,        \* bound: samples received
  MaxAhead           \* bound: samples the manager is ahead of the decoder

ASSUME SignalAssumption ==
  /\ Decimation \in Nat \ {0}
  /\ LowPassTaps \in Nat \ {0} /\ MatchedTaps \in Nat \ {0}
  /\ SamplesPerBit \in Nat \ {0} /\ SamplesPerBit % 2 = 0
  /\ HalfTurn \in Nat \ {0} /\ Frequencies \subseteq Int /\ Frequencies # {}
  /\ FftResultSize \in Nat /\ Ranges \subseteq Int \X Int /\ BufferLengths \subseteq Nat \ {0}
  /\ MaxSamples \in Nat /\ MaxAhead \in Nat

(* What a bit time's increments are more than the bit time: 8 at 1200 bits *)
(* a second, of increments of 14316559, and nothing at 4800.  It is small  *)
(* enough for the clock not to slip twice in five bits.                    *)
BitRest == SamplesPerBit * BitPhaseInc - BitTime

ASSUME BitClockAssumption ==
  /\ BitTime \in Nat /\ BitPhaseInc \in Nat \ {0}
  /\ BitRest >= 0 /\ 5 * BitRest <= BitPhaseInc

VARIABLES
  received,              \* samples the manager has taken
  m_fft, spectrum,       \* the transforms, and what the peak detector was last given
  m_fftBuffer,           \* what CollectFftOutput works on
  heard, bufferEnd,      \* samples the decoder has processed, and where its buffer ends
  m_mixToZero, m_zeroDownMix,
  m_downSampleCount, m_lowPassDecimating, lowPassOut,
  decimated,             \* samples that came out of the decimation
  m_matchedFilter, matchedOut,
  m_bitPos, m_bitPhasePos, m_peakPos, m_newPeakPos,
  sinceBit,              \* decimated samples since the last symbol
  slipped                \* history: the bit clock has slipped since then

managerVars == <<received, m_fft, spectrum>>
mixVars     == <<m_mixToZero, m_zeroDownMix>>
filterVars  == <<m_downSampleCount, m_lowPassDecimating, lowPassOut,
                 decimated, m_matchedFilter, matchedOut>>
clockVars   == <<m_bitPos, m_bitPhasePos, m_peakPos, m_newPeakPos, sinceBit, slipped>>
vars == <<managerVars, m_fftBuffer, heard, bufferEnd, mixVars, filterVars, clockVars>>

NoBit == -1
BitPosition == 0 .. SamplesPerBit - 1

LowPassValues == Designed("BLACKMAN", "LOW_PASS", LowPassTaps)
MatchedValues == FromValues(MatchedTaps)

-----------------------------------------------------------------------------
(* The oscillator (oscillator.cpp): a frequency its phase could not follow *)
(* stops it, and one turn at most is taken off after a sample.             *)
PhaseInc(frequency) ==
  IF frequency > HalfTurn \/ frequency < -HalfTurn THEN 0 ELSE frequency

NextPhase(oscillator) ==
  LET phase == oscillator.m_currentPhase + oscillator.m_phaseInc
  IN  IF phase >= 2 * HalfTurn THEN phase - 2 * HalfTurn
      ELSE IF phase < 0 THEN phase + 2 * HalfTurn ELSE phase

SetFrequency(oscillator, frequency) ==
  [oscillator EXCEPT !.m_phaseInc = PhaseInc(frequency)]

MixSample(oscillator) == [oscillator EXCEPT !.m_currentPhase = NextPhase(oscillator)]

-----------------------------------------------------------------------------
Untouched == [older |-> <<>>, newer |-> <<>>]   \* a buffer nothing was copied to

Init ==
  /\ received = 0 /\ m_fft = Initialised
  /\ spectrum = Untouched /\ m_fftBuffer = Untouched
  /\ heard = 0 /\ bufferEnd = 0
  /\ m_mixToZero = TRUE
  /\ \E frequency \in Frequencies :
       m_zeroDownMix = [m_currentPhase |-> 0, m_phaseInc |-> PhaseInc(frequency)]
  /\ m_downSampleCount = 0 /\ decimated = 0
  /\ m_lowPassDecimating = Fresh(LowPassTaps) /\ lowPassOut = <<>>
  /\ m_matchedFilter = Fresh(MatchedTaps) /\ matchedOut = <<>>
  /\ m_bitPos = 0 /\ m_bitPhasePos = 0 /\ m_peakPos = 0 /\ m_newPeakPos = 0
  /\ sinceBit = NoBit /\ slipped = FALSE

(* A buffer of the pool before it is used (memPool.h clears it).           *)
Silent == [bin \in Bin |-> Zero]

(* CDecodeManager::GenerateFft, on the manager's thread: a changed result  *)
(* goes to the peak detector in a buffer of the pool, copied or not.       *)
GenerateFft ==
  LET samples == [n \in 1 .. SamplesPerBuffer |-> received + n]
  IN  /\ received + SamplesPerBuffer <= MaxSamples
      /\ received - heard < MaxAhead
      /\ received' = received + SamplesPerBuffer
      /\ m_fft' = Add(m_fft, samples)
      /\ spectrum' = IF AddSucceeds(m_fft, samples) /\ Updated(m_fft, samples)
                     THEN CopyResult(m_fft', NumBins, [older |-> Silent, newer |-> Silent])
                     ELSE spectrum
      /\ UNCHANGED <<m_fftBuffer, heard, bufferEnd, mixVars, filterVars, clockVars>>

(* (A *Faulty operator is a variant of the definition that follows it,     *)
(* with a mistake that is easy to make there.  GetFftBufferFaulty takes    *)
(* the two arrays for each other.)                                         *)
GetFftBufferFaulty(sampleCount) == CopyResult(Swap(m_fft), sampleCount, m_fftBuffer)

(* CDecodeManager::GetFftBuffer, on the application's thread.              *)
GetFftBuffer(sampleCount) == CopyResult(m_fft, sampleCount, m_fftBuffer)

(* CDecode::CollectFftOutput: how many bins a line of the output stands    *)
(* for, and which; the lines start at the spectrum's first bin.            *)
SamplesPerLine(bins, bufferLength) ==
  IF bins \div bufferLength < 1 THEN 1 ELSE bins \div bufferLength

LineCount(perLine, lastBin, bufferLength) ==
  Smaller(bufferLength, (lastBin + perLine - 1) \div perLine)

Line(perLine, lastBin, line) ==
  {bin \in 0 .. lastBin - 1 : bin \div perLine = line - 1}

Lines(perLine, lastBin, bufferLength) ==
  [line \in 1 .. LineCount(perLine, lastBin, bufferLength) |-> Line(perLine, lastBin, line)]

WholeLines(bufferLength) ==
  Lines(SamplesPerLine(FftResultSize, bufferLength), FftResultSize, bufferLength)

RangeLines(range, bufferLength) ==
  Lines(SamplesPerLine(range[2] - range[1], bufferLength), NumBins, bufferLength)

CollectFftOutput ==
  /\ m_fftBuffer' = GetFftBuffer(FftResultSize)
  /\ UNCHANGED <<managerVars, heard, bufferEnd, mixVars, filterVars, clockVars>>

RangeAccepted(range) ==
  range[2] - range[1] >= 0 /\ range[2] - range[1] <= NumBins

CollectFftOutputByRange(range) ==
  /\ RangeAccepted(range)
  /\ m_fftBuffer' = GetFftBuffer(NumBins)
  /\ UNCHANGED <<managerVars, heard, bufferEnd, mixVars, filterVars, clockVars>>

-----------------------------------------------------------------------------
(* CBpskDecoder::ProcessAudio, on the decoder's thread, begins a buffer:   *)
(* a signal already near zero is not mixed, any other is followed.         *)
ProcessAudio ==
  /\ heard = bufferEnd /\ heard < received
  /\ bufferEnd' = bufferEnd + SamplesPerBuffer
  /\ \E centreFrequency \in Frequencies :
       /\ m_mixToZero' = (centreFrequency # 0)
       /\ m_zeroDownMix' = SetFrequency(m_zeroDownMix, centreFrequency)
  /\ UNCHANGED <<managerVars, m_fftBuffer, heard, filterVars, clockVars>>

RxMixToZero ==
  /\ heard < bufferEnd
  /\ heard' = heard + 1
  /\ m_zeroDownMix' = IF m_mixToZero THEN MixSample(m_zeroDownMix) ELSE m_zeroDownMix
  /\ UNCHANGED <<managerVars, m_fftBuffer, bufferEnd, m_mixToZero>>

(* RxDownSample: every sample enters the filter, one in Decimation comes   *)
(* out of it.                                                              *)
DownSample(outputDue) ==
  /\ outputDue <=> m_downSampleCount - 1 < 0
  /\ m_downSampleCount' = IF outputDue THEN Decimation - 1 ELSE m_downSampleCount - 1
  /\ m_lowPassDecimating' = Store(m_lowPassDecimating, heard', LowPassTaps)

MatchedFilter ==
  /\ lowPassOut' = Convolve(LowPassValues, m_lowPassDecimating, heard', LowPassTaps)
  /\ decimated' = decimated + 1
  /\ m_matchedFilter' = Store(m_matchedFilter, decimated', MatchedTaps)
  /\ matchedOut' = Convolve(MatchedValues, m_matchedFilter, decimated', MatchedTaps)

(* (HalfBitFaulty takes the new candidate up at once.)                     *)
HalfBitFaulty(position) == m_bitPos

(* RxPutNextUCSample: the bit clock.  At the peak position a symbol is     *)
(* compared with the last one (whether that is a bit depends on its not    *)
(* being silence); a new position is taken up half a bit away from the     *)
(* old; each bit time a new candidate is chosen.                           *)
HalfBit(position) == (position + SamplesPerBit \div 2) % SamplesPerBit

SymbolDue == m_bitPos = m_peakPos

(* Bit time is a float sum of increments.  What it is beyond the bit time  *)
(* stays in it and adds up, until a sample less is enough: the clock slips *)
(* past its last position.                                                 *)
BitTimeOver == m_bitPhasePos + BitPhaseInc >= BitTime

Slips == BitTimeOver /\ m_bitPos + 1 < SamplesPerBit

BitClock ==
  /\ sinceBit' = IF SymbolDue THEN 0 ELSE IF sinceBit = NoBit THEN NoBit ELSE sinceBit + 1
  /\ slipped' = (Slips \/ (slipped /\ ~SymbolDue))
  /\ m_peakPos' = IF m_bitPos = HalfBit(m_peakPos) THEN m_newPeakPos ELSE m_peakPos
  /\ m_bitPos' = IF m_bitPos + 1 >= SamplesPerBit \/ BitTimeOver THEN 0 ELSE m_bitPos + 1
  /\ m_bitPhasePos' = m_bitPhasePos + BitPhaseInc - (IF BitTimeOver THEN BitTime ELSE 0)
  /\ IF BitTimeOver THEN m_newPeakPos' \in BitPosition ELSE UNCHANGED m_newPeakPos

FilteredSample == RxMixToZero /\ DownSample(TRUE) /\ MatchedFilter /\ BitClock

SkippedSample ==
  /\ RxMixToZero /\ DownSample(FALSE)
  /\ UNCHANGED <<lowPassOut, decimated, m_matchedFilter, matchedOut, clockVars>>

Next ==
  \/ GenerateFft
  \/ CollectFftOutput
  \/ \E range \in Ranges : CollectFftOutputByRange(range)
  \/ ProcessAudio
  \/ FilteredSample
  \/ SkippedSample

Spec == Init /\ [][Next]_vars

-----------------------------------------------------------------------------
(* The type invariant.  The oscillator's phase is within one turn whatever *)
(* frequencies were tuned (GetSample takes at most one turn off), and no   *)
(* transform's write position is left at or beyond its end.                *)
Oscillators == [m_currentPhase : 0 .. 2 * HalfTurn - 1, m_phaseInc : -HalfTurn .. HalfTurn]
Samples == 0 .. MaxSamples

Filters(length) == [index : Tap(length), history : [Tap(length) -> Samples]]

TypeOK ==
  /\ received \in Samples /\ heard \in Samples /\ bufferEnd \in Samples
  /\ heard <= bufferEnd /\ bufferEnd <= received
  /\ \A fft \in {m_fft.current, m_fft.previous} : fft.m_writeIdx \in Bin
  /\ m_mixToZero \in BOOLEAN /\ m_zeroDownMix \in Oscillators
  /\ m_downSampleCount \in 0 .. Decimation - 1 /\ decimated \in Samples
  /\ m_lowPassDecimating \in Filters(LowPassTaps)
  /\ m_matchedFilter \in Filters(MatchedTaps)
  /\ m_bitPos \in BitPosition /\ m_bitPhasePos \in 0 .. BitTime
  /\ m_peakPos \in BitPosition /\ m_newPeakPos \in BitPosition
  /\ sinceBit \in Nat \cup {NoBit} /\ slipped \in BOOLEAN

(* The k-th latest of count samples, and what a filter should make of      *)
(* them: each of the latest samples with the weight of its age.            *)
Latest(k, count) == IF count - k >= 1 THEN count - k ELSE Silence

LowPassWeight(k) == <<FromEnd(k, LowPassTaps), FromEnd(k, LowPassTaps)>>
MatchedWeight(k) == k

Products(convolved) == {convolved[slot] : slot \in DOMAIN convolved}

(* ConvolvesLatest: however the ring of the decimating filter has turned   *)
(* between two outputs, each output is the convolution of its taps with    *)
(* the very latest samples, in order; the outputs are Decimation samples   *)
(* apart; and the matched filter does the same with the decimated ones.    *)
ConvolvesLatest ==
  LET last == (decimated - 1) * Decimation + 1 IN
  decimated > 0 =>
    /\ heard - last \in 0 .. Decimation - 1
    /\ Products(lowPassOut) =
         {<<LowPassWeight(k), Latest(k, last)>> : k \in Tap(LowPassTaps)}
    /\ Products(matchedOut) =
         {<<MatchedWeight(k), Latest(k, decimated)>> : k \in Tap(MatchedTaps)}

Half == NumBins \div 2
Results == received \div Half

Window(end) ==
  [bin \in Bin |-> IF end - NumBins + 1 + bin >= 1 THEN end - NumBins + 1 + bin ELSE Zero]

SpectrumAt(end) == [older |-> Window(end - Half), newer |-> Window(end)]

(* SpectrumOfLatest: the peak detector is given the sum of the transform   *)
(* of the latest NumBins samples and of the one half an array before it,   *)
(* with silence before the first sample, from the second result on; the    *)
(* first result it is given is an empty buffer.                            *)
SpectrumOfLatest ==
  /\ Results = 1 => spectrum = [older |-> Silent, newer |-> Silent]
  /\ Results > 1 => spectrum = SpectrumAt(Results * Half)

Consecutive(lines) ==
  \A line \in 2 .. Len(lines) : \A low \in lines[line - 1], high \in lines[line] : low < high

WholeSpectrumShown(bufferLength) ==
  LET lines == WholeLines(bufferLength)
      shown == UNION {lines[line] : line \in 1 .. Len(lines)}
      left  == (0 .. FftResultSize - 1) \ shown
  IN  /\ Len(lines) <= bufferLength /\ Consecutive(lines)
      /\ \A range \in Ranges : Consecutive(RangeLines(range, bufferLength))
      /\ \A bin \in shown, out \in left : bin < out
      /\ \A bin \in left : bin >= FftResultSize - bufferLength + 1

(* ShowsLatest: whenever the application collects the spectrum, it gets    *)
(* the latest whole one, as soon as there is one (README.md:54 and :86).   *)
ShowsLatest ==
  Results > 1 => GetFftBuffer(FftResultSize) = SpectrumAt(Results * Half)

(* RangeShowsLatest: that is so, whatever the sample rate, when it asks    *)
(* for a range; what it has is always a spectrum that once was the latest, *)
(* never two transforms that do not belong together; and the lines it is   *)
(* shown are consecutive stretches of bins from the first, with fewer bins *)
(* left out at the end than there are lines.  (The lines of a range start  *)
(* at the first bin too, wherever the range does.)                         *)
RangeShowsLatest ==
  /\ Results > 1 => GetFftBuffer(NumBins) = SpectrumAt(Results * Half)
  /\ m_fftBuffer \in {Untouched} \cup {SpectrumAt(r * Half) : r \in 2 .. Results}
  /\ \A bufferLength \in BufferLengths : WholeSpectrumShown(bufferLength)

(* BitSpacing: moving the bit clock to another position, whatever          *)
(* positions the energy points to, never compares two symbols half a bit   *)
(* or less apart, and at worst loses one bit, never two in a row.  Where   *)
(* the clock slips, and only there, they may be half a bit apart, and two  *)
(* may be lost.                                                            *)
BitSpacing ==
  [][decimated' # decimated /\ sinceBit # NoBit =>
       /\ sinceBit' = 0 =>
            sinceBit + 1 >= SamplesPerBit \div 2 + (IF slipped THEN 0 ELSE 1)
       /\ sinceBit' < 2 * SamplesPerBit
                      + (IF slipped' THEN SamplesPerBit + SamplesPerBit \div 2 ELSE 0)]_vars
=============================================================================
