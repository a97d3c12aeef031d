--------------------------- MODULE OverlappedFft ----------------------------
(***************************************************************************)
(* The spectrum: src/common/fft.cpp collects samples until its array is    *)
(* full and transforms them; src/common/overlappedFft.cpp keeps two, half  *)
(* an array apart, and hands out the sum of their results.  A transform    *)
(* is named by the samples it was made from, a spectrum by the two         *)
(* transforms it is the sum of.                                            *)
(***************************************************************************)
EXTENDS Integers, Sequences

CONSTANTS
  NumBins,            \* m_numBins, a power of two
  SamplesPerBuffer    \* m_samplesPerBuffer

(* What Initialise accepts; that NumBins is a power of two matters to the  *)
(* transform only.                                                         *)
Accepted ==
  /\ NumBins \in Nat \ {0} /\ NumBins % 2 = 0
  /\ SamplesPerBuffer \in Nat \ {0}
  /\ (NumBins \div 2) % SamplesPerBuffer = 0

ASSUME FftAssumption == Accepted

Bin == 0 .. NumBins - 1
Zero == 0                 \* a sample of silence
Garbage == -1             \* memory nobody has written

(* Place NumBins is the one the loops' "<=" would let them write.          *)
NewFft == [m_writeIdx |-> 0, m_fftIn |-> [bin \in 0 .. NumBins |-> Garbage],
           m_fftOut |-> [bin \in Bin |-> Garbage], m_outputValid |-> FALSE]

Smaller(a, b) == IF a < b THEN a ELSE b

(* The loops of ZeroFill and Add: how far they get, and what they leave.   *)
Room(fft, samples) == Smaller(Len(samples), NumBins + 1 - fft.m_writeIdx)

Written(fft, samples) ==
  LET first == fft.m_writeIdx
      next  == first + Room(fft, samples)
  IN  [fft EXCEPT !.m_writeIdx = next,
                  !.m_fftIn = [bin \in 0 .. NumBins |->
                     IF bin \in first .. next - 1 THEN samples[bin - first + 1] ELSE @[bin]]]

Full(fft) == fft.m_writeIdx = NumBins

CheckAndExecute(fft) ==
  IF Full(fft)
  THEN [fft EXCEPT !.m_fftOut = [bin \in Bin |-> fft.m_fftIn[bin]],
                   !.m_outputValid = TRUE, !.m_writeIdx = 0]
  ELSE fft

ZeroFill(fft, sampleCount) ==
  CheckAndExecute(Written(fft, [n \in 1 .. sampleCount |-> Zero]))

AddToFft(fft, samples) == CheckAndExecute(Written(fft, samples))

-----------------------------------------------------------------------------
(* (InitialisedFaulty leaves the first array empty, like the second.)      *)
InitialisedFaulty == [current |-> NewFft, previous |-> NewFft]

(* COverlappedFft::Initialise: the first array starts half full.           *)
Initialised == [current |-> ZeroFill(NewFft, NumBins \div 2), previous |-> NewFft]

Swap(both) == [current |-> both.previous, previous |-> both.current]

(* COverlappedFft::Add, under m_lock: its outcome and what it leaves.      *)
Updated(both, samples)   == Full(Written(both.current, samples))
OutOfSync(both, samples) == Full(Written(both.previous, samples))

AddSucceeds(both, samples) ==
  /\ Room(both.current, samples) = Len(samples)
  /\ Room(both.previous, samples) = Len(samples)
  /\ ~OutOfSync(both, samples)

Add(both, samples) ==
  LET added == [current  |-> AddToFft(both.current, samples),
                previous |-> AddToFft(both.previous, samples)]
  IN  IF AddSucceeds(both, samples) /\ Updated(both, samples)
      THEN Swap(added)
      ELSE added

IsOutputValid(both) == both.previous.m_outputValid /\ both.current.m_outputValid

(* COverlappedFft::CopyResult: SumResult adds the newer to the older; a    *)
(* caller that asks for another size than there is gets nothing.           *)
CopyResult(both, sampleCount, buffer) ==
  IF IsOutputValid(both) /\ sampleCount = NumBins
  THEN [older |-> both.current.m_fftOut, newer |-> both.previous.m_fftOut]
  ELSE buffer
=============================================================================
