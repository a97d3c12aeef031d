----------------------------- MODULE PeakDetect -----------------------------
(***************************************************************************)
(* The peak detector, src/common/peakDetect.cpp: the window that is slid   *)
(* along the averaged power spectrum, and the search for the strongest     *)
(* peaks that are in range and alone.  A spectrum is a function from bins  *)
(* to levels; a window is a function from taps to weights.                 *)
(***************************************************************************)
EXTENDS Integers, Sequences

CONSTANTS
  NumBins,         \* m_numBins
  WindowSize,      \* m_windowSize
  MinDistance,     \* m_minDistance
  MaxPeaks,        \* m_maxPeaks
  UintModulus      \* 2^32, the range of a UINT

ASSUME PeakAssumption ==
  /\ NumBins \in Nat \ {0} /\ WindowSize \in Nat /\ WindowSize % 2 = 1
  /\ MinDistance \in Nat /\ MaxPeaks \in Nat
  /\ UintModulus \in Nat /\ UintModulus > NumBins + MinDistance

Bin == 0 .. NumBins - 1
Tap == 0 .. WindowSize - 1

Larger(a, b)  == IF a > b THEN a ELSE b
Smaller(a, b) == IF a < b THEN a ELSE b

-----------------------------------------------------------------------------
(* CalculateWindows: the M-shaped window is written from four slopes at    *)
(* once; these are the taps the loop writes at idx.                        *)
TapsPerPeak == WindowSize \div 2
HalfLength  == TapsPerPeak \div 2

SlopeTaps(idx) ==
  LET pk1Out == idx
      pk1Mid == TapsPerPeak - idx - 1
  IN  {pk1Out, pk1Mid, pk1Out + TapsPerPeak + 1, pk1Mid + TapsPerPeak + 1}

WrittenTaps ==
  {TapsPerPeak} \cup {tap \in Int : \E idx \in 0 .. HalfLength : tap \in SlopeTaps(idx)}

(* Under ten taps the window is almost a rectangle; weights in tenths.     *)
m_windowFuncube == [tap \in Tap |-> IF tap = TapsPerPeak THEN 10 ELSE 9]

(* ApplyWindowFunction: what is added up for bin idx, element by element   *)
(* of the spectrum and of the window.                                      *)
HalfWindow     == WindowSize \div 2
FirstBin(idx)  == Larger(0, idx - HalfWindow)
FirstTap(idx)  == Larger(0, HalfWindow - idx)
EndTap(idx)    == Smaller(WindowSize, (NumBins - idx) + HalfWindow)
Addends(idx)   == EndTap(idx) - FirstTap(idx)
BinRead(idx, k) == FirstBin(idx) + k
TapRead(idx, k) == FirstTap(idx) + k

ApplyWindowFunction(m_binsAve) ==
  [idx \in Bin |->
     IF WindowSize = 1 THEN m_binsAve[idx]
     ELSE LET sum[n \in 0 .. Addends(idx)] ==
                IF n = 0 THEN 0
                ELSE sum[n - 1] + m_binsAve[BinRead(idx, n - 1)]
                                * m_windowFuncube[TapRead(idx, n - 1)]
          IN  sum[Addends(idx)]]

-----------------------------------------------------------------------------
(* Both bins are UINT and so is their difference; what labs makes of it is *)
(* a 64-bit number, where long has 64 bits.                                *)
TooClose(bin1, bin2) ==
  IF MinDistance = 0 THEN bin1 = bin2
  ELSE (bin1 - bin2) % UintModulus < MinDistance

IsLonePeak(bin, found, exclude) ==
  \A other \in found \cup exclude : ~TooClose(bin, other)

IsInRange(bin, low, high) == low <= bin /\ bin <= high

(* FindPeak: the strongest bin that stands out from its neighbours, the    *)
(* first of equals.  found is what has been found already.                 *)
Candidates(bins, found, exclude, low, high) ==
  {bin \in 1 .. NumBins - 2 :
     /\ bins[bin - 1] < bins[bin] /\ bins[bin] > bins[bin + 1]
     /\ bins[bin] > 0
     /\ IsInRange(bin, low, high) /\ IsLonePeak(bin, found, exclude)}

Strongest(bins, candidates) ==
  CHOOSE bin \in candidates :
    \A other \in candidates :
      bins[other] < bins[bin] \/ (bins[other] = bins[bin] /\ bin <= other)

(* CalcPeaks: the peaks in the order they are found; it stops at the first *)
(* search that finds none.  (CalcPeaksFaulty hands out the zeros that pad  *)
(* the list, too.)                                                         *)
CalcPeaksFaulty(bins, numPeaks, exclude, low, high) ==
  LET peaks[n \in 0 .. Smaller(numPeaks, MaxPeaks)] ==
        IF n = 0 THEN <<>>
        ELSE LET before == peaks[n - 1]
                 left   == Candidates(bins, {before[i] : i \in 1 .. Len(before)},
                                      exclude, low, high)
             IN  Append(before, IF left = {} THEN 0 ELSE Strongest(bins, left))
  IN  peaks[Smaller(numPeaks, MaxPeaks)]

CalcPeaks(bins, numPeaks, exclude, low, high) ==
  LET peaks[n \in 0 .. Smaller(numPeaks, MaxPeaks)] ==
        IF n = 0 THEN <<>>
        ELSE LET before == peaks[n - 1]
                 left   == Candidates(bins, {before[i] : i \in 1 .. Len(before)},
                                      exclude, low, high)
             IN  IF left = {} \/ Len(before) < n - 1 THEN before
                 ELSE Append(before, Strongest(bins, left))
  IN  peaks[Smaller(numPeaks, MaxPeaks)]
=============================================================================
