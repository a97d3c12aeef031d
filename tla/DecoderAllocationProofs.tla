----------------------- MODULE DecoderAllocationProofs -----------------------
(***************************************************************************)
(* Proofs about DecoderAllocation and, before them, about the window and   *)
(* the search of PeakDetect, for every spectrum, window, number of         *)
(* decoders and delay.                                                     *)
(***************************************************************************)
EXTENDS DecoderAllocation, FiniteSetTheorems, WellFoundedInduction, TLAPS

-----------------------------------------------------------------------------
(* The window. *)

(* The halves that CalculateWindows and ApplyWindowFunction divide by two  *)
(* to get.                                                                 *)
LEMMA Halves ==
  /\ TapsPerPeak \in Nat /\ WindowSize = 2 * TapsPerPeak + 1
  /\ HalfLength \in Nat
  /\ TapsPerPeak - HalfLength \in {HalfLength, HalfLength + 1}
  /\ HalfWindow = TapsPerPeak
  BY PeakAssumption, SMT DEF PeakAssumption, TapsPerPeak, HalfLength, HalfWindow

(* CalculateWindows: with at least ten taps the loop over half a peak      *)
(* reaches every tap of the M-shaped window ...                            *)
LEMMA EveryTapWritten ==
  ASSUME WindowSize >= 10, NEW tap \in Tap
  PROVE  tap \in WrittenTaps
<1>1. CASE tap = TapsPerPeak
  BY <1>1 DEF WrittenTaps
<1>2. CASE tap # TapsPerPeak
  <2>1. PICK loop \in 0 .. HalfLength : tap \in SlopeTaps(loop)
    <3> DEFINE fromOut == IF tap < TapsPerPeak THEN tap ELSE tap - TapsPerPeak - 1
    <3>1. fromOut \in 0 .. TapsPerPeak - 1
      BY <1>2, Halves, PeakAssumption, SMT DEF Tap, PeakAssumption
    <3>2. CASE fromOut <= HalfLength
      <4>1. fromOut \in 0 .. HalfLength
        BY <3>1, <3>2, Halves, SMT
      <4>2. tap \in {fromOut, fromOut + TapsPerPeak + 1}
        BY Halves, PeakAssumption, SMT DEF Tap, PeakAssumption
      <4>3. tap \in SlopeTaps(fromOut)
        BY <4>2 DEF SlopeTaps
      <4> QED BY <4>1, <4>3
    <3>3. CASE fromOut > HalfLength
      <4> DEFINE fromMid == TapsPerPeak - fromOut - 1
      <4>1. fromMid \in 0 .. HalfLength
        BY <3>1, <3>3, Halves, SMT
      <4>2. tap \in {TapsPerPeak - fromMid - 1, TapsPerPeak - fromMid - 1 + TapsPerPeak + 1}
        BY <3>1, Halves, PeakAssumption, SMT DEF Tap, PeakAssumption
      <4>3. tap \in SlopeTaps(fromMid)
        BY <4>2 DEF SlopeTaps
      <4> QED BY <4>1, <4>3
    <3> HIDE DEF fromOut
    <3> QED BY <3>1, <3>2, <3>3, Halves, SMT
  <2>2. tap \in Int
    BY PeakAssumption, SMT DEF Tap, PeakAssumption
  <2> QED BY <2>1, <2>2 DEF WrittenTaps
<1> QED BY <1>1, <1>2

(* ... and no place outside it.                                            *)
LEMMA OnlyTapsWritten ==
  ASSUME WindowSize >= 10, NEW tap \in WrittenTaps
  PROVE  tap \in Tap
<1>1. CASE tap = TapsPerPeak
  BY <1>1, Halves, SMT DEF Tap
<1>2. CASE tap # TapsPerPeak
  <2>1. PICK loop \in 0 .. HalfLength : tap \in SlopeTaps(loop)
    BY <1>2 DEF WrittenTaps
  <2>2. tap \in {loop, TapsPerPeak - loop - 1, loop + TapsPerPeak + 1,
                 TapsPerPeak - loop - 1 + TapsPerPeak + 1}
    BY <2>1 DEF SlopeTaps
  <2> HIDE DEF SlopeTaps
  <2> QED BY <2>2, Halves, PeakAssumption, SMT DEF Tap, PeakAssumption
<1> QED BY <1>1, <1>2

(* The window new[] leaves uninitialised is written completely, and no     *)
(* store of CalculateWindows leaves it, for every odd size from ten up.    *)
THEOREM WindowWritten ==
  WindowSize >= 10 => WrittenTaps = Tap
BY EveryTapWritten, OnlyTapsWritten

(* ApplyWindowFunction: for every bin, every addend is read within the     *)
(* spectrum and within the window, also where the window hangs over an     *)
(* edge, and the window stays centred on the bin.                          *)
THEOREM ReadsWithinBounds ==
  ASSUME NEW bin \in Bin, NEW k \in Nat, k < Addends(bin)
  PROVE  /\ BinRead(bin, k) \in Bin /\ TapRead(bin, k) \in Tap
         /\ BinRead(bin, k) - bin = TapRead(bin, k) - HalfWindow
BY Halves, PeakAssumption, SMT
   DEF PeakAssumption, Bin, Tap, Addends, BinRead, TapRead, FirstBin, FirstTap, EndTap,
       Larger, Smaller


-----------------------------------------------------------------------------
(* Induction, for the recursive functions below.  The library's theorems   *)
(* take the statement to be proved as an operator; this takes the set of   *)
(* the numbers it is true of, and rests on Nat being well-founded.         *)

Below == {pair \in Nat \X Nat : pair[1] < pair[2]}

LEMMA SetInduction ==
  ASSUME NEW S, 0 \in S, \A n \in Nat : n \in S => n + 1 \in S
  PROVE  Nat \subseteq S
<1> DEFINE T == Nat \ S
<1> SUFFICES ASSUME T # {} PROVE FALSE
  OBVIOUS
<1>1. IsWellFoundedOn(Below, Nat)
  BY NatLessThanWellFounded, Zenon DEF OpToRel, Below
<1>2. PICK least \in T : \A n \in T : <<n, least>> \notin Below
  BY <1>1, WFMin, Zenon
<1>3. least \in Nat /\ least # 0 /\ least - 1 \in Nat /\ (least - 1) + 1 = least
  OBVIOUS
<1>4. least - 1 \in T
  BY <1>2, <1>3
<1>5. <<least - 1, least>> \in Below
  BY <1>3 DEF Below
<1> QED BY <1>2, <1>4, <1>5

(* What ApplyWindowFunction adds up are levels again.                      *)
LEMMA LevelsSummed ==
  ASSUME NEW levels \in [Bin -> Nat]
  PROVE  ApplyWindowFunction(levels) \in [Bin -> Nat]
<1> SUFFICES ASSUME NEW bin \in Bin PROVE ApplyWindowFunction(levels)[bin] \in Nat
  BY DEF ApplyWindowFunction
<1>1. CASE WindowSize = 1
  BY <1>1 DEF ApplyWindowFunction
<1>2. CASE WindowSize # 1
  <2> DEFINE m == Addends(bin)
             Addend(n) == levels[BinRead(bin, n - 1)] * m_windowFuncube[TapRead(bin, n - 1)]
             IsSum(g) == g = [n \in 0 .. m |-> IF n = 0 THEN 0 ELSE g[n - 1] + Addend(n)]
             sum == CHOOSE g : IsSum(g)
  <2>1. m \in Nat
    BY Halves, PeakAssumption, SMT
       DEF PeakAssumption, Bin, Addends, FirstTap, EndTap, Larger, Smaller
  <2>2. \A n \in 1 .. m : Addend(n) \in Nat
    <3> SUFFICES ASSUME NEW n \in 1 .. m PROVE Addend(n) \in Nat
      OBVIOUS
    <3>1. BinRead(bin, n - 1) \in Bin /\ TapRead(bin, n - 1) \in Tap
      BY <2>1, ReadsWithinBounds
    <3>2. m_windowFuncube[TapRead(bin, n - 1)] \in Nat
      BY <3>1 DEF m_windowFuncube
    <3>3. levels[BinRead(bin, n - 1)] \in Nat
      BY <3>1
    <3> QED BY <3>2, <3>3
  <2>3. ApplyWindowFunction(levels)[bin] = sum[m]
    BY <1>2 DEF ApplyWindowFunction
  <2> HIDE DEF m, Addend
  (* The sums up to n exist, for every n: the function is well defined.    *)
  <2>4. \E g : IsSum(g)
    <3> DEFINE S == {k \in Nat : k <= m =>
                       \E g \in [0 .. k -> Nat] :
                         g = [n \in 0 .. k |-> IF n = 0 THEN 0 ELSE g[n - 1] + Addend(n)]}
    <3>1. 0 \in S
      <4> DEFINE g == [n \in 0 .. 0 |-> 0]
      <4>1. g \in [0 .. 0 -> Nat] /\ g = [n \in 0 .. 0 |-> IF n = 0 THEN 0 ELSE g[n - 1] + Addend(n)]
        OBVIOUS
      <4> QED BY <4>1
    <3>2. ASSUME NEW k \in Nat, k \in S PROVE k + 1 \in S
      <4> SUFFICES ASSUME k + 1 <= m
                   PROVE  \E g \in [0 .. k + 1 -> Nat] :
                            g = [n \in 0 .. k + 1 |-> IF n = 0 THEN 0 ELSE g[n - 1] + Addend(n)]
        OBVIOUS
      <4>1. PICK h \in [0 .. k -> Nat] :
              h = [n \in 0 .. k |-> IF n = 0 THEN 0 ELSE h[n - 1] + Addend(n)]
        BY <2>1, <3>2
      <4> DEFINE g == [n \in 0 .. k + 1 |-> IF n = k + 1 THEN h[k] + Addend(k + 1) ELSE h[n]]
      <4>2. h[k] + Addend(k + 1) \in Nat
        BY <2>1, <2>2
      <4>3. g \in [0 .. k + 1 -> Nat]
        BY <4>2
      <4>4. ASSUME NEW n \in 0 .. k + 1
            PROVE  g[n] = IF n = 0 THEN 0 ELSE g[n - 1] + Addend(n)
        <5>1. CASE n = k + 1
          BY <5>1
        <5>2. CASE n # k + 1
          <6>1. n \in 0 .. k /\ (n # 0 => n - 1 \in 0 .. k)
            BY <5>2
          <6>2. h[n] = IF n = 0 THEN 0 ELSE h[n - 1] + Addend(n)
            BY <4>1, <6>1
          <6>3. g[n] = h[n] /\ (n # 0 => g[n - 1] = h[n - 1])
            BY <5>2, <6>1
          <6> QED BY <6>2, <6>3
        <5> QED BY <5>1, <5>2
      <4>5. g = [n \in 0 .. k + 1 |-> IF n = 0 THEN 0 ELSE g[n - 1] + Addend(n)]
        BY <4>4
      <4> QED BY <4>3, <4>5
    <3>3. m \in S
      <4> HIDE DEF S
      <4> QED BY <2>1, <3>1, <3>2, SetInduction
    <3>4. m <= m
      BY <2>1
    <3> QED BY <3>3, <3>4, Zenon
  <2>5. IsSum(sum)
    <3> HIDE DEF IsSum
    <3> QED BY <2>4
  <2> HIDE DEF sum
  <2>6. \A n \in 0 .. m : sum[n] = IF n = 0 THEN 0 ELSE sum[n - 1] + Addend(n)
    BY <2>5
  <2>7. sum[m] \in Nat
    <3> DEFINE S == {k \in Nat : k <= m => sum[k] \in Nat}
    <3>1. 0 \in S
      BY <2>1, <2>6
    <3>2. ASSUME NEW k \in Nat, k \in S PROVE k + 1 \in S
      <4> SUFFICES ASSUME k + 1 <= m PROVE sum[k + 1] \in Nat
        OBVIOUS
      <4>1. k + 1 \in 0 .. m /\ k + 1 # 0 /\ (k + 1) - 1 = k /\ sum[k] \in Nat
        BY <2>1, <3>2
      <4>2. sum[k + 1] = sum[k] + Addend(k + 1)
        BY <2>6, <4>1
      <4> QED BY <2>1, <2>2, <4>1, <4>2
    <3> HIDE DEF S
    <3>3. m \in S
      BY <2>1, <3>1, <3>2, SetInduction
    <3> QED BY <2>1, <3>3 DEF S
  <2> QED BY <2>3, <2>7
<1> QED BY <1>1, <1>2

(* The search for the strongest finds one, if there is one to be found.    *)
LEMMA StrongestFound ==
  ASSUME NEW bins \in [Bin -> Nat], NEW candidates,
         candidates \subseteq 1 .. NumBins - 2, candidates # {}
  PROVE  /\ Strongest(bins, candidates) \in candidates
         /\ \A other \in candidates : bins[other] <= bins[Strongest(bins, candidates)]
<1> DEFINE Wins(bin, C) == \A other \in C :
                             bins[other] < bins[bin] \/ (bins[other] = bins[bin] /\ bin <= other)
           S == {n \in Nat : \A C \in SUBSET (1 .. n) :
                   C # {} /\ C \subseteq Bin => \E bin \in C : Wins(bin, C)}
<1>1. 0 \in S
  <2>1. 1 .. 0 = {} /\ 0 \in Nat
    OBVIOUS
  <2> QED BY <2>1, Zenon
<1>2. ASSUME NEW n \in Nat, n \in S PROVE n + 1 \in S
  <2> SUFFICES ASSUME NEW C \in SUBSET (1 .. n + 1), C # {}, C \subseteq Bin
               PROVE  \E bin \in C : Wins(bin, C)
    OBVIOUS
  <2> DEFINE D == C \ {n + 1}
  <2>1. D \in SUBSET (1 .. n) /\ D \subseteq Bin
    OBVIOUS
  <2>2. \A bin \in C : bins[bin] \in Nat /\ bin \in Nat
    BY DEF Bin
  <2>3. CASE D = {}
    <3>1. C = {n + 1}
      BY <2>3
    <3> QED BY <2>2, <3>1
  <2>4. CASE D # {}
    <3>1. PICK bin \in D : Wins(bin, D)
      BY <1>2, <2>1, <2>4
    <3>2. CASE n + 1 \in C /\ bins[bin] < bins[n + 1]
      <4>1. ASSUME NEW other \in C, other # n + 1 PROVE bins[other] < bins[n + 1]
        BY <2>2, <3>1, <3>2, <4>1
      <4> QED BY <2>2, <3>2, <4>1
    <3>3. CASE n + 1 \in C /\ ~(bins[bin] < bins[n + 1])
      <4>1. bin <= n + 1 /\ (bins[n + 1] < bins[bin] \/ bins[n + 1] = bins[bin])
        BY <2>1, <2>2, <3>3
      <4>2. Wins(bin, C)
        BY <3>1, <4>1
      <4> QED BY <4>2
    <3>4. CASE n + 1 \notin C
      <4>1. D = C
        BY <3>4
      <4> QED BY <3>1, <4>1
    <3> QED BY <3>2, <3>3, <3>4
  <2> QED BY <2>3, <2>4
<1>3. candidates \subseteq Bin /\ NumBins - 2 \in Nat
  <2>1. PICK bin \in candidates : bin \in 1 .. NumBins - 2
    OBVIOUS
  <2>2. NumBins \in Nat
    BY PeakAssumption DEF PeakAssumption
  <2> QED BY <2>1, <2>2 DEF Bin
<1>4. \E bin \in candidates : Wins(bin, candidates)
  <2>1. NumBins - 2 \in S
    <3> HIDE DEF S
    <3> QED BY <1>1, <1>2, <1>3, SetInduction
  <2> QED BY <1>3, <2>1
<1>5. Strongest(bins, candidates) \in candidates /\ Wins(Strongest(bins, candidates), candidates)
  BY <1>4, Zenon DEF Strongest
<1>6. ASSUME NEW bin \in candidates, Wins(bin, candidates)
      PROVE  \A other \in candidates : bins[other] <= bins[bin]
  <2>1. \A other \in candidates : bins[other] \in Nat
    BY <1>3
  <2> QED BY <1>6, <2>1
<1> QED BY <1>5, <1>6

(* What is left to be found after the first n of a list of peaks.          *)
LeftAfter(bins, peaks, n, exclude, low, high) ==
  Candidates(bins, {peaks[k] : k \in 1 .. n}, exclude, low, high)

(* The peaks are, one after the other, a strongest of those left, no more  *)
(* than asked for and no more than there is room for; when they are fewer  *)
(* none is left.                                                           *)
StrongestFirst(bins, peaks, numPeaks, exclude, low, high) ==
  /\ peaks \in Seq(1 .. NumBins - 2)
  /\ Len(peaks) <= Smaller(numPeaks, MaxPeaks)
  /\ \A i \in 1 .. Len(peaks) :
       /\ peaks[i] \in LeftAfter(bins, peaks, i - 1, exclude, low, high)
       /\ \A other \in LeftAfter(bins, peaks, i - 1, exclude, low, high) :
            bins[other] <= bins[peaks[i]]
  /\ Len(peaks) < Smaller(numPeaks, MaxPeaks)
       => LeftAfter(bins, peaks, Len(peaks), exclude, low, high) = {}

(* CalcPeaks: whatever the spectrum, the limits and the excluded bins, it  *)
(* finds a strongest peak that is in range and away from the excluded bins *)
(* and from those it found before, until it has all or there are no more.  *)
THEOREM PeakSearch ==
  ASSUME NEW bins \in [Bin -> Nat], NEW numPeaks \in Nat, NEW exclude, NEW low, NEW high
  PROVE  StrongestFirst(bins, CalcPeaks(bins, numPeaks, exclude, low, high),
                        numPeaks, exclude, low, high)
<1> DEFINE m == Smaller(numPeaks, MaxPeaks)
           Left(s, n) == LeftAfter(bins, s, n, exclude, low, high)
           Extended(s, n) == IF Left(s, Len(s)) = {} \/ Len(s) < n - 1 THEN s
                             ELSE Append(s, Strongest(bins, Left(s, Len(s))))
           IsSearch(g) == g = [n \in 0 .. m |-> IF n = 0 THEN <<>> ELSE Extended(g[n - 1], n)]
           search == CHOOSE g : IsSearch(g)
           Good(s, n) == /\ s \in Seq(1 .. NumBins - 2) /\ Len(s) <= n
                         /\ \A i \in 1 .. Len(s) :
                              /\ s[i] \in Left(s, i - 1)
                              /\ \A other \in Left(s, i - 1) : bins[other] <= bins[s[i]]
                         /\ Len(s) < n => Left(s, Len(s)) = {}
<1>1. m \in Nat
  BY PeakAssumption DEF PeakAssumption, Smaller
<1>2. CalcPeaks(bins, numPeaks, exclude, low, high) = search[m]
  BY Zenon DEF CalcPeaks, LeftAfter
<1>3. Good(<<>>, 0)
  OBVIOUS
<1>4. ASSUME NEW s, NEW n \in Nat, Good(s, n) PROVE Good(Extended(s, n + 1), n + 1)
  <2>1. s \in Seq(1 .. NumBins - 2) /\ Len(s) \in Nat /\ Len(s) <= n
    BY <1>4
  <2>2. CASE Left(s, Len(s)) = {}
    <3>1. Extended(s, n + 1) = s
      BY <2>2
    <3>2. Len(s) <= n + 1
      BY <2>1
    <3> HIDE DEF Left, Extended
    <3> QED BY <1>4, <2>2, <3>1, <3>2
  <2>3. CASE Left(s, Len(s)) # {}
    <3> DEFINE best == Strongest(bins, Left(s, Len(s)))
               more == Append(s, best)
    <3>1. Len(s) = n /\ ~(Len(s) < (n + 1) - 1)
      BY <1>4, <2>1, <2>3
    <3>2. Extended(s, n + 1) = more
      BY <2>3, <3>1
    <3>3. Left(s, Len(s)) \subseteq 1 .. NumBins - 2
      BY DEF LeftAfter, Candidates
    <3>4. /\ best \in Left(s, Len(s)) /\ best \in 1 .. NumBins - 2
          /\ \A other \in Left(s, Len(s)) : bins[other] <= bins[best]
      BY <2>3, <3>3, StrongestFound
    <3> HIDE DEF best
    <3>5. /\ more \in Seq(1 .. NumBins - 2) /\ Len(more) = n + 1
          /\ \A k \in 1 .. n : more[k] = s[k]
          /\ more[n + 1] = best
      BY <2>1, <3>1, <3>4
    <3> HIDE DEF more
    <3>6. ASSUME NEW k \in 0 .. n PROVE Left(more, k) = Left(s, k)
      <4>1. {more[j] : j \in 1 .. k} = {s[j] : j \in 1 .. k}
        BY <3>5
      <4> QED BY <4>1 DEF LeftAfter
    <3> HIDE DEF Left
    <3>7. ASSUME NEW i \in 1 .. n + 1
          PROVE  /\ more[i] \in Left(more, i - 1)
                 /\ \A other \in Left(more, i - 1) : bins[other] <= bins[more[i]]
      <4>1. i - 1 \in 0 .. n /\ Left(more, i - 1) = Left(s, i - 1)
        BY <3>6
      <4>2. CASE i = n + 1
        <5>1. i - 1 = Len(s)
          BY <3>1, <4>2
        <5> QED BY <3>4, <3>5, <4>1, <4>2, <5>1
      <4>3. CASE i # n + 1
        <5>1. i \in 1 .. n /\ i \in 1 .. Len(s)
          BY <3>1, <4>3
        <5> QED BY <1>4, <3>5, <4>1, <5>1
      <4> QED BY <4>2, <4>3
    <3>8. Good(more, n + 1)
      BY <3>5, <3>7
    <3> QED BY <3>2, <3>8
  <2> QED BY <2>2, <2>3
<1> HIDE DEF m, Extended, Good
(* The searches up to n exist, for every n: the function is well defined.  *)
<1>5. \E g : IsSearch(g)
  <2> DEFINE S == {k \in Nat :
                     \E g : g = [n \in 0 .. k |-> IF n = 0 THEN <<>> ELSE Extended(g[n - 1], n)]}
  <2>1. 0 \in S
    <3> DEFINE g == [n \in 0 .. 0 |-> <<>>]
    <3>1. g = [n \in 0 .. 0 |-> IF n = 0 THEN <<>> ELSE Extended(g[n - 1], n)]
      OBVIOUS
    <3> QED BY <3>1
  <2>2. ASSUME NEW k \in Nat, k \in S PROVE k + 1 \in S
    <3>1. PICK h : h = [n \in 0 .. k |-> IF n = 0 THEN <<>> ELSE Extended(h[n - 1], n)]
      BY <2>2
    <3> DEFINE g == [n \in 0 .. k + 1 |-> IF n = k + 1 THEN Extended(h[k], k + 1) ELSE h[n]]
    <3>2. ASSUME NEW n \in 0 .. k + 1
          PROVE  g[n] = IF n = 0 THEN <<>> ELSE Extended(g[n - 1], n)
      <4>1. CASE n = k + 1
        <5>1. n # 0 /\ n - 1 = k /\ g[k] = h[k] /\ g[n] = Extended(h[k], k + 1)
          BY <4>1
        <5> QED BY <4>1, <5>1
      <4>2. CASE n # k + 1
        <5>1. n \in 0 .. k /\ (n # 0 => n - 1 \in 0 .. k)
          BY <4>2
        <5>2. h[n] = IF n = 0 THEN <<>> ELSE Extended(h[n - 1], n)
          BY <3>1, <5>1
        <5>3. g[n] = h[n] /\ (n # 0 => g[n - 1] = h[n - 1])
          BY <4>2, <5>1
        <5> QED BY <5>2, <5>3
      <4> QED BY <4>1, <4>2
    <3>3. g = [n \in 0 .. k + 1 |-> IF n = 0 THEN <<>> ELSE Extended(g[n - 1], n)]
      BY <3>2
    <3>4. \E f : f = [n \in 0 .. k + 1 |-> IF n = 0 THEN <<>> ELSE Extended(f[n - 1], n)]
      <4> HIDE DEF g
      <4> QED BY <3>3
    <3> QED BY <3>4
  <2>3. m \in S
    <3> HIDE DEF S
    <3> QED BY <1>1, <2>1, <2>2, SetInduction
  <2> QED BY <2>3, Zenon
<1>6. IsSearch(search)
  <2> HIDE DEF IsSearch
  <2> QED BY <1>5
<1> HIDE DEF search
<1>7. \A n \in 0 .. m : search[n] = IF n = 0 THEN <<>> ELSE Extended(search[n - 1], n)
  BY <1>6
<1>8. Good(search[m], m)
  <2> DEFINE S == {k \in Nat : k <= m => Good(search[k], k)}
  <2>1. 0 \in S
    <3>1. search[0] = <<>>
      BY <1>1, <1>7
    <3> QED BY <1>3, <3>1
  <2>2. ASSUME NEW k \in Nat, k \in S PROVE k + 1 \in S
    <3> SUFFICES ASSUME k + 1 <= m PROVE Good(search[k + 1], k + 1)
      OBVIOUS
    <3>1. k + 1 \in 0 .. m /\ k + 1 # 0 /\ (k + 1) - 1 = k /\ Good(search[k], k)
      BY <1>1, <2>2
    <3>2. search[k + 1] = Extended(search[k], k + 1)
      BY <1>7, <3>1
    <3> QED BY <1>4, <3>1, <3>2
  <2> HIDE DEF S
  <2>3. m \in S
    BY <1>1, <2>1, <2>2, SetInduction
  <2>4. m <= m
    BY <1>1
  <2> QED BY <2>3, <2>4 DEF S
<1>9. StrongestFirst(bins, search[m], numPeaks, exclude, low, high)
  BY <1>8 DEF StrongestFirst, Good, m
<1> QED BY <1>2, <1>9

-----------------------------------------------------------------------------
(* Type correctness. *)

LEMMA TailFacts ==
  ASSUME NEW S, NEW s \in Seq(S), s # <<>>
  PROVE  /\ Head(s) \in S /\ Tail(s) \in Seq(S)
         /\ Len(s) \in Nat \ {0} /\ Len(Tail(s)) = Len(s) - 1
         /\ Head(s) = s[1]
         /\ \A i \in 1 .. Len(Tail(s)) : Tail(s)[i] = s[i + 1]
OBVIOUS

DecoderState == [signal : Bin, retune : Elapsed, decode : Elapsed, queue : 0 .. 1]

LEMMA ElapsedTypes ==
  /\ AgeCap \in Nat /\ Restarted \in Elapsed /\ Cleared \in Elapsed /\ NeverStarted \in Elapsed
  /\ \A elapsed \in Elapsed : Incremented(elapsed) \in Elapsed
BY AllocationAssumption
   DEF AllocationAssumption, Elapsed, NeverStarted, Restarted, Cleared, Incremented, Smaller

LEMMA Tuned ==
  ASSUME NEW d \in DecoderState, NEW bin \in Bin
  PROVE  /\ SetTuneFrequency(d, bin) \in DecoderState
         /\ SetTuneFrequency(d, bin).signal = bin
         /\ SetTuneFrequency(d, bin).queue = d.queue
BY ElapsedTypes DEF SetTuneFrequency, DecoderState

(* A peak is a bin; what the calculation yields is a list of bins.         *)
PeaksOf(bins, exclude, peaks) ==
  /\ peaks \in Seq(Bin)
  /\ \A i \in 1 .. Len(peaks) : peaks[i] \notin exclude /\ peaks[i] \in Peaks(bins)
  /\ \A i, j \in 1 .. Len(peaks) : i < j => peaks[i] # peaks[j]

LEMMA Calculated ==
  ASSUME NEW bins \in Spectra, NEW numPeaks \in Nat, NEW exclude, NEW low, NEW high
  PROVE  PeaksOf(bins, exclude,
                 CalcPeaks(ApplyWindowFunction(bins), numPeaks, exclude, low, high))
<1> DEFINE peaks  == CalcPeaks(ApplyWindowFunction(bins), numPeaks, exclude, low, high)
           summed == ApplyWindowFunction(bins)
<1>1. summed \in [Bin -> Nat]
  BY LevelsSummed, AllocationAssumption DEF AllocationAssumption
<1>2. peaks = CalcPeaks(summed, numPeaks, exclude, low, high)
  OBVIOUS
<1> HIDE DEF summed, peaks
<1>3. /\ peaks \in Seq(1 .. NumBins - 2)
      /\ \A i \in 1 .. Len(peaks) : peaks[i] \in LeftAfter(summed, peaks, i - 1, exclude, low, high)
  <2>1. StrongestFirst(summed, peaks, numPeaks, exclude, low, high)
    BY <1>1, <1>2, PeakSearch
  <2> QED BY <2>1, Zenon DEF StrongestFirst
<1>4. NumBins \in Nat /\ MinDistance \in Nat /\ UintModulus \in Nat \ {0}
  BY PeakAssumption DEF PeakAssumption
<1>5. \A bin \in 1 .. NumBins - 2 : TooClose(bin, bin)
  BY <1>4 DEF TooClose
<1>6. ASSUME NEW i \in 1 .. Len(peaks)
      PROVE  /\ peaks[i] \in 1 .. NumBins - 2
             /\ summed[peaks[i] - 1] < summed[peaks[i]] /\ summed[peaks[i]] > summed[peaks[i] + 1]
             /\ summed[peaks[i]] > 0
             /\ IsLonePeak(peaks[i], {peaks[k] : k \in 1 .. i - 1}, exclude)
  BY <1>3 DEF LeftAfter, Candidates
<1>7. ASSUME NEW i \in 1 .. Len(peaks) PROVE peaks[i] \notin exclude /\ peaks[i] \in Peaks(bins)
  <2>1. peaks[i] \notin exclude
    BY <1>5, <1>6 DEF IsLonePeak
  <2>2. IsInRange(peaks[i], 0, NumBins) /\ IsLonePeak(peaks[i], {}, {})
    BY <1>4, <1>6 DEF IsInRange, IsLonePeak
  <2> QED BY <1>6, <2>1, <2>2 DEF Peaks, Candidates, summed
<1>8. ASSUME NEW i \in 1 .. Len(peaks), NEW j \in 1 .. Len(peaks), i < j PROVE peaks[i] # peaks[j]
  <2>1. peaks[i] \in {peaks[k] : k \in 1 .. j - 1}
    BY <1>3, <1>8
  <2> QED BY <1>5, <1>6, <2>1 DEF IsLonePeak
<1>9. peaks \in Seq(Bin)
  BY <1>3, <1>4 DEF Bin
<1> QED BY <1>7, <1>8, <1>9 DEF PeaksOf, peaks

(* The decoder the manager is about to tune is one there is, and there is  *)
(* a peak left for it: the test came just before, and nobody else takes    *)
(* peaks.                                                                  *)
TuneReady == mgrPc = "tune" => idx \in 1 .. MaxDecoders /\ peakPos # <<>>

LEMMA ConstantTypes ==
  /\ MaxDecoders \in Nat \ {0} /\ Counts \subseteq 1 .. MaxDecoders
  /\ MaxCalc \in Nat \ {0} /\ ExcludeShift \in Nat /\ CentreBin \in Bin /\ ManualBin \in Bin
  /\ Ranges \subseteq Bin \X Bin /\ MaxChanges \in Nat
  /\ NumBins \in Nat \ {0} /\ Bin \subseteq 0 .. NumBins /\ Bin \subseteq Nat
BY AllocationAssumption, PeakAssumption DEF AllocationAssumption, PeakAssumption, Bin

LEMMA TypeInit == Init => TypeOK /\ TuneReady
<1> SUFFICES ASSUME Init PROVE TypeOK /\ TuneReady
  OBVIOUS
<1> USE DEF Init
<1>1. m_decoders \in [1 .. MaxDecoders -> DecoderState]
  BY ConstantTypes, ElapsedTypes DEF DecoderState
<1>2. /\ 1 \in 1 .. MaxDecoders + 1 /\ 0 \in 0 .. MaxCalc /\ 0 \in 0 .. NumBins
      /\ NumBins \in 0 .. NumBins /\ 0 \in 0 .. MaxChanges /\ sinceCheck \in Elapsed
  BY ConstantTypes, ElapsedTypes
<1>3. <<>> \in Seq(Bin)
  OBVIOUS
<1> QED BY <1>1, <1>2, <1>3 DEF TypeOK, TuneReady, DecoderState

LEMMA TypeNext ==
  ASSUME TypeOK, TuneReady, [Next]_vars
  PROVE  TypeOK' /\ TuneReady'
<1> USE DEF manager, checking, request, result, spectrum, app, TypeOK, TuneReady
<1>0. /\ m_decoders \in [1 .. MaxDecoders -> DecoderState]
      /\ m_decoderNum \in 1 .. MaxDecoders /\ Fed \subseteq 1 .. MaxDecoders
  BY ConstantTypes DEF DecoderState, Fed
<1>1. CASE Execute
  BY <1>1, ElapsedTypes DEF Execute
<1>2. CASE CheckTooSoon
  BY <1>2 DEF CheckTooSoon
<1>3. CASE StartCount
  BY <1>3, <1>0, ElapsedTypes, ConstantTypes DEF StartCount
<1>18. CASE CountDecoder
  <2>1. idx \in 1 .. MaxDecoders /\ m_decoders[idx].signal \in Bin
    <3>1. idx \in 1 .. MaxDecoders
      BY <1>0, <1>18, ConstantTypes DEF CountDecoder
    <3> QED BY <1>0, <3>1 DEF DecoderState
  <2>2. UintModulus \in Nat \ {0} /\ idx + 1 \in 1 .. MaxDecoders + 1
    BY <2>1, ConstantTypes, PeakAssumption DEF PeakAssumption
  <2>3. (availDecoders - 1) % UintModulus \in Nat
    BY <2>2
  <2>4. /\ idx' = idx + 1
        /\ busyBins' = busyBins \/ busyBins' = busyBins \cup {m_decoders[idx].signal}
        /\ availDecoders' = availDecoders \/ availDecoders' = (availDecoders - 1) % UintModulus
    BY <1>18 DEF CountDecoder
  <2>5. UNCHANGED <<m_decoders, mgrPc, sinceCheck, peakPos, claimsUsed, request, result,
                    m_calcComplete, grabbed, spectrum, app>>
    BY <1>18 DEF CountDecoder
  <2>6. idx' \in 1 .. MaxDecoders + 1 /\ busyBins' \subseteq Bin /\ availDecoders' \in Nat
    BY <2>1, <2>2, <2>3, <2>4
  <2>7. mgrPc # "tune"
    BY <1>18 DEF CountDecoder
  <2> QED BY <2>5, <2>6, <2>7
<1>19. CASE TriggerPeakCalc
  <2>1. /\ mgrPc' = "updated" /\ idx' = 1 /\ availDecoders' = 0 /\ busyBins' = {}
        /\ UNCHANGED <<m_decoders, sinceCheck, peakPos, claimsUsed, result, m_calcComplete,
                       grabbed, spectrum, app>>
    BY <1>19 DEF TriggerPeakCalc
  <2>2. \/ UNCHANGED request
        \/ /\ m_excludeBins' = Excluded(busyBins)
           /\ m_numCalcPeaks' = Smaller(availDecoders, MaxCalc)
           /\ m_calcNeeded' = TRUE
           /\ claims' = busyBins
    BY <1>19 DEF TriggerPeakCalc
  <2>3. Excluded(busyBins) \subseteq ExcludeBin
    <3>1. busyBins \subseteq Bin /\ NumBins \in Nat \ {0} /\ ExcludeShift \in Nat
      BY ConstantTypes
    <3>2. \A bin \in busyBins : bin + ExcludeShift \in 0 .. NumBins - 1 + ExcludeShift
      BY ONLY <3>1 DEF Bin
    <3> QED BY ONLY <3>2 DEF Excluded, ExcludeBin
  <2>4. Smaller(availDecoders, MaxCalc) \in 0 .. MaxCalc
    BY ConstantTypes DEF Smaller
  <2>5. /\ m_excludeBins' \subseteq ExcludeBin /\ m_numCalcPeaks' \in 0 .. MaxCalc
        /\ m_calcNeeded' \in BOOLEAN /\ claims' \subseteq Bin
    BY <2>2, <2>3, <2>4
  <2> QED BY <2>1, <2>5, ConstantTypes
<1>4. CASE PeakCalcUpdated \/ GetPeaks
  BY <1>4 DEF PeakCalcUpdated, GetPeaks
<1>5. CASE Sort
  <2>1. PICK order \in Orders : m_decoders' = [d \in 1 .. MaxDecoders |-> m_decoders[order[d]]]
    BY <1>5 DEF Sort
  <2>2. order \in [1 .. MaxDecoders -> 1 .. MaxDecoders]
    BY DEF Orders
  <2>3. m_decoders' \in [1 .. MaxDecoders -> DecoderState]
    BY <1>0, <2>1, <2>2
  <2>4. idx' \in 1 .. MaxDecoders + 1 /\ mgrPc' = "test"
    BY <1>5, ConstantTypes DEF Sort
  <2>5. UNCHANGED <<checking, peakPos, claimsUsed, request, result, m_calcComplete, grabbed,
                    spectrum, app>>
    BY <1>5 DEF Sort
  <2> QED BY <2>3, <2>4, <2>5 DEF DecoderState
<1>6. CASE TestDecoder
  <2>1. /\ idx' \in 1 .. MaxDecoders + 1 /\ mgrPc' \in {"test", "tune", "feed"}
        /\ mgrPc' = "tune" => idx' \in 1 .. MaxDecoders /\ peakPos' # <<>>
        /\ peakPos' \in Seq(Bin)
    <3>1. CASE mgrPc' = "feed" /\ peakPos' = <<>> /\ idx' = 1
      BY <3>1, ConstantTypes
    <3>2. CASE /\ idx <= m_decoderNum /\ peakPos # <<>> /\ peakPos' = peakPos
               /\ \/ mgrPc' = "tune" /\ idx' = idx
                  \/ mgrPc' = mgrPc /\ idx' = idx + 1
      BY <1>0, <1>6, <3>2, ConstantTypes DEF TestDecoder
    <3> QED BY <1>6, <3>1, <3>2 DEF TestDecoder
  <2>2. UNCHANGED <<m_decoders, checking, claimsUsed, request, result, m_calcComplete,
                    grabbed, spectrum, app>>
    BY <1>6 DEF TestDecoder
  <2> QED BY <2>1, <2>2
<1>7. CASE Tune
  <2>1. /\ mgrPc = "tune" /\ mgrPc' = "test"
        /\ m_decoders' = [m_decoders EXCEPT ![idx] = SetTuneFrequency(m_decoders[idx], Head(peakPos))]
        /\ peakPos' = Tail(peakPos) /\ idx' = idx + 1
        /\ claimsUsed' = claimsUsed \cup {Head(peakPos)}
    BY <1>7 DEF Tune
  <2>2. Head(peakPos) \in Bin /\ Tail(peakPos) \in Seq(Bin)
    BY <2>1, TailFacts
  <2>3. SetTuneFrequency(m_decoders[idx], Head(peakPos)) \in DecoderState
    BY <1>0, <2>1, <2>2, Tuned
  <2>4. m_decoders' \in [1 .. MaxDecoders -> DecoderState]
    BY <1>0, <2>1, <2>3
  <2>5. idx' \in 1 .. MaxDecoders + 1 /\ claimsUsed' \subseteq Bin
    <3>1. idx \in 1 .. MaxDecoders /\ claimsUsed \subseteq Bin
      BY <2>1
    <3>2. idx + 1 \in 1 .. MaxDecoders + 1
      BY ONLY <3>1, ConstantTypes
    <3>3. claimsUsed' \subseteq Bin
      BY ONLY <2>1, <2>2, <3>1
    <3> QED BY <2>1, <3>2, <3>3
  <2>6. UNCHANGED <<checking, request, result, m_calcComplete, grabbed, spectrum, app>>
    BY <1>7 DEF Tune
  <2> QED BY <2>1, <2>2, <2>4, <2>5, <2>6 DEF DecoderState
<1>8. CASE Feed
  <2>1. /\ m_decoders' = [d \in 1 .. MaxDecoders |->
                            IF d \in Fed THEN [m_decoders[d] EXCEPT !.queue = m_decoders[d].queue + 1]
                            ELSE m_decoders[d]]
        /\ mgrPc' = "idle" /\ \A d \in 1 .. MaxDecoders : m_decoders[d].queue = 0
    BY <1>8 DEF Feed, AllTaken
  <2>2. m_decoders' \in [1 .. MaxDecoders -> DecoderState]
    <3>1. ASSUME NEW d \in 1 .. MaxDecoders
          PROVE  [m_decoders[d] EXCEPT !.queue = m_decoders[d].queue + 1] \in DecoderState
      <4>1. m_decoders[d] \in DecoderState /\ m_decoders[d].queue + 1 \in 0 .. 1
        BY <1>0, <2>1
      <4> QED BY ONLY <4>1 DEF DecoderState
    <3> QED BY <1>0, <2>1, <3>1
  <2>3. UNCHANGED <<idx, checking, peakPos, claimsUsed, request, result, m_calcComplete,
                    grabbed, spectrum, app>>
    BY <1>8 DEF Feed
  <2> QED BY <2>1, <2>2, <2>3 DEF DecoderState
<1>9. CASE ManualTune
  <2> DEFINE tuned == SetTuneFrequency(m_decoders[1], ManualBin)
  <2>1. /\ m_decoders' = [m_decoders EXCEPT ![1] = [tuned EXCEPT !.queue = tuned.queue + 1]]
        /\ mgrPc' = "idle" /\ m_decoders[1].queue = 0 /\ 1 \in 1 .. MaxDecoders
    <3>1. 1 \in 1 .. MaxDecoders
      BY ConstantTypes
    <3>2. /\ m_decoders' = [m_decoders EXCEPT ![1] = [tuned EXCEPT !.queue = tuned.queue + 1]]
          /\ mgrPc' = "idle"
      BY <1>9 DEF ManualTune
    <3>3. m_decoders[1].queue = 0
      BY <1>9, <3>1 DEF ManualTune, AllTaken
    <3> QED BY <3>1, <3>2, <3>3
  <2>2. tuned \in DecoderState /\ tuned.queue = 0
    BY <1>0, <2>1, ConstantTypes, Tuned
  <2> HIDE DEF tuned
  <2>3. [tuned EXCEPT !.queue = tuned.queue + 1] \in DecoderState
    BY <2>2 DEF DecoderState
  <2>4. m_decoders' \in [1 .. MaxDecoders -> DecoderState]
    BY <1>0, <2>1, <2>3
  <2>5. UNCHANGED <<idx, checking, peakPos, claimsUsed, request, result, m_calcComplete,
                    grabbed, spectrum, app>>
    BY <1>9 DEF ManualTune
  <2> QED BY <2>1, <2>4, <2>5 DEF DecoderState
<1>10. CASE CheckCalcNeeded
  BY <1>10 DEF CheckCalcNeeded
<1>11. CASE Calculate
  <2>1. m_peakBins' = CalcPeaks(ApplyWindowFunction(m_binsAve), grabbed, m_excludeBins,
                                m_lowLimitBin, m_highLimitBin)
    BY <1>11 DEF Calculate
  <2>2. m_peakBins' \in Seq(Bin)
    <3>1. grabbed \in Nat /\ m_binsAve \in Spectra
      BY ConstantTypes
    <3>2. PeaksOf(m_binsAve, m_excludeBins, m_peakBins')
      BY <2>1, <3>1, Calculated
    <3> QED BY <3>2 DEF PeaksOf
  <2> QED BY <1>11, <2>2, ConstantTypes DEF Calculate
<1>12. ASSUME NEW d \in 1 .. MaxDecoders, ProcessAudio(d) PROVE TypeOK' /\ TuneReady'
  <2> DEFINE heard == [m_decoders[d] EXCEPT !.queue  = m_decoders[d].queue - 1,
                                            !.retune = Incremented(m_decoders[d].retune),
                                            !.decode = Incremented(m_decoders[d].decode)]
  <2>1. /\ m_decoders[d].queue > 0
        /\ \/ m_decoders' = [m_decoders EXCEPT ![d] = heard]
           \/ m_decoders' = [m_decoders EXCEPT ![d] = [heard EXCEPT !.decode = Restarted]]
    BY <1>12 DEF ProcessAudio
  <2>2. heard \in DecoderState
    <3>1. /\ m_decoders[d] \in DecoderState
          /\ m_decoders[d].queue - 1 \in 0 .. 1
          /\ Incremented(m_decoders[d].retune) \in Elapsed
          /\ Incremented(m_decoders[d].decode) \in Elapsed
      BY <1>0, <2>1, ElapsedTypes DEF DecoderState
    <3> QED BY ONLY <3>1 DEF DecoderState
  <2> HIDE DEF heard
  <2>3. [heard EXCEPT !.decode = Restarted] \in DecoderState
    BY <2>2, ElapsedTypes DEF DecoderState
  <2>4. m_decoders' \in [1 .. MaxDecoders -> DecoderState]
    BY <1>0, <2>1, <2>2, <2>3
  <2>5. UNCHANGED <<manager, request, result, m_calcComplete, grabbed, spectrum, app>>
    BY <1>12 DEF ProcessAudio
  <2> QED BY <2>4, <2>5 DEF DecoderState
<1>13. CASE NewSpectrum
  BY <1>13, ConstantTypes DEF NewSpectrum
<1>14. CASE SetWorkerCount \/ SetAutoTuneState
  <2>1. changes' \in 0 .. MaxChanges
    BY <1>14, ConstantTypes DEF SetWorkerCount, SetAutoTuneState
  <2> QED BY <1>14, <2>1 DEF SetWorkerCount, SetAutoTuneState
<1>15. CASE SetLowLimit
  <2>1. PICK range \in Ranges : m_lowLimitBin' = range[1] /\ newHighBin' = range[2]
    BY <1>15 DEF SetLowLimit
  <2>2. m_lowLimitBin' \in 0 .. NumBins /\ newHighBin' \in Bin
    BY <2>1, ConstantTypes
  <2> QED BY <1>15, <2>2, ConstantTypes DEF SetLowLimit
<1>16. CASE SetHighLimit
  BY <1>16, ConstantTypes DEF SetHighLimit
<1>17. CASE UNCHANGED vars
  BY <1>17 DEF vars
<1> QED
  BY <1>1, <1>2, <1>3, <1>4, <1>5, <1>6, <1>7, <1>8, <1>9, <1>10, <1>11, <1>12, <1>13, <1>14,
     <1>15, <1>16, <1>17, <1>18, <1>19 DEF Next, Manager, PeakWorker, Decoders, Application

(* The states are of their types: in particular, a decoder is given no     *)
(* buffer before it has taken the last, no peak is handed to a decoder     *)
(* there is not, and whatever CalcPeaks finds is a bin.                    *)
THEOREM TypeCorrect == Spec => []TypeOK
<1>1. Init => TypeOK /\ TuneReady
  BY TypeInit
<1>2. TypeOK /\ TuneReady /\ [Next]_vars => TypeOK' /\ TuneReady'
  BY TypeNext
<1> QED BY <1>1, <1>2, PTL DEF Spec

-----------------------------------------------------------------------------
(* Who is sent where. *)

(* A list of peaks that names no bin twice and none of the bins claimed.   *)
Apart(peaks, claimed) ==
  /\ \A i \in 1 .. Len(peaks) : peaks[i] \notin claimed
  /\ \A i, j \in 1 .. Len(peaks) : i < j => peaks[i] # peaks[j]

(* The inductive invariant behind NoCompany: what is excluded is what the  *)
(* busy decoders have; the result keeps away from what was excluded when   *)
(* it was calculated, and what the manager has left to hand out from that  *)
(* and from what it has handed out.                                        *)
KeptApart == /\ m_excludeBins = claims
             /\ Apart(m_peakBins, claimsOfPeaks)
             /\ Apart(peakPos, claimsUsed)

(* And the one behind OnlySignalsFollowed: both lists name only peaks of a *)
(* spectrum.                                                               *)
AreSignals(peaks) ==
  \A i \in 1 .. Len(peaks) : \E bins \in Spectra : peaks[i] \in Peaks(bins)
Genuine == AreSignals(m_peakBins) /\ AreSignals(peakPos)

(* Of the steps, four have to do with it.                                  *)
LEMMA FourSteps ==
  ASSUME TypeOK, [Next]_vars
  PROVE  \/ UNCHANGED <<m_excludeBins, claims, m_peakBins, claimsOfPeaks, peakPos, claimsUsed>>
         \/ TriggerPeakCalc \/ GetPeaks \/ Tune \/ Calculate
         \/ /\ UNCHANGED <<m_excludeBins, claims, m_peakBins, claimsOfPeaks, claimsUsed>>
            /\ peakPos' = <<>>
BY DEF Next, Manager, PeakWorker, Decoders, Application, vars, manager, checking,
       request, result, Execute, CheckTooSoon, StartCount, CountDecoder, PeakCalcUpdated, Sort, TestDecoder, Feed, ManualTune,
       CheckCalcNeeded, ProcessAudio, NewSpectrum, SetWorkerCount, SetAutoTuneState,
       SetLowLimit, SetHighLimit

LEMMA KeptApartNext ==
  ASSUME ExcludeShift = 0, TypeOK, TuneReady, KeptApart, [Next]_vars
  PROVE  KeptApart'
<1> USE DEF manager, checking, request, result
<1>1. CASE UNCHANGED <<m_excludeBins, claims, m_peakBins, claimsOfPeaks, peakPos, claimsUsed>>
  BY <1>1 DEF KeptApart, Apart
<1>2. CASE TriggerPeakCalc
  <2>1. UNCHANGED <<peakPos, claimsUsed, m_peakBins, claimsOfPeaks>>
    BY <1>2 DEF TriggerPeakCalc
  <2>2. \/ UNCHANGED request
        \/ m_excludeBins' = Excluded(busyBins) /\ claims' = busyBins
    BY <1>2 DEF TriggerPeakCalc
  <2>3. Excluded(busyBins) = busyBins
    <3>1. \A bin \in busyBins : bin + ExcludeShift = bin
      BY ConstantTypes DEF TypeOK
    <3> QED BY ONLY <3>1 DEF Excluded
  <2>4. m_excludeBins' = claims'
    BY <2>2, <2>3 DEF KeptApart
  <2> QED BY <2>1, <2>4 DEF KeptApart, Apart
<1>3. CASE GetPeaks
  BY <1>3 DEF GetPeaks, KeptApart, Apart
<1>4. CASE Tune
  <2>1. /\ peakPos # <<>> /\ peakPos \in Seq(Bin) /\ peakPos' = Tail(peakPos)
        /\ claimsUsed' = claimsUsed \cup {Head(peakPos)}
        /\ UNCHANGED <<m_excludeBins, claims, m_peakBins, claimsOfPeaks>>
    BY <1>4 DEF Tune, TypeOK, TuneReady
  <2>2. /\ Len(peakPos) \in Nat \ {0} /\ Len(peakPos') = Len(peakPos) - 1
        /\ Head(peakPos) = peakPos[1]
        /\ \A i \in 1 .. Len(peakPos') : peakPos'[i] = peakPos[i + 1]
    BY <2>1, TailFacts
  <2>3. ASSUME NEW i \in 1 .. Len(peakPos')
        PROVE  i + 1 \in 1 .. Len(peakPos) /\ peakPos'[i] = peakPos[i + 1]
    BY <2>2
  <2>4. ASSUME NEW i \in 1 .. Len(peakPos') PROVE peakPos'[i] \notin claimsUsed'
    <3>1. 1 \in 1 .. Len(peakPos) /\ 1 < i + 1
      BY <2>2
    <3>2. peakPos[1] # peakPos[i + 1] /\ peakPos[i + 1] \notin claimsUsed
      BY <2>3, <3>1 DEF KeptApart, Apart
    <3> QED BY <2>1, <2>2, <2>3, <3>2
  <2>5. ASSUME NEW i \in 1 .. Len(peakPos'), NEW j \in 1 .. Len(peakPos'), i < j
        PROVE  peakPos'[i] # peakPos'[j]
    <3>1. i + 1 < j + 1
      BY <2>5
    <3> QED BY <2>3, <3>1 DEF KeptApart, Apart
  <2>6. Apart(peakPos, claimsUsed)'
    BY <2>4, <2>5 DEF Apart
  <2> QED BY <2>1, <2>6 DEF KeptApart, Apart
<1>5. CASE Calculate
  <2>1. /\ m_peakBins' = CalcPeaks(ApplyWindowFunction(m_binsAve), grabbed, m_excludeBins,
                                   m_lowLimitBin, m_highLimitBin)
        /\ claimsOfPeaks' = claims
        /\ UNCHANGED <<m_excludeBins, claims, peakPos, claimsUsed>>
    BY <1>5 DEF Calculate
  <2>2. grabbed \in Nat /\ m_binsAve \in Spectra
    BY ConstantTypes DEF TypeOK
  <2>3. PeaksOf(m_binsAve, m_excludeBins, m_peakBins')
    BY <2>1, <2>2, Calculated
  <2>4. Apart(m_peakBins', claims)
    BY <2>3 DEF PeaksOf, Apart, KeptApart
  <2> QED BY <2>1, <2>4 DEF KeptApart, Apart
<1>6. CASE /\ UNCHANGED <<m_excludeBins, claims, m_peakBins, claimsOfPeaks, claimsUsed>>
           /\ peakPos' = <<>>
  BY <1>6 DEF KeptApart, Apart
<1> QED BY <1>1, <1>2, <1>3, <1>4, <1>5, <1>6, FourSteps

LEMMA GenuineNext ==
  ASSUME TypeOK, TuneReady, Genuine, [Next]_vars
  PROVE  Genuine'
<1> USE DEF manager, checking, request, result
<1>1. CASE UNCHANGED <<m_excludeBins, claims, m_peakBins, claimsOfPeaks, peakPos, claimsUsed>>
  BY <1>1 DEF Genuine, AreSignals
<1>2. CASE TriggerPeakCalc
  BY <1>2 DEF TriggerPeakCalc, Genuine, AreSignals
<1>3. CASE GetPeaks
  BY <1>3 DEF GetPeaks, Genuine, AreSignals
<1>4. CASE Tune
  <2>1. /\ peakPos # <<>> /\ peakPos \in Seq(Bin) /\ peakPos' = Tail(peakPos)
        /\ m_peakBins' = m_peakBins
    BY <1>4 DEF Tune, TypeOK, TuneReady
  <2>2. ASSUME NEW i \in 1 .. Len(peakPos')
        PROVE  i + 1 \in 1 .. Len(peakPos) /\ peakPos'[i] = peakPos[i + 1]
    BY <2>1, TailFacts
  <2> QED BY <2>1, <2>2 DEF Genuine, AreSignals
<1>5. CASE Calculate
  <2>1. /\ m_peakBins' = CalcPeaks(ApplyWindowFunction(m_binsAve), grabbed, m_excludeBins,
                                   m_lowLimitBin, m_highLimitBin)
        /\ peakPos' = peakPos
    BY <1>5 DEF Calculate
  <2>2. grabbed \in Nat /\ m_binsAve \in Spectra
    BY ConstantTypes DEF TypeOK
  <2>3. PeaksOf(m_binsAve, m_excludeBins, m_peakBins')
    BY <2>1, <2>2, Calculated
  <2> QED BY <2>1, <2>2, <2>3 DEF PeaksOf, Genuine, AreSignals
<1>6. CASE /\ UNCHANGED <<m_excludeBins, claims, m_peakBins, claimsOfPeaks, claimsUsed>>
           /\ peakPos' = <<>>
  BY <1>6 DEF Genuine, AreSignals
<1> QED BY <1>1, <1>2, <1>3, <1>4, <1>5, <1>6, FourSteps

(* While the manager is about to tune a decoder, the only frequency that   *)
(* changes is that decoder's, to the first of the peaks left.              *)
LEMMA OnlyTuneMoves ==
  ASSUME TypeOK, TuneReady, [Next]_vars, mgrPc = "tune",
         NEW d \in 1 .. MaxDecoders, m_decoders'[d].signal # m_decoders[d].signal
  PROVE  /\ m_decoders'[d].signal = Head(peakPos)
         /\ peakPos # <<>> /\ peakPos \in Seq(Bin)
<1>0. /\ m_decoders \in [1 .. MaxDecoders -> DecoderState]
      /\ peakPos # <<>> /\ peakPos \in Seq(Bin)
  BY DEF TypeOK, TuneReady, DecoderState
<1>1. CASE Tune
  <2>1. /\ m_decoders' = [m_decoders EXCEPT ![idx] = SetTuneFrequency(m_decoders[idx], Head(peakPos))]
        /\ idx \in 1 .. MaxDecoders /\ Head(peakPos) \in Bin
    BY <1>0, <1>1, TailFacts DEF Tune, TuneReady
  <2>2. SetTuneFrequency(m_decoders[idx], Head(peakPos)).signal = Head(peakPos)
    BY <1>0, <2>1, Tuned
  <2> QED BY <1>0, <2>1, <2>2
<1>2. ASSUME NEW e \in 1 .. MaxDecoders, ProcessAudio(e) PROVE FALSE
  <2> DEFINE heard == [m_decoders[e] EXCEPT !.queue  = m_decoders[e].queue - 1,
                                            !.retune = Incremented(m_decoders[e].retune),
                                            !.decode = Incremented(m_decoders[e].decode)]
  <2>1. \/ m_decoders' = [m_decoders EXCEPT ![e] = heard]
        \/ m_decoders' = [m_decoders EXCEPT ![e] = [heard EXCEPT !.decode = Restarted]]
    BY <1>2 DEF ProcessAudio
  <2>2. m_decoders[e] \in DecoderState
    BY <1>0
  <2>3. heard.signal = m_decoders[e].signal /\ [heard EXCEPT !.decode = Restarted].signal = m_decoders[e].signal
    BY <2>2 DEF DecoderState
  <2> HIDE DEF heard
  <2> QED BY <1>0, <2>1, <2>3
<1>3. CASE m_decoders' = m_decoders
  BY <1>3
<1> QED
  BY <1>0, <1>1, <1>2, <1>3
     DEF Next, Manager, PeakWorker, Decoders, Application, vars,
         Execute, CheckTooSoon, StartCount, CountDecoder, TriggerPeakCalc, PeakCalcUpdated,
         GetPeaks, Sort, TestDecoder, Feed, ManualTune, CheckCalcNeeded, Calculate, NewSpectrum,
         SetWorkerCount, SetAutoTuneState, SetLowLimit, SetHighLimit

(* No crowding, where the manager's FreqToBin and the peak detector's bins *)
(* agree (at 192 kHz): with any number of decoders, any spectrum, and      *)
(* whatever becomes of decoders, limits and the number of decoders in use  *)
(* between the request for the peaks and their being handed out.           *)
THEOREM NeverTwoOnOne ==
  ASSUME ExcludeShift = 0
  PROVE  Spec => NoCompany
<1>1. Init => TypeOK /\ TuneReady /\ KeptApart
  <2>1. Init => KeptApart
    BY DEF Init, KeptApart, Apart
  <2> QED BY <2>1, TypeInit
<1>2. TypeOK /\ TuneReady /\ KeptApart /\ [Next]_vars => TypeOK' /\ TuneReady' /\ KeptApart'
  BY TypeNext, KeptApartNext
<1>3. TypeOK /\ TuneReady /\ KeptApart /\ [Next]_vars
      => [mgrPc = "tune" =>
            \A d \in 1 .. MaxDecoders :
              m_decoders'[d].signal # m_decoders[d].signal
                => m_decoders'[d].signal \notin claimsUsed]_vars
  <2> SUFFICES ASSUME TypeOK, TuneReady, KeptApart, [Next]_vars, mgrPc = "tune",
                      NEW d \in 1 .. MaxDecoders, m_decoders'[d].signal # m_decoders[d].signal
               PROVE  m_decoders'[d].signal \notin claimsUsed
    OBVIOUS
  <2>1. /\ m_decoders'[d].signal = Head(peakPos)
        /\ peakPos # <<>> /\ peakPos \in Seq(Bin)
    BY OnlyTuneMoves
  <2>2. Head(peakPos) = peakPos[1] /\ 1 \in 1 .. Len(peakPos)
    BY <2>1, TailFacts
  <2> QED BY <2>1, <2>2 DEF KeptApart, Apart
<1> QED BY <1>1, <1>2, <1>3, PTL DEF Spec, NoCompany

(* Wherever the manager sends a decoder there is a peak of a spectrum that *)
(* was seen, although m_calcComplete is not initialised and the list of    *)
(* peaks is padded with zeros.                                             *)
THEOREM OnlyRealSignals == Spec => OnlySignalsFollowed
<1>1. Init => TypeOK /\ TuneReady /\ Genuine
  <2>1. Init => Genuine
    BY DEF Init, Genuine, AreSignals
  <2> QED BY <2>1, TypeInit
<1>2. TypeOK /\ TuneReady /\ Genuine /\ [Next]_vars => TypeOK' /\ TuneReady' /\ Genuine'
  BY TypeNext, GenuineNext
<1>3. TypeOK /\ TuneReady /\ Genuine /\ [Next]_vars
      => [mgrPc = "tune" =>
            \A d \in 1 .. MaxDecoders :
              m_decoders'[d].signal # m_decoders[d].signal
                => \E bins \in Spectra : m_decoders'[d].signal \in Peaks(bins)]_vars
  <2> SUFFICES ASSUME TypeOK, TuneReady, Genuine, [Next]_vars, mgrPc = "tune",
                      NEW d \in 1 .. MaxDecoders, m_decoders'[d].signal # m_decoders[d].signal
               PROVE  \E bins \in Spectra : m_decoders'[d].signal \in Peaks(bins)
    OBVIOUS
  <2>1. /\ m_decoders'[d].signal = Head(peakPos)
        /\ peakPos # <<>> /\ peakPos \in Seq(Bin)
    BY OnlyTuneMoves
  <2>2. Head(peakPos) = peakPos[1] /\ 1 \in 1 .. Len(peakPos)
    BY <2>1, TailFacts
  <2> QED BY <2>1, <2>2 DEF Genuine, AreSignals
<1> QED BY <1>1, <1>2, <1>3, PTL DEF Spec, OnlySignalsFollowed
=============================================================================
