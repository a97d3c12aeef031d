------------------------- MODULE DecoderAllocation -------------------------
(***************************************************************************)
(* Which decoder follows which signal: CDecodeManager::Execute and         *)
(* CheckPeakDetection (src/common/decodeManager.cpp), the peak worker's    *)
(* calculation, CDecodeWorker::GetAvailabilityFactor and the two sample    *)
(* stop watches of each CBpskDecoder.  The peaks are module PeakDetect.    *)
(*                                                                         *)
(* Time is counted in audio buffers.  A decoder is a record of its         *)
(* m_signalFrequency, as a bin, what its stop watches show and how many    *)
(* buffers wait for it; m_decoders is their sequence, which the manager    *)
(* sorts.  How buffers, FFTs and requests travel between the threads is    *)
(* modules DecodePipeline and PeakDetectWorker.                            *)
(***************************************************************************)
EXTENDS PeakDetect, FiniteSets

CONSTANTS
  MaxDecoders,     \* MAX_DECODERS
  DecodeTicks,     \* 5 frames of 4.3 s, in buffers
  RetuneTicks,     \* 2 frames
  AgeCap,          \* bound: elapsed times are counted up to here
  Delay,           \* m_peakDetectDelaySecs, in buffers
  MaxCalc,         \* m_peakDetectMaxCalc
  ExcludeShift,    \* bins between the manager's FreqToBin, which takes half
                   \* the range for 96000 Hz, and m_bufferConfig's
  CentreBin,       \* the bin of frequency 0
  ManualBin,       \* m_manualTuneBin
  Spectra,         \* the averaged spectra that may be seen
  Satellites,      \* bins where a frame may be decoded
  Counts,          \* what the application sets m_decoderNum to
  Ranges,          \* and the limits of the detection, pairs of bins
  MaxChanges       \* bound: how often it does, or another spectrum is seen

ASSUME AllocationAssumption ==
  /\ MaxDecoders \in Nat \ {0} /\ Counts \subseteq 1 .. MaxDecoders /\ Counts # {}
  /\ DecodeTicks \in Nat \ {0} /\ RetuneTicks \in Nat \ {0}
  /\ AgeCap \in Nat /\ Delay \in 0 .. AgeCap /\ MaxCalc \in Nat \ {0}
  /\ ExcludeShift \in Nat /\ CentreBin \in Bin /\ ManualBin \in Bin
  /\ Spectra \subseteq [Bin -> Nat] /\ Spectra # {}
  /\ Satellites \subseteq Bin /\ Ranges \subseteq {r \in Bin \X Bin : r[1] <= r[2]}
  /\ MaxChanges \in Nat

VARIABLES
  m_decoders, m_decoderNum, m_autoTuneState,
  mgrPc, idx,                    \* the manager's thread in Execute
  sinceCheck,                    \* m_lastPeakDetectTime
  availDecoders, busyBins,       \* CheckPeakDetection's count, and the bins the
                 \* decoders it found busy are on
  peakPos,                       \* the peaks it was given
  m_excludeBins, m_calcNeeded, m_numCalcPeaks, m_calcComplete,
  m_binsAve, m_lowLimitBin, m_highLimitBin, newHighBin,
  m_peakBins, grabbed,           \* the peak worker's thread
  changes,
  claims, claimsOfPeaks, claimsUsed   \* history: the bins busy decoders were
                 \* on at the last request; of those, when m_peakBins was
                 \* calculated; and when peakPos was taken

checking == <<sinceCheck, availDecoders, busyBins>>
manager  == <<mgrPc, idx, checking, peakPos, claimsUsed>>
request  == <<m_excludeBins, m_calcNeeded, m_numCalcPeaks, claims>>
result   == <<m_peakBins, claimsOfPeaks>>
spectrum == <<m_binsAve, m_lowLimitBin, m_highLimitBin, newHighBin>>
app      == <<m_decoderNum, m_autoTuneState, changes>>
vars == <<m_decoders, manager, request, result, m_calcComplete, grabbed, spectrum, app>>

NeverStarted == -1
Elapsed      == {NeverStarted} \cup (0 .. AgeCap)
ExcludeBin   == 0 .. NumBins - 1 + ExcludeShift
PeakSeq      == {s \in Seq(Bin) : Len(s) <= MaxPeaks}

TypeOK ==
  /\ m_decoders \in [1 .. MaxDecoders ->
                       [signal : Bin, retune : Elapsed, decode : Elapsed, queue : 0 .. 1]]
  /\ m_decoderNum \in Counts /\ m_autoTuneState \in {"auto", "manual"}
  /\ mgrPc \in {"idle", "check", "count", "updated", "getPeaks", "sort", "test", "tune", "manual", "feed"}
  /\ idx \in 1 .. MaxDecoders + 1
  /\ sinceCheck \in Elapsed
  /\ availDecoders \in Nat /\ busyBins \subseteq Bin
  /\ peakPos \in Seq(Bin) /\ m_peakBins \in Seq(Bin)
  /\ m_excludeBins \subseteq ExcludeBin
  /\ m_calcNeeded \in BOOLEAN /\ m_calcComplete \in BOOLEAN
  /\ m_numCalcPeaks \in 0 .. MaxCalc /\ grabbed \in 0 .. MaxCalc
  /\ m_binsAve \in Spectra
  /\ m_lowLimitBin \in 0 .. NumBins /\ m_highLimitBin \in 0 .. NumBins
  /\ newHighBin \in {NeverStarted} \cup Bin
  /\ changes \in 0 .. MaxChanges
  /\ claims \subseteq Bin /\ claimsOfPeaks \subseteq Bin /\ claimsUsed \subseteq Bin

(* m_calcComplete is set by no constructor.                                *)
Init ==
  /\ m_decoders = [d \in 1 .. MaxDecoders |->
       [signal |-> CentreBin, retune |-> NeverStarted, decode |-> NeverStarted, queue |-> 0]]
  /\ m_decoderNum \in Counts /\ m_autoTuneState = "auto"
  /\ mgrPc = "idle" /\ idx = 1 /\ sinceCheck = NeverStarted /\ peakPos = <<>>
  /\ availDecoders = 0 /\ busyBins = {}
  /\ m_excludeBins = {} /\ m_calcNeeded = FALSE /\ m_numCalcPeaks = 0
  /\ m_calcComplete \in BOOLEAN
  /\ m_binsAve \in Spectra /\ m_lowLimitBin = 0 /\ m_highLimitBin = NumBins
  /\ newHighBin = NeverStarted
  /\ m_peakBins = <<>> /\ grabbed = 0 /\ changes = 0
  /\ claims = {} /\ claimsOfPeaks = {} /\ claimsUsed = {}

-----------------------------------------------------------------------------
(* CSampleStopWatch, by what it shows.                                     *)
Restarted == 0
Cleared   == NeverStarted
Incremented(elapsed) ==
  IF elapsed = NeverStarted THEN elapsed ELSE Smaller(elapsed + 1, AgeCap)

(* GetAvailabilityFactor: under 50 has decoded lately, under 100 is still  *)
(* trying, 200 was never tuned.                                            *)
GetAvailabilityFactor(d) ==
  LET sinceDecode == IF d.decode = NeverStarted THEN 50 ELSE (50 * d.decode) \div DecodeTicks
      sinceRetune == IF d.decode = NeverStarted THEN (50 * d.retune) \div RetuneTicks ELSE 50
  IN  IF d.retune = NeverStarted THEN 200
      ELSE IF sinceDecode < 50 THEN sinceDecode
      ELSE sinceDecode + sinceRetune

Busy(d) == GetAvailabilityFactor(d) < 100

(* CBpskDecoder::SetTuneFrequency: nothing happens at the same frequency.  *)
SetTuneFrequency(d, bin) ==
  IF d.signal = bin THEN d
  ELSE [d EXCEPT !.signal = bin, !.retune = Restarted, !.decode = Cleared]

Fed == 1 .. m_decoderNum

-----------------------------------------------------------------------------
(* The manager's thread: Execute, for one buffer.                          *)
Execute ==
  /\ mgrPc = "idle"
  /\ sinceCheck' = Incremented(sinceCheck)
  /\ mgrPc' = IF m_autoTuneState = "auto" THEN "check" ELSE "manual"
  /\ UNCHANGED <<m_decoders, idx, availDecoders, busyBins, peakPos, claimsUsed, request,
                 result, m_calcComplete, grabbed, spectrum, app>>

(* CheckPeakDetection, from the test of the time ...                       *)
CheckTooSoon ==
  /\ mgrPc = "check"
  /\ sinceCheck # NeverStarted /\ sinceCheck < Delay
  /\ mgrPc' = "updated"
  /\ UNCHANGED <<m_decoders, idx, checking, peakPos, claimsUsed, request, result,
                 m_calcComplete, grabbed, spectrum, app>>

StartCount ==
  /\ mgrPc = "check"
  /\ sinceCheck = NeverStarted \/ sinceCheck >= Delay
  /\ mgrPc' = "count" /\ idx' = 1
  /\ sinceCheck' = Restarted /\ availDecoders' = m_decoderNum /\ busyBins' = {}
  /\ UNCHANGED <<m_decoders, peakPos, claimsUsed, request, result, m_calcComplete, grabbed,
                 spectrum, app>>

(* ... over the loop, each of whose passes reads m_decoderNum anew: when   *)
(* it has grown, availDecoders may go below zero ...                       *)
CountDecoder ==
  /\ mgrPc = "count" /\ idx <= m_decoderNum
  /\ idx' = idx + 1
  /\ IF Busy(m_decoders[idx])
       THEN /\ busyBins' = busyBins \cup {m_decoders[idx].signal}
            /\ availDecoders' = (availDecoders - 1) % UintModulus
       ELSE UNCHANGED <<busyBins, availDecoders>>
  /\ UNCHANGED <<m_decoders, mgrPc, sinceCheck, peakPos, claimsUsed, request, result,
                 m_calcComplete, grabbed, spectrum, app>>

(* The bins in excludeBins, by the manager's own FreqToBin.  (A *Faulty    *)
(* operator is a variant of the definition that follows it, with a         *)
(* plausible error.)                                                       *)
ExcludedFaulty(bins) == {bin + ExcludeShift + 1 : bin \in bins}

Excluded(bins) == {bin + ExcludeShift : bin \in bins}

(* ... to TriggerPeakCalc.                                                 *)
TriggerPeakCalc ==
  /\ mgrPc = "count" /\ idx > m_decoderNum
  /\ mgrPc' = "updated" /\ idx' = 1
  /\ availDecoders' = 0 /\ busyBins' = {}
  /\ \/ availDecoders = 0 /\ UNCHANGED request
     \/ /\ availDecoders > 0
        /\ m_excludeBins' = Excluded(busyBins)
        /\ m_numCalcPeaks' = Smaller(availDecoders, MaxCalc)
        /\ m_calcNeeded' = TRUE
        /\ claims' = busyBins
  /\ UNCHANGED <<m_decoders, sinceCheck, peakPos, claimsUsed, result, m_calcComplete, grabbed,
                 spectrum, app>>

PeakCalcUpdated ==
  /\ mgrPc = "updated"
  /\ m_calcComplete' = FALSE
  /\ mgrPc' = IF m_calcComplete THEN "getPeaks" ELSE "feed"
  /\ UNCHANGED <<m_decoders, idx, checking, peakPos, claimsUsed, request, result,
                 grabbed, spectrum, app>>

GetPeaks ==
  /\ mgrPc = "getPeaks" /\ mgrPc' = "sort"
  /\ peakPos' = m_peakBins /\ claimsUsed' = claimsOfPeaks
  /\ UNCHANGED <<m_decoders, idx, checking, request, result, m_calcComplete, grabbed,
                 spectrum, app>>

(* The orders the decoders may be put in ...                               *)
Orders ==
  {order \in [1 .. MaxDecoders -> 1 .. MaxDecoders] :
     \A d, e \in 1 .. MaxDecoders : d # e => order[d] # order[e]}

(* ... and std::sort over all of m_decoders; equals come in any order.     *)
(* (One step, though the comparator locks one decoder at a time.)          *)
Sort ==
  /\ mgrPc = "sort" /\ mgrPc' = "test" /\ idx' = 1
  /\ \E order \in Orders :
       LET sorted == [d \in 1 .. MaxDecoders |-> m_decoders[order[d]]]
       IN  /\ \A d \in 1 .. MaxDecoders - 1 :
                GetAvailabilityFactor(sorted[d]) <= GetAvailabilityFactor(sorted[d + 1])
           /\ m_decoders' = sorted
  /\ UNCHANGED <<checking, peakPos, claimsUsed, request, result, m_calcComplete, grabbed,
                 spectrum, app>>

(* The loop that hands out the peaks: the test of one decoder ...          *)
TestDecoder ==
  /\ mgrPc = "test"
  /\ \/ /\ idx > m_decoderNum \/ peakPos = <<>>
        /\ mgrPc' = "feed" /\ peakPos' = <<>> /\ idx' = 1
     \/ /\ idx <= m_decoderNum /\ peakPos # <<>>
        /\ IF GetAvailabilityFactor(m_decoders[idx]) > 100
             THEN mgrPc' = "tune" /\ UNCHANGED idx
             ELSE idx' = idx + 1 /\ UNCHANGED mgrPc
        /\ UNCHANGED peakPos
  /\ UNCHANGED <<m_decoders, checking, claimsUsed, request, result, m_calcComplete,
                 grabbed, spectrum, app>>

(* ... and, under another lock, its tuning.  (TuneFaulty leaves peakIter   *)
(* where it is.)                                                           *)
TuneFaulty ==
  /\ mgrPc = "tune" /\ mgrPc' = "test"
  /\ m_decoders' = [m_decoders EXCEPT ![idx] = SetTuneFrequency(@, Head(peakPos))]
  /\ idx' = idx + 1
  /\ claimsUsed' = claimsUsed \cup {Head(peakPos)}
  /\ UNCHANGED <<checking, peakPos, request, result, m_calcComplete, grabbed,
                 spectrum, app>>

Tune ==
  /\ mgrPc = "tune" /\ mgrPc' = "test"
  /\ m_decoders' = [m_decoders EXCEPT ![idx] = SetTuneFrequency(@, Head(peakPos))]
  /\ peakPos' = Tail(peakPos) /\ idx' = idx + 1
  /\ claimsUsed' = claimsUsed \cup {Head(peakPos)}
  /\ UNCHANGED <<checking, request, result, m_calcComplete, grabbed, spectrum, app>>

(* Every decoder in use is given the buffer.  (A bound: a decoder has      *)
(* taken one buffer before it is given the next.  It may do so at any step *)
(* of the manager's.)                                                      *)
AllTaken == \A d \in 1 .. MaxDecoders : m_decoders[d].queue = 0

Feed ==
  /\ AllTaken
  /\ mgrPc = "feed" /\ mgrPc' = "idle"
  /\ m_decoders' = [d \in 1 .. MaxDecoders |->
                      IF d \in Fed THEN [m_decoders[d] EXCEPT !.queue = @ + 1]
                      ELSE m_decoders[d]]
  /\ UNCHANGED <<idx, checking, peakPos, claimsUsed, request, result, m_calcComplete,
                 grabbed, spectrum, app>>

(* Manual: whichever decoder happens to be first is tuned, and only it is  *)
(* fed.                                                                    *)
ManualTune ==
  /\ AllTaken
  /\ mgrPc = "manual" /\ mgrPc' = "idle"
  /\ LET tuned == SetTuneFrequency(m_decoders[1], ManualBin)
     IN  m_decoders' = [m_decoders EXCEPT ![1] = [tuned EXCEPT !.queue = @ + 1]]
  /\ UNCHANGED <<idx, checking, peakPos, claimsUsed, request, result, m_calcComplete,
                 grabbed, spectrum, app>>

-----------------------------------------------------------------------------
(* A decoder's thread: CBpskDecoder::ProcessAudio adds the buffer to both  *)
(* stop watches; if a frame comes out of it the decode time is started.    *)
ProcessAudio(d) ==
  /\ m_decoders[d].queue > 0
  /\ LET heard == [m_decoders[d] EXCEPT !.queue  = @ - 1,
                                        !.retune = Incremented(@),
                                        !.decode = Incremented(@)]
     IN  \/ m_decoders' = [m_decoders EXCEPT ![d] = heard]
         \/ /\ m_decoders[d].signal \in Satellites
            /\ m_decoders' = [m_decoders EXCEPT ![d] = [heard EXCEPT !.decode = Restarted]]
  /\ UNCHANGED <<manager, request, result, m_calcComplete, grabbed, spectrum, app>>

(* The peak worker's thread, by what PeakDetectWorker says of it: the test *)
(* of m_calcNeeded and the reading of m_numCalcPeaks need no lock ...      *)
CheckCalcNeeded ==
  /\ m_calcNeeded /\ grabbed = 0
  /\ m_calcNeeded' = FALSE /\ grabbed' = m_numCalcPeaks
  /\ UNCHANGED <<m_decoders, manager, m_excludeBins, m_numCalcPeaks, claims, result,
                 m_calcComplete, spectrum, app>>

(* ... CalcPeaks has it, and finds the excluded bins of that moment.       *)
Calculate ==
  /\ grabbed > 0 /\ grabbed' = 0
  /\ \E m_binsSumFuncube \in {ApplyWindowFunction(m_binsAve)} :
       m_peakBins' = CalcPeaks(m_binsSumFuncube, grabbed, m_excludeBins,
                               m_lowLimitBin, m_highLimitBin)
  /\ claimsOfPeaks' = claims
  /\ m_calcComplete' = TRUE
  /\ UNCHANGED <<m_decoders, manager, request, spectrum, app>>

NewSpectrum ==
  /\ changes < MaxChanges /\ changes' = changes + 1
  /\ m_binsAve' \in Spectra \ {m_binsAve}
  /\ UNCHANGED <<m_decoders, manager, request, result, m_calcComplete, grabbed,
                 m_lowLimitBin, m_highLimitBin, newHighBin, m_decoderNum, m_autoTuneState>>

-----------------------------------------------------------------------------
(* The application.                                                        *)
SetWorkerCount ==
  /\ changes < MaxChanges /\ changes' = changes + 1
  /\ m_decoderNum' \in Counts \ {m_decoderNum}
  /\ UNCHANGED <<m_decoders, manager, request, result, m_calcComplete, grabbed, spectrum,
                 m_autoTuneState>>

SetAutoTuneState ==
  /\ changes < MaxChanges /\ changes' = changes + 1
  /\ m_autoTuneState' \in {"auto", "manual"} \ {m_autoTuneState}
  /\ UNCHANGED <<m_decoders, manager, request, result, m_calcComplete, grabbed, spectrum,
                 m_decoderNum>>

(* SetAutoTuneRange: CPeakDetect::SetDetectLimits holds no lock, and sets  *)
(* the lower limit before the upper.                                       *)
SetLowLimit ==
  /\ changes < MaxChanges /\ changes' = changes + 1 /\ newHighBin = NeverStarted
  /\ \E range \in Ranges : m_lowLimitBin' = range[1] /\ newHighBin' = range[2]
  /\ UNCHANGED <<m_decoders, manager, request, result, m_calcComplete, grabbed,
                 m_binsAve, m_highLimitBin, m_decoderNum, m_autoTuneState>>

SetHighLimit ==
  /\ newHighBin # NeverStarted
  /\ m_highLimitBin' = newHighBin /\ newHighBin' = NeverStarted
  /\ UNCHANGED <<m_decoders, manager, request, result, m_calcComplete, grabbed,
                 m_binsAve, m_lowLimitBin, app>>

-----------------------------------------------------------------------------
Manager == \/ Execute \/ CheckTooSoon \/ StartCount \/ CountDecoder \/ TriggerPeakCalc
           \/ PeakCalcUpdated \/ GetPeaks \/ Sort \/ TestDecoder \/ Tune \/ Feed \/ ManualTune
PeakWorker == CheckCalcNeeded \/ Calculate
Application == SetWorkerCount \/ SetAutoTuneState \/ SetLowLimit \/ SetHighLimit
Decoders == \E d \in 1 .. MaxDecoders : ProcessAudio(d)

Next == Manager \/ PeakWorker \/ Decoders \/ NewSpectrum \/ Application

(* Buffers keep coming, and a thread that has work is scheduled; spectra,  *)
(* frames and the application owe nothing.                                 *)
Fairness == WF_vars(Manager) /\ WF_vars(PeakWorker) /\ WF_vars(Decoders)

Spec == Init /\ [][Next]_vars /\ Fairness

(* No crowding: the manager never sends a decoder to a frequency on which  *)
(* one was found busy before the peaks were asked for, nor to one it has just  *)
(* given away in the same turn.                                            *)
NoCompany ==
  [][mgrPc = "tune" =>
       \A d \in 1 .. MaxDecoders :
         m_decoders'[d].signal # m_decoders[d].signal
           => m_decoders'[d].signal \notin claimsUsed]_vars

Peaks(bins) == {bin : bin \in Candidates(ApplyWindowFunction(bins), {}, {}, 0, NumBins)}

(* Wherever the manager sends a decoder there is a peak of some spectrum:  *)
(* neither the answer nobody calculated (m_calcComplete is not             *)
(* initialised) nor the zeros with which CalcPeaks pads its list ever      *)
(* reach a decoder.                                                        *)
OnlySignalsFollowed ==
  [][mgrPc = "tune" =>
       \A d \in 1 .. MaxDecoders :
         m_decoders'[d].signal # m_decoders[d].signal
           => \E bins \in Spectra : m_decoders'[d].signal \in Peaks(bins)]_vars

Quiet == \A d \in 1 .. MaxDecoders : m_decoders[d].decode # Restarted

Scenes == {<<bins, Peaks(bins)>> : bins \in Spectra}

(* A signal is tried: if from some time on the spectrum stays and nothing  *)
(* is decoded, tuning stays automatic over the whole range, and there are  *)
(* as many decoders in use as the spectrum has peaks, a decoder is sooner  *)
(* or later on each of them.                                               *)
EverySignalTried ==
  \A scene \in Scenes : \A signal \in scene[2] :
    <>[](/\ Quiet /\ m_binsAve = scene[1] /\ m_autoTuneState = "auto"
         /\ m_lowLimitBin = 0 /\ m_highLimitBin = NumBins
         /\ m_decoderNum >= Cardinality(scene[2]))
    => <>(\E d \in Fed : m_decoders[d].signal = signal)
=============================================================================
