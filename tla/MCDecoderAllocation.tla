------------------------ MODULE MCDecoderAllocation ------------------------
(* Small instances of DecoderAllocation: two signals in ten bins.          *)
EXTENDS DecoderAllocation, TLC

Spectrum(levels) == [bin \in Bin |-> IF bin \in DOMAIN levels THEN levels[bin] ELSE 0]

MCSpectra == {Spectrum(2 :> 3 @@ 7 :> 2), Spectrum(7 :> 2)}
MCTwoSignals == {Spectrum(2 :> 3 @@ 7 :> 2)}
MCSatellites == {2}
MCCounts == {1, 2}
MCRanges == {<<0, 4>>}
=============================================================================
