---------------------------- MODULE MCSignalPath ----------------------------
(* Small instances of SignalPath.  In SignalPath.cfg: four samples a bit   *)
(* as at 4800 bps, with a clock that slips in the fifth bit time; every    *)
(* second sample kept; and transforms of twice m_fftResultSize, as at      *)
(* 96 kHz.  In SpectrumShown.cfg: the sizes the code has at 96 kHz.        *)
EXTENDS SignalPath

MCFrequencies == {-1, 0, 3}
MCRanges == {<<2, 6>>}
=============================================================================
