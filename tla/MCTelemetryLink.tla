-------------------------- MODULE MCTelemetryLink --------------------------
(* Two or three frames, one after the other, over five kinds of air, with  *)
(* the code's own codec.                                                   *)
EXTENDS TelemetryLink, AO40Codec

MCZeros == [i \in 1 .. BLOCKSIZE |-> 0]

Hello == <<72, 0, 255, 17, 200, 3, 128, 91>>
World == <<0, 0, 0, 0, 0, 0, 0, 1>>

Sent(block, hits, fades, bearable) ==
  [block |-> block, hits |-> hits, fades |-> fades, bearable |-> bearable]
Clean(block) == Sent(block, {}, {}, TRUE)

(* A burst of noise two columns long, and scattered symbols.               *)
Burst   == 300 .. 300 + 2 * ROWS
Spread  == {97 * i : i \in 1 .. 12}
(* Sync symbols turned: as many as the correlation bears, and one more.    *)
SyncHits(n) == {ROWS * i : i \in 1 .. n}

MCPlans ==
  { <<Clean(Hello), Sent(World, Burst, {}, TRUE)>>,
    <<Sent(Hello, SyncHits(13), Spread, TRUE), Sent(World, SyncHits(14), {}, FALSE)>>,
    <<Sent(Hello, (400 .. 900) \ SyncPositions, {}, FALSE), Clean(World)>>,
    <<Sent(World, {}, 1 .. 120, TRUE), Clean(World)>>,
    <<Clean(Hello), Clean(World), Clean(Hello)>> }
=============================================================================
