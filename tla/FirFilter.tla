----------------------------- MODULE FirFilter ------------------------------
(***************************************************************************)
(* The FIR filters, src/common/firFilter.cpp: how the taps are laid out in *)
(* an array of twice their number, and how the ring of past samples is     *)
(* multiplied with them in one loop that never wraps.  A sample is its     *)
(* number, from 1; a tap's weight is named by where the loop computed it.  *)
(***************************************************************************)
EXTENDS Integers

Silence == 0       \* what AllocateBuffers puts in the history
Flat    == -1      \* the weight of a rectangular window
Unset   == -2      \* a tap no loop has written

Tap(length)   == 0 .. length - 1
Place(length) == 0 .. 2 * length - 1

-----------------------------------------------------------------------------
(* CalculateOneTransSinc and CalculateTwoTransSinc: one turn of their loop *)
(* writes a value and its mirror image, and both again, length further on. *)
SincWrites(n, length) ==
  {n, length - n - 1, length + n, length + (length - n - 1)}

CentreWrites(length) == {length \div 2, length + length \div 2}

SincValues(length) ==
  [place \in Place(length) |->
     IF length % 2 = 1 /\ place \in CentreWrites(length) THEN length \div 2
     ELSE CHOOSE n \in 0 .. length \div 2 - 1 : place \in SincWrites(n, length)]

CalculateOneTransSinc(filterType, length) ==
  /\ filterType \in {"LOW_PASS", "HIGH_PASS"}
  /\ filterType = "HIGH_PASS" => length % 2 = 1

CalculateTwoTransSinc(filterType, length) ==
  /\ filterType \in {"BAND_PASS", "BAND_STOP"}
  /\ length % 2 = 1

(* CalculateWindow: its loop goes to the middle and one beyond when the    *)
(* length is even; a weight depends on the distance from the nearer end.   *)
FromEnd(n, length) == IF n < length - 1 - n THEN n ELSE length - 1 - n

CalculateWindow(windowType, length) ==
  [tap \in Tap(length) |->
     IF windowType = "RECTANGULAR" THEN Flat
     ELSE LET writers == {n \in 0 .. length \div 2 : tap \in {n, length - n - 1}}
              last    == CHOOSE n \in writers : \A m \in writers : m <= n
          IN  FromEnd(last, length)]

ApplyWindow(values, window, length) ==
  [place \in Place(length) |->
     <<values[place], window[IF place < length THEN place ELSE place - length]>>]

(* Initialise and Reinitialise: the taps of a designed filter ...          *)
Designable(filterType, length) ==
  /\ length > 0
  /\ \/ CalculateOneTransSinc(filterType, length)
     \/ CalculateTwoTransSinc(filterType, length)

Designed(windowType, filterType, length) ==
  ApplyWindow(IF Designable(filterType, length) THEN SincValues(length)
              ELSE [place \in Place(length) |-> Unset],
              CalculateWindow(windowType, length), length)

(* ... and of one whose values are given.                                  *)
FromValues(length) ==
  [place \in Place(length) |-> IF place < length THEN place ELSE place - length]

-----------------------------------------------------------------------------
(* AllocateBuffers and the constructor.                                    *)
Fresh(length) == [index |-> 0, history |-> [slot \in Tap(length) |-> Silence]]

(* (StoreFaulty turns the ring back one slot early.)                       *)
StoreFaulty(filter, sample, length) ==
  [index   |-> IF filter.index - 1 <= 0 THEN length - 1 ELSE filter.index - 1,
   history |-> [filter.history EXCEPT ![filter.index] = sample]]

(* ProcessSample: the ring takes the sample in and turns; what the loop    *)
(* reads is the slot's sample and the tap it is multiplied with.           *)
Store(filter, sample, length) ==
  [index   |-> IF filter.index - 1 < 0 THEN length - 1 ELSE filter.index - 1,
   history |-> [filter.history EXCEPT ![filter.index] = sample]]

TapOf(index, slot, length) == length - index + slot

Convolve(values, filter, sample, length) ==
  [slot \in Tap(length) |->
     <<values[TapOf(filter.index, slot, length)],
       IF slot = filter.index THEN sample ELSE filter.history[slot]>>]
=============================================================================
