---------------------------- MODULE Interleaver ----------------------------
(***************************************************************************)
(* The block interleaver of the AO-40 frame: src/common/codecAO40.cpp      *)
(* writes the symbols of the convolutional encoder down the columns of a   *)
(* ROWS x COLUMNS block, src/common/fec.cpp reads them back.  The first    *)
(* column of the code's numbering (every ROWS-th symbol on the air) holds  *)
(* the sync vector.                                                        *)
(***************************************************************************)
EXTENDS Integers

CONSTANTS ROWS, COLUMNS

ASSUME InterleaverAssumption ==
  /\ ROWS \in Nat \ {0, 1}
  /\ COLUMNS \in Nat \ {0}

SYMPBLOCK == ROWS * COLUMNS
Symbol    == 0 .. SYMPBLOCK - 1

(* interleave_symbol: where the symbol of m_ileaver_index goes.            *)
Interleaved(index) == (index % COLUMNS) * ROWS + (index \div COLUMNS)

(* init_encoder: the sync vector takes the positions ROWS * i, the         *)
(* encoder's symbols start at this index.                                  *)
FirstIndex == COLUMNS

SyncPositions == {ROWS * i : i \in 0 .. COLUMNS - 1}

(* CFec::Deinterleave: which raw symbol becomes m_symbols[k].              *)
(* (The first is a variant with a plausible error.)                        *)
DeinterleavedFaulty(k) == (k % COLUMNS) * ROWS + (k \div COLUMNS)

Deinterleaved(k) == (k % COLUMNS) * ROWS + (k \div COLUMNS + 1)
=============================================================================
