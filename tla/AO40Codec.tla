----------------------------- MODULE AO40Codec -----------------------------
(***************************************************************************)
(* The AO-40 telemetry frame: src/common/codecAO40.cpp (Reed-Solomon,      *)
(* scrambler, convolutional encoder, interleaver), src/common/viterbi.cpp  *)
(* and src/common/fec.cpp.  The code is the source's own, field, tables    *)
(* and polynomials included; only BLOCKSIZE (256 bytes of data in a frame) *)
(* and ROWS (80) are parameters.                                           *)
(*                                                                         *)
(* Bytes are numbers, a frame's m_encoded is the set of positions that     *)
(* hold a 1.  A polynomial of degree n is a sequence of n + 1 elements,    *)
(* the coefficient of x^i at i + 1.                                        *)
(***************************************************************************)
EXTENDS FecConstants, Interleaver, Sequences, FiniteSets

CONSTANT BLOCKSIZE

NBITS_OUT == BLOCKSIZE + NROOTS * RSBLOCKS
NBITS     == NBITS_OUT * 8 + K - 1
RSPAD     == KK - (BLOCKSIZE \div RSBLOCKS)

ASSUME FrameAssumption ==
  /\ BLOCKSIZE \in RSBLOCKS .. (KK * RSBLOCKS) /\ BLOCKSIZE % RSBLOCKS = 0
  /\ COLUMNS + 2 * NBITS <= SYMPBLOCK        \* the frame holds what is coded

Byte == 0 .. 255

-----------------------------------------------------------------------------
(* Arithmetic of bytes.                                                    *)

(* The sequence f, each of its elements computed.                          *)
Table(f) == <<>> \o f

Bit(n, k) == (n \div 2^k) % 2

NibbleXor ==
  [a \in 0 .. 15 |-> [b \in 0 .. 15 |->
     LET bit(k) == 2^k * ((Bit(a, k) + Bit(b, k)) % 2)
     IN  bit(0) + bit(1) + bit(2) + bit(3)]]

Xor(a, b) == 16 * NibbleXor[a \div 16][b \div 16] + NibbleXor[a % 16][b % 16]

XorAll(s) ==
  LET upTo[i \in 0 .. Len(s)] == IF i = 0 THEN 0 ELSE Xor(upTo[i - 1], s[i])
  IN  upTo[Len(s)]

(* Partab[x & poly]                                                        *)
Parity(x, poly) == Cardinality({k \in 0 .. 7 : Bit(x, k) = 1 /\ Bit(poly, k) = 1}) % 2

RECURSIVE Mod255(_)
Mod255(x) ==
  IF x < 255 THEN x ELSE LET y == x - 255 IN Mod255((y \div 256) + (y % 256))

(* ALPHA_TO[mod255(i)], and nothing for the logarithm of 0.                *)
Alpha(i)   == ALPHA_TO[Mod255(i) + 1]
Index(x)   == INDEX_OF[x + 1]
Product(indexA, indexB) ==
  IF indexA = A0 \/ indexB = A0 THEN 0 ELSE Alpha(indexA + indexB)

-----------------------------------------------------------------------------
(* The encoder.  Its state is a record: bytes taken, the shift register,   *)
(* the interleaver's index, the two Reed-Solomon registers and the ones.   *)

interleave_symbol(e, c) ==
  [e EXCEPT !.ones   = IF c = 1 THEN @ \cup {Interleaved(e.ileaver)} ELSE @,
            !.ileaver = @ + 1]

RECURSIVE encode_and_interleave(_, _, _)
encode_and_interleave(e, c, cnt) ==
  IF cnt = 0 THEN e
  ELSE LET sr == (e.sr * 2 + (c \div 128)) % 256
           first  == interleave_symbol([e EXCEPT !.sr = sr], Parity(sr, CPOLYA))
           second == interleave_symbol(first, 1 - Parity(sr, CPOLYB))
       IN  encode_and_interleave(second, (c * 2) % 256, cnt - 1)

scramble_and_encode(e, c) ==
  encode_and_interleave(e, Xor(c, Scrambler[e.bytes + 1]), 8)

(* The sync vector's bits, and init_encoder.                               *)
SyncVector ==
  LET sr[i \in 0 .. COLUMNS - 1] ==
        IF i = 0 THEN 127
        ELSE LET before == sr[i - 1]
             IN  (before * 2 + Parity(before, SYNC_POLY)) % 128
  IN  [i \in 0 .. COLUMNS - 1 |-> Bit(sr[i], 6)]

init_encoder ==
  [bytes |-> 0, sr |-> 0, ileaver |-> FirstIndex,
   rs   |-> [row \in 0 .. RSBLOCKS - 1 |-> [i \in 1 .. NROOTS |-> 0]],
   ones |-> {ROWS * i : i \in {j \in 0 .. COLUMNS - 1 : SyncVector[j] = 1}}]

(* The generator polynomial, in index form, at 1..NROOTS-1; x^NROOTS and   *)
(* x^0 have coefficient 1.                                                 *)
Generator(p) == RS_poly[IF p <= NROOTS \div 2 THEN p ELSE NROOTS - p]

(* encode_byte's loops: the register times x, plus feedback times g(x).    *)
Shifted(rp, feedback) ==
  Table([p \in 1 .. NROOTS |->
    IF p = NROOTS THEN Product(feedback, 0)
    ELSE Xor(rp[p + 1], Product(feedback, Generator(p)))])

encode_byte(e, c) ==
  LET row == e.bytes % 2
      rp  == e.rs[row]
  IN  [scramble_and_encode(e, c) EXCEPT
         !.rs[row] = Shifted(rp, Index(Xor(c, rp[1]))), !.bytes = @ + 1]

encode_parity(e) ==
  LET c    == e.rs[e.bytes % 2][((e.bytes - BLOCKSIZE) \div 2) + 1]
      next == [scramble_and_encode(e, c) EXCEPT !.bytes = @ + 1]
  IN  IF next.bytes = NBITS_OUT THEN encode_and_interleave(next, 0, 6) ELSE next

(* CCodecAO40::encode, of a block of the right size: the data, then the    *)
(* parity, in strides, since TLC's stack holds one stride.                 *)
StrideFrom(done, total) == IF done + 24 < total THEN done + 24 ELSE total

RECURSIVE EncodeUpTo(_, _, _)
EncodeUpTo(e, source, last) ==
  IF e.bytes = last THEN e
  ELSE EncodeUpTo(IF e.bytes < BLOCKSIZE THEN encode_byte(e, source[e.bytes + 1])
                                         ELSE encode_parity(e), source, last)

RECURSIVE EncodeRest(_, _)
EncodeRest(e, source) ==
  IF e.bytes = NBITS_OUT THEN e
  ELSE EncodeRest(EncodeUpTo(e, source, StrideFrom(e.bytes, NBITS_OUT)), source)

encode(source) == EncodeRest(init_encoder, source).ones

-----------------------------------------------------------------------------
(* The Reed-Solomon decoder, decode_rs_8 (without erasures: its only       *)
(* caller names none).                                                     *)

(* s is data[1..j] at the i-th root of the generator polynomial.           *)
RECURSIVE Evaluate(_, _, _, _)
Evaluate(s, j, i, data) ==
  IF j = NN THEN s
  ELSE IF s = 0 THEN Evaluate(data[j + 1], j + 1, i, data)
  ELSE Evaluate(Xor(data[j + 1], Alpha(Index(s) + (FCR + i) * PRIM)), j + 1, i, data)

(* Behind the padding, whose zeros leave s at zero.                        *)
Syndrome(data, i) == Evaluate(data[RSPAD + 1], RSPAD + 1, i, data)

Syndromes(data) == Table([i \in 1 .. NROOTS |-> Index(Syndrome(data, i - 1))])

Degree(p) ==
  CHOOSE d \in 0 .. Len(p) - 1 :
    /\ d = 0 \/ p[d + 1] # A0
    /\ \A j \in d + 2 .. Len(p) : p[j] = A0

(* m is [r, el, lambda, b]: lambda in poly form, b and s in index form.    *)
RECURSIVE BerlekampMassey(_, _)
BerlekampMassey(m, s) ==
  IF m.r = NROOTS THEN m.lambda
  ELSE
    LET r  == m.r + 1
        discr_r == Index(XorAll([i \in 1 .. r |-> Product(Index(m.lambda[i]), s[r - i + 1])]))
        xb == <<A0>> \o SubSeq(m.b, 1, NROOTS)
        t  == Table([i \in 1 .. NROOTS + 1 |-> Xor(m.lambda[i], Product(discr_r, xb[i]))])
        quotient == Table([i \in 1 .. NROOTS + 1 |->
          IF m.lambda[i] = 0 THEN A0 ELSE Mod255(Index(m.lambda[i]) - discr_r + NN)])
        longer == 2 * m.el <= r - 1
    IN  BerlekampMassey(
          IF discr_r = A0 THEN [m EXCEPT !.r = r, !.b = xb]
          ELSE [r |-> r, lambda |-> t,
                el |-> IF longer THEN r - m.el ELSE m.el,
                b  |-> IF longer THEN quotient ELSE xb], s)

Locator(s) ==
  LET one    == Table([i \in 1 .. NROOTS + 1 |-> IF i = 1 THEN 1 ELSE 0])
      lambda == BerlekampMassey([r |-> 0, el |-> 0, lambda |-> one,
                                 b |-> Table([i \in 1 .. NROOTS + 1 |-> Index(one[i])])], s)
  IN  Table([i \in 1 .. NROOTS + 1 |-> Index(lambda[i])])

(* The value of a polynomial in index form at the i-th power, the Chien    *)
(* search for its roots, and the place a root stands for.                  *)
ValueAt(p, i) == XorAll([j \in 1 .. Len(p) |-> Product(p[j], Mod255(i * (j - 1)))])
Roots(lambda) == {i \in 1 .. NN : ValueAt(SubSeq(lambda, 1, Degree(lambda) + 1), i) = 0}
Location(i)   == Mod255(IPRIM - 1 + (i - 1) * IPRIM)

Omega(s, lambda) ==
  LET deg == Degree(lambda)
  IN  Table([i \in 1 .. NROOTS |->
        Index(XorAll([j \in 1 .. (IF deg < i - 1 THEN deg + 1 ELSE i) |->
                        Product(s[i - j + 1], lambda[j])]))])

(* The formal derivative at the i-th power: lambda[k+1] for even k.        *)
Derivative(lambda, i) ==
  LET deg == Degree(lambda)
      top == IF deg < NROOTS - 1 THEN deg ELSE NROOTS - 1
  IN  XorAll([h \in 1 .. (top \div 2) + 1 |->
                Product(lambda[2 * h], Mod255(2 * (h - 1) * i))])

ErrorValue(s, lambda, omega, i) ==
  LET num1 == ValueAt(omega, i)
      num2 == Alpha(i * (FCR - 1) + NN)
      den  == Derivative(lambda, i)
  IN  IF num1 = 0 THEN 0 ELSE Alpha(Index(num1) + Index(num2) + NN - Index(den))

(* What to add to which byte, and the block with that added.               *)
ErrorValues(s, lambda, omega, roots) ==
  [loc \in {Location(i) : i \in roots} |->
     ErrorValue(s, lambda, omega, CHOOSE i \in roots : Location(i) = loc)]

Repaired(data, values) ==
  Table([j \in 1 .. NN |->
    IF j - 1 \in DOMAIN values THEN Xor(data[j], values[j - 1]) ELSE data[j]])

(* The number of bytes corrected, or -1, and the corrected block.  (A      *)
(* *Faulty operator is a variant of the definition that follows it, with a *)
(* plausible error.)                                                       *)
CorrectedFaulty(data, s, lambda, roots) ==
  LET divisible == {i \in roots : Derivative(lambda, i) # 0}
  IN  [count |-> Cardinality(roots),
       data  |-> Repaired(data, ErrorValues(s, lambda, Omega(s, lambda), divisible))]

Corrected(data, s, lambda, roots) ==
  IF \/ Cardinality(roots) # Degree(lambda)
     \/ \E i \in roots : Derivative(lambda, i) = 0
  THEN [count |-> -1, data |-> data]
  ELSE [count |-> Cardinality(roots),
        data  |-> Repaired(data, ErrorValues(s, lambda, Omega(s, lambda), roots))]

Searched(data, s, lambda) == Corrected(data, s, lambda, Roots(lambda))

decode_rs_8(data) ==
  LET s == Syndromes(data)
  IN  IF \A i \in 1 .. NROOTS : s[i] = A0 THEN [count |-> 0, data |-> data]
                                          ELSE Searched(data, s, Locator(s))

-----------------------------------------------------------------------------
(* The Viterbi decoder, Decode27.  metric[s + 1] is state s's; paths has   *)
(* for each bit which states were better reached from the upper half.      *)

Branch(m, symA, symB, s) ==
  LET mets(pair) == viterbi_mettab[pair \div 2][symA] + viterbi_mettab[pair % 2][symB]
      even == s - (s % 2)
      one  == mets(viterbi_syms[even + 1])
      two  == mets(viterbi_syms[even + 2])
      low  == m[(s \div 2) + 1]
      high == m[(s \div 2) + 2^(K - 2) + 1]
  IN  IF s % 2 = 0 THEN <<low + one, high + two>> ELSE <<low + two, high + one>>

RECURSIVE Forward(_, _, _)
Forward(v, symbols, last) ==
  LET n == Len(v.paths)
  IN  IF n = last THEN v
      ELSE LET both == Table([s \in 1 .. 64 |->
                         Branch(v.metric, symbols[2 * n], symbols[2 * n + 1], s - 1)])
               upper == {s \in 0 .. 63 : both[s + 1][2] > both[s + 1][1]}
           IN  Forward([metric |-> Table([s \in 1 .. 64 |->
                                      both[s][IF s - 1 \in upper THEN 2 ELSE 1]]),
                        paths  |-> Append(v.paths, upper)], symbols, last)

(* All the bits.                                                           *)
RECURSIVE Trellis(_, _)
Trellis(v, symbols) ==
  IF Len(v.paths) = NBITS THEN v.paths
  ELSE Trellis(Forward(v, symbols, StrideFrom(Len(v.paths), NBITS)), symbols)

(* t.bits holds the decoded bits from the last but K - 1 down.             *)
RECURSIVE Backward(_, _, _)
Backward(t, paths, last) ==
  LET done == Len(t.bits)
  IN  IF done = last THEN t
      ELSE LET one == t.beststate \in paths[NBITS - done]
           IN  Backward([beststate |-> (t.beststate \div 2) + (IF one THEN 2^(K - 2) ELSE 0),
                         bits      |-> <<IF one THEN 1 ELSE 0>> \o t.bits], paths, last)

RECURSIVE ChainBack(_, _)
ChainBack(t, paths) ==
  IF Len(t.bits) = NBITS - K + 1 THEN t.bits
  ELSE ChainBack(Backward(t, paths, StrideFrom(Len(t.bits), NBITS - K + 1)), paths)

Packed(bits) ==
  LET value(k) == LET b(j) == bits[8 * (k - 1) + j] * 2^(8 - j)
                  IN  b(1) + b(2) + b(3) + b(4) + b(5) + b(6) + b(7) + b(8)
  IN  Table([k \in 1 .. NBITS_OUT |-> value(k)])

Decode27(symbols) ==
  LET start == Table([s \in 1 .. 64 |-> IF s = 1 THEN 0 ELSE -999999])
  IN  Packed(ChainBack([beststate |-> 0, bits |-> <<>>],
                       Trellis([metric |-> start, paths |-> <<>>], symbols)))

-----------------------------------------------------------------------------
(* Descrambled, dealt out to the Reed-Solomon blocks, decoded, dealt back. *)

descramble_to_rsblocks(decoded) ==
  [row \in 0 .. RSBLOCKS - 1 |->
     Table([j \in 1 .. NN |->
       IF j - 1 < RSPAD THEN 0
       ELSE LET di == (j - 1 - RSPAD) * RSBLOCKS + row + 1
            IN  Xor(decoded[di], Scrambler[di])])]

(* CCodecAO40::decode: a block after one that failed is not looked at.     *)
Joined(first, second) ==
  LET row == <<first.data, second.data>>
  IN  IF first.count = -1 \/ second.count = -1 THEN [errors |-> -1, data |-> <<>>]
      ELSE [errors |-> first.count + second.count,
            data   |-> Table([j \in 1 .. BLOCKSIZE |->
                         row[((j - 1) % RSBLOCKS) + 1][RSPAD + ((j - 1) \div RSBLOCKS) + 1]])]

decode(vitdecdata) ==
  LET blocks == descramble_to_rsblocks(vitdecdata)
  IN  Joined(decode_rs_8(blocks[0]), decode_rs_8(blocks[1]))

count_errorsFaulty(ones, raw) ==
  Cardinality({p \in Symbol : (p \in ones) # (raw[p] > 128)})

count_errors(ones, raw) ==
  Cardinality({p \in Symbol : (p \in ones) # (raw[p] >= 128)})

(* CFec::Decode: what it leaves in its output and in m_errorCount.         *)
Outcome(result, raw) ==
  IF result.errors = -1 THEN [ok |-> FALSE, data |-> <<>>, errorCount |-> -1]
  ELSE [ok |-> TRUE, data |-> result.data,
        errorCount |-> count_errors(encode(result.data), raw)]

Decode(raw) ==
  LET symbols == [k \in 0 .. (ROWS - 1) * COLUMNS - 1 |-> raw[Deinterleaved(k)]]
  IN  Outcome(decode(Decode27(symbols)), raw)
=============================================================================
