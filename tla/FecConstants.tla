---------------------------- MODULE FecConstants ----------------------------
(***************************************************************************)
(* src/common/fecConstants.h and the tables of src/common/viterbi.cpp: the *)
(* AO-40 telemetry code.  Tables are sequences, entry i of the source is   *)
(* element i + 1.                                                          *)
(***************************************************************************)
EXTENDS Integers

K == 7
CPOLYA == 79
CPOLYB == 109
SYNC_POLY == 72

NN == 255
KK == 223
NROOTS == 32
A0 == NN
FCR == 112
PRIM == 11
IPRIM == 116
RSBLOCKS == 2

(* The generator polynomial: half of its palindrome, in index form.       *)
RS_poly == <<
  249, 59, 66, 4, 43, 126, 251, 97, 30, 3, 213, 50, 66, 170, 5, 24 >>

(* GF(256): powers of the primitive element, and logarithms.              *)
ALPHA_TO == <<
  1, 2, 4, 8, 16, 32, 64, 128, 135, 137, 149, 173, 221, 61, 122, 244, 111, 222, 59, 118, 236, 95, 190, 251,
  113, 226, 67, 134, 139, 145, 165, 205, 29, 58, 116, 232, 87, 174, 219, 49, 98, 196, 15, 30, 60, 120, 240, 103,
  206, 27, 54, 108, 216, 55, 110, 220, 63, 126, 252, 127, 254, 123, 246, 107, 214, 43, 86, 172, 223, 57, 114, 228,
  79, 158, 187, 241, 101, 202, 19, 38, 76, 152, 183, 233, 85, 170, 211, 33, 66, 132, 143, 153, 181, 237, 93, 186,
  243, 97, 194, 3, 6, 12, 24, 48, 96, 192, 7, 14, 28, 56, 112, 224, 71, 142, 155, 177, 229, 77, 154, 179,
  225, 69, 138, 147, 161, 197, 13, 26, 52, 104, 208, 39, 78, 156, 191, 249, 117, 234, 83, 166, 203, 17, 34, 68,
  136, 151, 169, 213, 45, 90, 180, 239, 89, 178, 227, 65, 130, 131, 129, 133, 141, 157, 189, 253, 125, 250, 115, 230,
  75, 150, 171, 209, 37, 74, 148, 175, 217, 53, 106, 212, 47, 94, 188, 255, 121, 242, 99, 198, 11, 22, 44, 88,
  176, 231, 73, 146, 163, 193, 5, 10, 20, 40, 80, 160, 199, 9, 18, 36, 72, 144, 167, 201, 21, 42, 84, 168,
  215, 41, 82, 164, 207, 25, 50, 100, 200, 23, 46, 92, 184, 247, 105, 210, 35, 70, 140, 159, 185, 245, 109, 218,
  51, 102, 204, 31, 62, 124, 248, 119, 238, 91, 182, 235, 81, 162, 195, 0 >>

INDEX_OF == <<
  255, 0, 1, 99, 2, 198, 100, 106, 3, 205, 199, 188, 101, 126, 107, 42, 4, 141, 206, 78, 200, 212, 189, 225,
  102, 221, 127, 49, 108, 32, 43, 243, 5, 87, 142, 232, 207, 172, 79, 131, 201, 217, 213, 65, 190, 148, 226, 180,
  103, 39, 222, 240, 128, 177, 50, 53, 109, 69, 33, 18, 44, 13, 244, 56, 6, 155, 88, 26, 143, 121, 233, 112,
  208, 194, 173, 168, 80, 117, 132, 72, 202, 252, 218, 138, 214, 84, 66, 36, 191, 152, 149, 249, 227, 94, 181, 21,
  104, 97, 40, 186, 223, 76, 241, 47, 129, 230, 178, 63, 51, 238, 54, 16, 110, 24, 70, 166, 34, 136, 19, 247,
  45, 184, 14, 61, 245, 164, 57, 59, 7, 158, 156, 157, 89, 159, 27, 8, 144, 9, 122, 28, 234, 160, 113, 90,
  209, 29, 195, 123, 174, 10, 169, 145, 81, 91, 118, 114, 133, 161, 73, 235, 203, 124, 253, 196, 219, 30, 139, 210,
  215, 146, 85, 170, 67, 11, 37, 175, 192, 115, 153, 119, 150, 92, 250, 82, 228, 236, 95, 74, 182, 162, 22, 134,
  105, 197, 98, 254, 41, 125, 187, 204, 224, 211, 77, 140, 242, 31, 48, 220, 130, 171, 231, 86, 179, 147, 64, 216,
  52, 176, 239, 38, 55, 12, 17, 68, 111, 120, 25, 154, 71, 116, 167, 193, 35, 83, 137, 251, 20, 93, 248, 151,
  46, 75, 185, 96, 15, 237, 62, 229, 246, 135, 165, 23, 58, 163, 60, 183 >>

(* What each byte of a frame is scrambled with.                            *)
Scrambler == <<
  255, 72, 14, 192, 154, 13, 112, 188, 142, 44, 147, 173, 167, 183, 70, 206, 90, 151, 125, 204, 50, 162, 191, 62,
  10, 16, 241, 136, 148, 205, 234, 177, 254, 144, 29, 129, 52, 26, 225, 121, 28, 89, 39, 91, 79, 110, 141, 156,
  181, 46, 251, 152, 101, 69, 126, 124, 20, 33, 227, 17, 41, 155, 213, 99, 253, 32, 59, 2, 104, 53, 194, 242,
  56, 178, 78, 182, 158, 221, 27, 57, 106, 93, 247, 48, 202, 138, 252, 248, 40, 67, 198, 34, 83, 55, 170, 199,
  250, 64, 118, 4, 208, 107, 133, 228, 113, 100, 157, 109, 61, 186, 54, 114, 212, 187, 238, 97, 149, 21, 249, 240,
  80, 135, 140, 68, 166, 111, 85, 143, 244, 128, 236, 9, 160, 215, 11, 200, 226, 201, 58, 218, 123, 116, 108, 229,
  169, 119, 220, 195, 42, 43, 243, 224, 161, 15, 24, 137, 76, 222, 171, 31, 233, 1, 216, 19, 65, 174, 23, 145,
  197, 146, 117, 180, 246, 232, 217, 203, 82, 239, 185, 134, 84, 87, 231, 193, 66, 30, 49, 18, 153, 189, 86, 63,
  210, 3, 176, 38, 131, 92, 47, 35, 139, 36, 235, 105, 237, 209, 179, 150, 165, 223, 115, 12, 168, 175, 207, 130,
  132, 60, 98, 37, 51, 122, 172, 127, 164, 7, 96, 77, 6, 184, 94, 71, 22, 73, 214, 211, 219, 163, 103, 45,
  75, 190, 230, 25, 81, 95, 159, 5, 8, 120, 196, 74, 102, 245, 88, 255, 72, 14, 192, 154, 13, 112, 188, 142,
  44, 147, 173, 167, 183, 70, 206, 90, 151, 125, 204, 50, 162, 191, 62, 10, 16, 241, 136, 148, 205, 234, 177, 254,
  144, 29, 129, 52, 26, 225, 121, 28, 89, 39, 91, 79, 110, 141, 156, 181, 46, 251, 152, 101, 69, 126, 124, 20,
  33, 227, 17, 41, 155, 213, 99, 253 >>

(* viterbi.cpp: the pair of symbols that each state of the encoder emits.  *)
viterbi_syms == <<
  1, 2, 3, 0, 2, 1, 0, 3, 2, 1, 0, 3, 1, 2, 3, 0, 1, 2, 3, 0, 2, 1, 0, 3, 2, 1, 0, 3, 1, 2, 3, 0,
  0, 3, 2, 1, 3, 0, 1, 2, 3, 0, 1, 2, 0, 3, 2, 1, 0, 3, 2, 1, 3, 0, 1, 2, 3, 0, 1, 2, 0, 3, 2, 1,
  2, 1, 0, 3, 1, 2, 3, 0, 1, 2, 3, 0, 2, 1, 0, 3, 2, 1, 0, 3, 1, 2, 3, 0, 1, 2, 3, 0, 2, 1, 0, 3,
  3, 0, 1, 2, 0, 3, 2, 1, 0, 3, 2, 1, 3, 0, 1, 2, 3, 0, 1, 2, 0, 3, 2, 1, 0, 3, 2, 1, 3, 0, 1, 2 >>

(* viterbi.cpp, viterbi_mettab: how well a received level goes with a sent *)
(* 0 or 1, for three of its 256 levels: a clear 0, no signal, a clear 1.   *)
Levels == {32, 128, 224}
viterbi_mettab ==
  [sent \in {0, 1} |->
     [level \in Levels |->
        IF sent = 0 THEN (CASE level = 32 -> 20 [] level = 128 -> -1 [] OTHER -> -255)
                    ELSE (CASE level = 32 -> -252 [] level = 128 -> 1 [] OTHER -> 20)]]
=============================================================================
