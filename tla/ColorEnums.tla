----------------------------- MODULE ColorEnums -----------------------------
(***************************************************************************)
(* The enumerations of src/lib/cms/color_encoding_internal.h and the      *)
(* Values<Enum>() helper that lists the values of an enumeration from the  *)
(* bit set EnumBits() returns.                                             *)
(*                                                                         *)
(* An enumerator is its integer value.  The values are those of the        *)
(* jxl::cms enumerations (lib/cms/color_encoding.h, not part of this       *)
(* snapshot); they matter here because Values() recovers them from the     *)
(* positions of the bits.                                                  *)
(***************************************************************************)
EXTENDS Integers, Sequences, FiniteSets

CS == [RGB |-> 0, Gray |-> 1, XYB |-> 2, Unknown |-> 3]
WP == [D65 |-> 1, Custom |-> 2, E |-> 10, DCI |-> 11]
PR == [SRGB |-> 1, Custom |-> 2, P2100 |-> 9, P3 |-> 11]
TF == [T709 |-> 1, Unknown |-> 2, Linear |-> 8, SRGB |-> 13,
       PQ |-> 16, DCI |-> 17, HLG |-> 18]
RI == [Perceptual |-> 0, Relative |-> 1, Saturation |-> 2, Absolute |-> 3]

\* The enumerators of each enumeration, as a set of integers.
EnumRange(e) == {e[k] : k \in DOMAIN e}
Enums == [ColorSpace |-> CS, WhitePoint |-> WP, Primaries |-> PR,
          TransferFunction |-> TF, RenderingIntent |-> RI]

\* MakeBit: 1ULL << index.
MakeBit(index) == 2^index

\* EnumBits: the OR of the bits of every enumerator.  The bits are distinct,
\* so the OR is their sum.
EnumBits == [ColorSpace |->
               MakeBit(CS.RGB) + MakeBit(CS.Gray) + MakeBit(CS.XYB)
                 + MakeBit(CS.Unknown),
             WhitePoint |->
               MakeBit(WP.D65) + MakeBit(WP.Custom) + MakeBit(WP.E)
                 + MakeBit(WP.DCI),
             Primaries |->
               MakeBit(PR.SRGB) + MakeBit(PR.Custom) + MakeBit(PR.P2100)
                 + MakeBit(PR.P3),
             TransferFunction |->
               MakeBit(TF.T709) + MakeBit(TF.Linear) + MakeBit(TF.SRGB)
                 + MakeBit(TF.PQ) + MakeBit(TF.DCI) + MakeBit(TF.HLG)
                 + MakeBit(TF.Unknown),
             RenderingIntent |->
               MakeBit(RI.Perceptual) + MakeBit(RI.Relative)
                 + MakeBit(RI.Saturation) + MakeBit(RI.Absolute)]

\* Bit i of a non-negative integer.
Bit(b, i) == (b \div 2^i) % 2

\* Num0BitsBelowLS1Bit_Nonzero(bits): the index of the lowest set bit.
LowBit(bits) == CHOOSE i \in 0..63 : Bit(bits, i) = 1 /\ \A j \in 0..(i - 1) : Bit(bits, j) = 0

\* Mutant: the loop step written as bits -= 1.
ClearLS1Dec(bits) == bits - 1

\* bits &= bits - 1: clears the lowest set bit.
ClearLS1(bits) == bits - MakeBit(LowBit(bits))

\* Values(): while bits != 0, push the index of the lowest set bit and clear
\* it.  The loop as a recursive function of the remaining bits.
ValuesOf[bits \in Nat] ==
  IF bits = 0 THEN << >>
  ELSE << LowBit(bits) >> \o ValuesOf[ClearLS1(bits)]

\* Values<Enum>() for every enumeration.
Values == [e \in DOMAIN Enums |-> ValuesOf[EnumBits[e]]]

\* The elements of a sequence.
SeqRange(s) == {s[i] : i \in DOMAIN s}

\* Reference: the elements of a finite set of integers in increasing order.
Ascending(S) ==
  [i \in 1..Cardinality(S) |-> CHOOSE x \in S : Cardinality({y \in S : y < x}) = i - 1]

\* Values<Enum>() lists every enumerator of Enum exactly once, in increasing
\* order: the bit loop of color_encoding_internal.h:58-62 inverts EnumBits.
ValuesListEnums ==
  \A e \in DOMAIN Enums : Values[e] = Ascending(EnumRange(Enums[e]))
=============================================================================
