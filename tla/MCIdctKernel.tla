---------------------------- MODULE MCIdctKernel ----------------------------
(***************************************************************************)
(* Model-checking instance of IdctKernel: the blocks and the tables.       *)
(***************************************************************************)
EXTENDS IdctKernel

(* All-zero block (spec 8: must give an all-zero output). *)
BlockZero == [k \in 0..63 |-> 0]

(* DC-only block of the spec's scenario (coefficient 1024). *)
BlockDC == [k \in 0..63 |-> IF k = 0 THEN 1024 ELSE 0]

(* A dense block: signed coefficients at every position but 17, and the   *)
(* int16 extremes at 5 and 6.                                              *)
BlockDense ==
  [k \in 0..63 |-> CASE k = 5 -> -32768
                     [] k = 6 -> 32767
                     [] OTHER -> ((k * 37 + 11) % 61) - 30]

MCBlocks == {BlockZero, BlockDC, BlockDense}

(* Finite tables: multipliers 1..50, bias 1/2 at odd positions. *)
TabFinite ==
  [dequant |-> [k \in 0..63 |-> ((k * 7 + 3) % 50) + 1],
   bias    |-> [k \in 0..63 |-> IF k % 2 = 1 THEN Half ELSE 0]]

(* The same tables with non-finite entries where BlockDense, BlockDC and  *)
(* BlockZero all have zero coefficients (position 17).                     *)
TabNaN ==
  [dequant |-> [k \in 0..63 |-> IF k = 17 THEN NaN ELSE TabFinite.dequant[k]],
   bias    |-> [k \in 0..63 |-> IF k = 17 THEN NaN ELSE TabFinite.bias[k]]]

MCTables == {TabFinite, TabNaN}

(* The tables of the spec's DC scenario (section 8): multiplier[0] =      *)
(* 0.125, bias 0; the other entries are 1 and never used by BlockDC.       *)
TabDC ==
  [dequant |-> [k \in 0..63 |-> IF k = 0 THEN Inv(8) ELSE 1],
   bias    |-> [k \in 0..63 |-> 0]]

MCBlocksDC == {BlockDC}
MCTablesDC == {TabDC}

(* SpecDCScenario: the spec's concrete scenario, "coefficients [1024, 0,  *)
(* .., 0], multiplier[0] = 0.125, bias[0] = 0, output_size = 8 give a     *)
(* uniform 8 x 8 block of 16.0", as a statement about every call of       *)
(* InverseTransformBlock8x8 on that input.                                 *)
SpecDCScenario ==
  pc = "done" /\ call.q = BlockDC /\ call.tbl = TabDC /\ call.size = 8 =>
    \A y, x \in 0..7 : output[y * OutStride + x] = ToVal(16)
=============================================================================
