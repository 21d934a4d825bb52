-------------------------- MODULE IdctDispatchProofs --------------------------
(***************************************************************************)
(* Proofs that the dispatch of src/lib/jpegli/idct.cc is sound for every  *)
(* value of the constants: ChooseInverseTransform and the size-dependent  *)
(* branches of InverseTransformBlockGeneric never send a call into         *)
(* Compute1dIDCT's JXL_ABORT, and a call never stores outside the         *)
(* output_size x output_size block of the caller's area.                   *)
(*                                                                         *)
(* Neither property is inductive on its own: whether the next step stores *)
(* inside Region(call.size) or aborts depends on which path the call is   *)
(* on, and that in turn on ChooseInverseTransform having run for the scan *)
(* the call belongs to.  DispatchConsistent records exactly that, and      *)
(* IInv below is the inductive invariant.                                  *)
(***************************************************************************)
EXTENDS IdctKernelProofs

IInv == TypeOK /\ NoAbort /\ WritesInRegion /\ DispatchConsistent

-----------------------------------------------------------------------------
(* FirstStep on a dispatch chosen by ChooseFn: the 8x8 steps start only   *)
(* for sizes 8, 2 and 4, the DC copy only for size 1, and the             *)
(* Compute1dIDCT passes only for a size with a case.                       *)
LEMMA FirstStepFacts ==
  ASSUME NEW n \in Sizes
  PROVE  /\ FirstStep(ChooseFn(n), n) \in {"transpose1", "copy_dc", "columns"}
         /\ FirstStep(ChooseFn(n), n) = "transpose1" =>
              \/ ChooseFn(n) = "8x8" /\ n = 8
              \/ ChooseFn(n) = "generic" /\ n \in {2, 4}
         /\ FirstStep(ChooseFn(n), n) = "copy_dc" => n = 1
         /\ FirstStep(ChooseFn(n), n) = "columns" => n \in GeneralSizes
  BY SizeFacts DEF FirstStep, ChooseFn, DCTSIZE, GeneralSizes

(* A matrix of n rows and n columns stored from address 0 at stride        *)
(* OutStride lies in Region(n).                                            *)
LEMMA StoreRegion ==
  ASSUME NEW n \in Nat, NEW F
  PROVE  DOMAIN StoreMatrix(0, OutStride, n, n, F) \subseteq Region(n)
<1>1. DOMAIN StoreMatrix(0, OutStride, n, n, F) = Strided(0, OutStride, n, n)
  BY DEF StoreMatrix
<1>2. Strided(0, OutStride, n, n) \subseteq Region(n)
  <2> SUFFICES ASSUME NEW a \in Strided(0, OutStride, n, n) PROVE a \in Region(n)
    OBVIOUS
  <2>1. PICK r \in 0..n-1, c \in 0..n-1 : a = 0 + r * OutStride + c
    BY DEF Strided
  <2>. QED  BY <2>1, KernelAssumption DEF Region
<1>. QED  BY <1>1, <1>2

(* A memory access adds no abort, and the output cells it records are     *)
(* those it stores.                                                        *)
LEMMA AccessFacts ==
  ASSUME NEW R, NEW W, NEW OW, Access(R, W, OW), "Abort" \notin faults
  PROVE  /\ "Abort" \notin faults'
         /\ owritten' = owritten \cup DOMAIN OW
  BY DEF Access

(* The initial state satisfies the invariant. *)
LEMMA InitInv == Init => IInv
<1> SUFFICES ASSUME Init PROVE IInv
  OBVIOUS
<1>1. TypeOK
  BY InitType
<1>. QED  BY <1>1 DEF Init, IInv, NoAbort, WritesInRegion, DispatchConsistent

(* Reconfiguring a scan returns to the setup phase between calls. *)
LEMMA ConfigureScanInv ==
  ASSUME IInv, ConfigureScan
  PROVE  NoAbort' /\ WritesInRegion' /\ DispatchConsistent'
  BY DEF ConfigureScan, IInv, NoAbort, WritesInRegion, DispatchConsistent

(* ChooseInverseTransform establishes the dispatch of every component. *)
LEMMA ChooseInv ==
  ASSUME IInv, ChooseInverseTransform
  PROVE  NoAbort' /\ WritesInRegion' /\ DispatchConsistent'
<1>1. phase' = "decode" /\ UNCHANGED <<scaled_dct_size, pc, call, owritten, faults>>
  BY DEF ChooseInverseTransform
<1>2. \A c \in Comp : inverse_transform'[c] = ChooseFn(scaled_dct_size[c])
  BY DEF ChooseInverseTransform
<1>. QED  BY <1>1, <1>2 DEF IInv, NoAbort, WritesInRegion, DispatchConsistent

(* A call starts on the path FirstStep picks for the dispatch and size    *)
(* its component was configured with, with no output written yet.         *)
LEMMA BeginInv ==
  ASSUME IInv, NEW c \in Comp, NEW q \in Blocks, Begin(c, q)
  PROVE  NoAbort' /\ WritesInRegion' /\ DispatchConsistent'
<1> DEFINE n == scaled_dct_size[c]
<1>1. n \in Sizes
  BY DEF IInv, TypeOK
<1>2. inverse_transform[c] = ChooseFn(n)
  BY DEF Begin, IInv, DispatchConsistent
<1>3. /\ call'.size = n
      /\ call'.fn = ChooseFn(n)
      /\ pc' = FirstStep(ChooseFn(n), n)
  BY <1>2, Zenon DEF Begin
<1>4. UNCHANGED <<scaled_dct_size, inverse_transform, phase>>
  BY DEF Begin
<1>5. NoAbort'
  BY DEF Begin, IInv, NoAbort
<1>6. WritesInRegion'
  BY DEF Begin, WritesInRegion
<1>7. DispatchConsistent'
  <2>1. phase' = "decode" =>
          \A d \in Comp : inverse_transform'[d] = ChooseFn(scaled_dct_size'[d])
    BY <1>4 DEF IInv, DispatchConsistent
  <2>3. pc' \in {"transpose1", "pass1", "transpose2", "pass2", "box"} =>
          \/ call'.fn = "8x8" /\ call'.size = 8
          \/ call'.fn = "generic" /\ call'.size \in {2, 4}
    BY <1>1, <1>3, FirstStepFacts, Zenon
  <2>4. pc' = "copy_dc" => call'.size = 1
    BY <1>1, <1>3, FirstStepFacts, Zenon
  <2>5. pc' \in {"columns", "rows"} => call'.size \in GeneralSizes
    BY <1>1, <1>3, FirstStepFacts, Zenon
  <2>. QED  BY <2>1, <2>3, <2>4, <2>5 DEF DispatchConsistent
<1>. QED  BY <1>5, <1>6, <1>7

(* The passes of a call keep it on its path, add no abort, and store only *)
(* inside Region(call.size).                                               *)
LEMMA StepInv ==
  ASSUME IInv, Step, StepVarsOnly
  PROVE  NoAbort' /\ WritesInRegion' /\ DispatchConsistent'
<1> DEFINE Path8 == \/ call.fn = "8x8" /\ call.size = 8
                    \/ call.fn = "generic" /\ call.size \in {2, 4}
<1>0. /\ TypeOK /\ "Abort" \notin faults /\ owritten \subseteq Region(call.size)
      /\ DispatchConsistent
      /\ UNCHANGED <<scaled_dct_size, inverse_transform, phase, call>>
  BY DEF IInv, NoAbort, WritesInRegion, StepVarsOnly
<1>1. call.size \in Nat
  BY <1>0, CallSize
(* A step that moves along the 8x8 path and stores no output. *)
<1>2. ASSUME NEW R, NEW W, Access(R, W, NoW),
             pc \in {"transpose1", "pass1", "transpose2", "pass2"},
             pc' \in {"pass1", "transpose2", "pass2", "box"}
      PROVE  NoAbort' /\ WritesInRegion' /\ DispatchConsistent'
  <2>1. "Abort" \notin faults' /\ owritten' = owritten
    BY <1>0, <1>2, AccessFacts, NoWEmpty
  <2>2. Path8
    BY <1>0, <1>2 DEF DispatchConsistent
  <2>. QED  BY <1>0, <1>2, <2>1, <2>2 DEF NoAbort, WritesInRegion, DispatchConsistent
(* A step that finishes the call with the output stored in OW. *)
<1>3. ASSUME NEW R, NEW W, NEW OW, Access(R, W, OW), pc' = "done",
             DOMAIN OW \subseteq Region(call.size)
      PROVE  NoAbort' /\ WritesInRegion' /\ DispatchConsistent'
  <2>1. "Abort" \notin faults' /\ owritten' = owritten \cup DOMAIN OW
    BY <1>0, <1>3, AccessFacts
  <2>. QED  BY <1>0, <1>3, <2>1 DEF NoAbort, WritesInRegion, DispatchConsistent
<1>4. CASE Transpose("transpose1", "pass1") \/ Transpose("transpose2", "pass2")
  BY <1>4, <1>2 DEF Transpose, Goto
<1>5. CASE Pass1
  BY <1>5, <1>2 DEF Pass1, Goto
<1>6. CASE Pass2
  <2>1. CASE call.fn = "8x8"
    <3>1. call.size = 8
      BY <1>0, <1>6, <2>1 DEF Pass2, DispatchConsistent
    <3>2. DOMAIN StoreMatrix(0, OutStride, 8, 8, IDCT1DColumns(Block1)) \subseteq Region(call.size)
      BY <3>1, StoreRegion
    <3>. QED  BY <1>6, <2>1, <3>2, <1>3 DEF Pass2
  <2>2. CASE call.fn # "8x8"
    BY <1>6, <2>2, <1>2 DEF Pass2
  <2>. QED  BY <2>1, <2>2
<1>7. CASE BoxAverage
  <2> DEFINE t == DCTSIZE \div call.size
             Tile(iy, ix) == [i \in 1..t * t |->
                         Load(Block2 + (iy * t + (i - 1) \div t) * 8 + ix * t + ((i - 1) % t))]
             F == [iy \in 0..call.size-1 |-> [ix \in 0..call.size-1 |->
                           Mul(Inv(t * t), SumTo(Tile(iy, ix), t * t))]]
  <2>1. DOMAIN StoreMatrix(0, OutStride, call.size, call.size, F) \subseteq Region(call.size)
    BY <1>1, StoreRegion
  <2>. QED  BY <1>7, <2>1, <1>3 DEF BoxAverage, Goto
<1>8. CASE CopyDC
  <2>1. call.size = 1
    BY <1>0, <1>8 DEF CopyDC, Goto, DispatchConsistent
  <2>2. DOMAIN [a \in {0} |-> Load(Block0)] \subseteq Region(call.size)
    BY <2>1, KernelAssumption DEF Region
  <2>. QED  BY <1>8, <2>2, <1>3 DEF CopyDC, Goto
<1>9. CASE ColumnPass
  <2>1. call.size \in GeneralSizes
    BY <1>0, <1>9 DEF ColumnPass, DispatchConsistent
  <2>2. PICK R, W : pc' = "rows" /\ Access(R, W, NoW)
    BY <1>9, <2>1 DEF ColumnPass
  <2>3. "Abort" \notin faults' /\ owritten' = owritten
    BY <1>0, <2>2, AccessFacts, NoWEmpty
  <2>. QED  BY <1>0, <2>1, <2>2, <2>3 DEF NoAbort, WritesInRegion, DispatchConsistent
<1>10. CASE RowPass
  <2> DEFINE n == call.size
             insize == InSize(n)
             row(iy) == [k \in 0..insize-1 |-> Load(Block1 + iy * n + k)]
  <2>1. DOMAIN StoreMatrix(0, OutStride, n, n, [iy \in 0..n-1 |-> Compute1dIDCT(row(iy), n)])
          \subseteq Region(call.size)
    BY <1>1, StoreRegion
  <2>. QED  BY <1>10, <2>1, <1>3 DEF RowPass, RowPassTo, Goto
<1>. QED  BY <1>4, <1>5, <1>6, <1>7, <1>8, <1>9, <1>10 DEF Step

(* Every step preserves the invariant. *)
LEMMA NextInv == IInv /\ [Next]_vars => IInv'
<1> SUFFICES ASSUME IInv, [Next]_vars PROVE IInv'
  OBVIOUS
<1>0. TypeOK'
  BY NextType DEF IInv
<1>1. CASE ConfigureScan
  BY <1>0, <1>1, ConfigureScanInv DEF IInv
<1>2. CASE ChooseInverseTransform
  BY <1>0, <1>2, ChooseInv DEF IInv
<1>3. CASE \E c \in Comp, q \in Blocks : Begin(c, q)
  BY <1>0, <1>3, BeginInv DEF IInv
<1>4. CASE Step /\ StepVarsOnly
  BY <1>0, <1>4, StepInv DEF IInv
<1>5. CASE UNCHANGED vars
  BY <1>5 DEF vars, IInv, TypeOK, NoAbort, WritesInRegion, DispatchConsistent, Region
<1>. QED  BY <1>1, <1>2, <1>3, <1>4, <1>5 DEF Next

(* DispatchCorrect: in every reachable state the dispatch agrees with the *)
(* configured sizes and each call is on the path its size calls for, no   *)
(* call has reached Compute1dIDCT's JXL_ABORT, and every output store of   *)
(* the current call lies inside its output_size x output_size block.       *)
THEOREM DispatchCorrect == Spec => []IInv
<1>1. Init => IInv
  BY InitInv
<1>2. IInv /\ [Next]_vars => IInv'
  BY NextInv
<1>. QED  BY <1>1, <1>2, PTL DEF Spec

(* NoAbortCorrect: ChooseInverseTransform and InverseTransformBlockGeneric *)
(* never send a call of any configured size into the JXL_ABORT of          *)
(* Compute1dIDCT.                                                          *)
THEOREM NoAbortCorrect == Spec => []NoAbort
<1>1. IInv => NoAbort
  BY DEF IInv
<1>. QED  BY <1>1, DispatchCorrect, PTL

(* WritesInRegionCorrect: neither InverseTransformBlock8x8 nor             *)
(* InverseTransformBlockGeneric stores outside the output_size x          *)
(* output_size block of the caller's area, for any stride >= 16 and any   *)
(* set of sizes in 1..16.                                                  *)
THEOREM WritesInRegionCorrect == Spec => []WritesInRegion
<1>1. IInv => WritesInRegion
  BY DEF IInv
<1>. QED  BY <1>1, DispatchCorrect, PTL

(* DispatchConsistentCorrect: once ChooseInverseTransform has run, every  *)
(* component's function is the one its configured size calls for, and    *)
(* every call is on the path of its size: the 8x8 passes only for size 8  *)
(* and, through block2, sizes 2 and 4; the DC copy only for size 1; the   *)
(* Compute1dIDCT passes only for a size Compute1dIDCT has a case for.      *)
THEOREM DispatchConsistentCorrect == Spec => []DispatchConsistent
<1>1. IInv => DispatchConsistent
  BY DEF IInv
<1>. QED  BY <1>1, DispatchCorrect, PTL

=============================================================================
