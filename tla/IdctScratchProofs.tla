--------------------------- MODULE IdctScratchProofs ---------------------------
(***************************************************************************)
(* Proof that the block transforms of src/lib/jpegli/idct.cc stay inside  *)
(* the caller's scratch buffer, for every value of the constants, when    *)
(* the buffer holds what the configured sizes need.                        *)
(*                                                                         *)
(* The need is read off the code: the 8x8 path uses block0 and block1     *)
(* (128 floats), sizes 2 and 4 also block2 (192), size 1 only block0      *)
(* (64), and the Compute1dIDCT path block0 and block1 = scratch + 64       *)
(* indexed at iy * dctsize + ix, that is 64 + n * n floats.  The spec's    *)
(* "192 floats" is enough only for sizes up to 11.                         *)
(***************************************************************************)
EXTENDS IdctDispatchProofs

(* Floats of scratch space a call of output size n touches. *)
ScratchNeed(n) ==
  IF n \in {2, 4} THEN 3 * DCTSIZE2
  ELSE IF n = DCTSIZE THEN 2 * DCTSIZE2
  ELSE IF n = 1 THEN DCTSIZE2
  ELSE DCTSIZE2 + n * n

(* The caller's buffer holds what every configurable size needs. *)
ScratchEnough == \A n \in Sizes : ScratchNeed(n) <= ScratchSize

(* The invariant: the dispatch invariant, no overflow so far, and the box *)
(* average reached only on the generic path (through block2).             *)
SInv == IInv /\ NoScratchOverflow /\ (pc = "box" => call.fn = "generic")

-----------------------------------------------------------------------------
(* The cells of a rows x cols matrix at stride >= cols lie below           *)
(* base + rows * stride.                                                   *)
LEMMA StridedBound ==
  ASSUME NEW base \in Nat, NEW stride \in Nat, NEW rows \in Nat,
         NEW cols \in 0..stride
  PROVE  Strided(base, stride, rows, cols) \subseteq base..base + rows * stride - 1
<1> SUFFICES ASSUME NEW a \in Strided(base, stride, rows, cols)
             PROVE  a \in base..base + rows * stride - 1
  OBVIOUS
<1>1. PICK r \in 0..rows-1, c \in 0..cols-1 : a = base + r * stride + c
  BY DEF Strided
<1>2. r * stride + stride <= rows * stride
  <2>1. (rows - (r + 1)) * stride >= 0
    BY SMT
  <2>. QED  BY <2>1, SMT
<1>. QED  BY <1>1, <1>2, SMT

(* What ScratchEnough gives for one configured size. *)
LEMMA NeedFacts ==
  ASSUME ScratchEnough, NEW n \in Sizes
  PROVE  /\ DCTSIZE2 <= ScratchSize
         /\ n \in {2, 4, 8} => 2 * DCTSIZE2 <= ScratchSize
         /\ n \in {2, 4} => 3 * DCTSIZE2 <= ScratchSize
         /\ n \in GeneralSizes => DCTSIZE2 + n * n <= ScratchSize
<1>1. ScratchNeed(n) <= ScratchSize
  BY DEF ScratchEnough
<1>2. n \in 1..16
  BY SizeFacts
<1>3. DCTSIZE2 <= ScratchNeed(n)
  BY <1>2 DEF ScratchNeed, DCTSIZE2, DCTSIZE
<1>4. n \in {2, 4, 8} => 2 * DCTSIZE2 <= ScratchNeed(n)
  BY DEF ScratchNeed, DCTSIZE2, DCTSIZE
<1>5. n \in {2, 4} => 3 * DCTSIZE2 <= ScratchNeed(n)
  BY DEF ScratchNeed, DCTSIZE2, DCTSIZE
<1>6. n \in GeneralSizes => ScratchNeed(n) = DCTSIZE2 + n * n
  BY DEF ScratchNeed, GeneralSizes, DCTSIZE
<1>. QED  BY <1>1, <1>3, <1>4, <1>5, <1>6, KernelAssumption
          DEF ScratchNeed, DCTSIZE2, DCTSIZE

(* block0 and block1 fit a buffer of 128 floats, block2 one of 192. *)
LEMMA FastCells ==
  /\ DCTSIZE2 <= ScratchSize => Strided(Block0, 8, 8, 8) \subseteq ScratchAddr
  /\ 2 * DCTSIZE2 <= ScratchSize => Strided(Block1, 8, 8, 8) \subseteq ScratchAddr
  /\ 3 * DCTSIZE2 <= ScratchSize => Strided(Block2, 8, 8, 8) \subseteq ScratchAddr
<1>0. 0 \in Nat /\ 64 \in Nat /\ 128 \in Nat /\ 8 \in Nat /\ 8 \in 0..8
  OBVIOUS
<1>1. /\ Strided(0, 8, 8, 8) \subseteq 0..0 + 8 * 8 - 1
      /\ Strided(64, 8, 8, 8) \subseteq 64..64 + 8 * 8 - 1
      /\ Strided(128, 8, 8, 8) \subseteq 128..128 + 8 * 8 - 1
  BY <1>0, StridedBound, Zenon
<1>. QED  BY <1>1, KernelAssumption DEF Block0, Block1, Block2, DCTSIZE2, ScratchAddr

(* The two Compute1dIDCT passes touch the first insize x insize           *)
(* coefficients of block0 and the n x n floats of block1.                 *)
LEMMA GeneralCells ==
  ASSUME NEW n \in Nat, DCTSIZE2 <= ScratchSize, DCTSIZE2 + n * n <= ScratchSize
  PROVE  /\ Strided(Block0, DCTSIZE, InSize(n), InSize(n)) \subseteq ScratchAddr
         /\ Strided(Block1, n, n, InSize(n)) \subseteq ScratchAddr
<1>1. InSize(n) \in 0..n /\ InSize(n) \in 0..8
  BY DEF InSize, Min, DCTSIZE
<1>0. 0 \in Nat /\ 64 \in Nat /\ 8 \in Nat /\ InSize(n) \in Nat /\ InSize(n) \in 0..8
  BY <1>1
<1>2. Strided(0, 8, InSize(n), InSize(n)) \subseteq 0..0 + InSize(n) * 8 - 1
  BY <1>0, StridedBound, Zenon
<1>3. Strided(64, n, n, InSize(n)) \subseteq 64..64 + n * n - 1
  BY <1>0, <1>1, StridedBound, Zenon
<1>4. InSize(n) * 8 <= 64
  BY <1>1
<1>5. 0..0 + InSize(n) * 8 - 1 \subseteq ScratchAddr
  BY <1>0, <1>4, KernelAssumption DEF DCTSIZE2, ScratchAddr
<1>6. 64..64 + n * n - 1 \subseteq ScratchAddr
  BY KernelAssumption DEF DCTSIZE2, ScratchAddr
<1>. QED  BY <1>2, <1>3, <1>5, <1>6 DEF Block0, Block1, DCTSIZE, DCTSIZE2

(* An access inside the buffer records no overflow. *)
LEMMA AccessInBounds ==
  ASSUME NEW R, NEW W, NEW OW, Access(R, W, OW),
         R \subseteq ScratchAddr, DOMAIN W \subseteq ScratchAddr,
         "ScratchOverflow" \notin faults
  PROVE  "ScratchOverflow" \notin faults'
  BY DEF Access

(* The current call's size is configured, and the buffer holds its need. *)
LEMMA CallNeed ==
  ASSUME ScratchEnough, TypeOK
  PROVE  /\ call.size \in Nat
         /\ DCTSIZE2 <= ScratchSize
         /\ call.size \in {2, 4, 8} => 2 * DCTSIZE2 <= ScratchSize
         /\ call.size \in {2, 4} => 3 * DCTSIZE2 <= ScratchSize
         /\ call.size \in GeneralSizes => DCTSIZE2 + call.size * call.size <= ScratchSize
<1>1. call.size \in Sizes
  BY Zenon DEF TypeOK, Calls
<1>2. call.size \in Nat
  BY <1>1, SizeFacts, Zenon
<1>. QED  BY <1>1, <1>2, NeedFacts, Zenon

(* The passes of a call touch only the blocks its path uses. *)
LEMMA StepScratch ==
  ASSUME ScratchEnough, SInv, Step, StepVarsOnly
  PROVE  "ScratchOverflow" \notin faults' /\ (pc' = "box" => call'.fn = "generic")
<1>0. /\ TypeOK /\ NoAbort /\ DispatchConsistent
      /\ "ScratchOverflow" \notin faults
      /\ pc = "box" => call.fn = "generic"
      /\ call' = call
  BY DEF SInv, IInv, NoScratchOverflow, StepVarsOnly
<1>1. /\ call.size \in Nat
      /\ DCTSIZE2 <= ScratchSize
      /\ call.size \in {2, 4, 8} => 2 * DCTSIZE2 <= ScratchSize
      /\ call.size \in {2, 4} => 3 * DCTSIZE2 <= ScratchSize
      /\ call.size \in GeneralSizes => DCTSIZE2 + call.size * call.size <= ScratchSize
  BY <1>0, CallNeed
<1>2. pc \in {"transpose1", "pass1", "transpose2", "pass2", "box"} =>
        /\ Strided(Block0, 8, 8, 8) \subseteq ScratchAddr
        /\ Strided(Block1, 8, 8, 8) \subseteq ScratchAddr
  BY <1>0, <1>1, FastCells DEF DispatchConsistent
<1>3. CASE Transpose("transpose1", "pass1") \/ Transpose("transpose2", "pass2")
  <2>1. /\ pc \in {"transpose1", "transpose2"}
        /\ pc' \in {"pass1", "pass2"}
        /\ Access(Strided(Block0, 8, 8, 8),
                  StoreMatrix(Block1, 8, 8, 8, [r \in 0..7 |-> [c \in 0..7 |-> Load(Block0 + c * 8 + r)]]),
                  NoW)
    BY <1>3 DEF Transpose, Goto
  <2>. QED  BY <1>0, <1>2, <2>1, AccessInBounds DEF StoreMatrix
<1>4. CASE Pass1
  <2>1. /\ pc = "pass1" /\ pc' = "transpose2"
        /\ Access(Strided(Block1, 8, 8, 8),
                  StoreMatrix(Block0, 8, 8, 8, IDCT1DColumns(Block1)), NoW)
    BY <1>4 DEF Pass1, Goto
  <2>. QED  BY <1>0, <1>2, <2>1, AccessInBounds DEF StoreMatrix
<1>5. CASE Pass2
  <2>1. CASE call.fn = "8x8"
    <3>1. /\ pc' = "done"
          /\ Access(Strided(Block1, 8, 8, 8), NoW,
                    StoreMatrix(0, OutStride, 8, 8, IDCT1DColumns(Block1)))
      BY <1>5, <2>1 DEF Pass2
    <3>2. Strided(Block1, 8, 8, 8) \subseteq ScratchAddr
      BY <1>2, <1>5 DEF Pass2
    <3>. QED  BY <1>0, <3>1, <3>2, NoWEmpty, AccessInBounds
  <2>2. CASE call.fn # "8x8"
    <3>1. /\ pc' = "box"
          /\ Access(Strided(Block1, 8, 8, 8),
                    StoreMatrix(Block2, 8, 8, 8, IDCT1DColumns(Block1)), NoW)
      BY <1>5, <2>2 DEF Pass2
    <3>2. call.fn = "generic" /\ call.size \in {2, 4}
      BY <1>0, <1>5, <2>2 DEF Pass2, DispatchConsistent
    <3>3. Strided(Block1, 8, 8, 8) \subseteq ScratchAddr
      BY <1>2, <1>5 DEF Pass2
    <3>4. Strided(Block2, 8, 8, 8) \subseteq ScratchAddr
      BY <1>1, <3>2, FastCells
    <3>. QED  BY <1>0, <3>1, <3>2, <3>3, <3>4, AccessInBounds DEF StoreMatrix
  <2>. QED  BY <2>1, <2>2
<1>6. CASE BoxAverage
  <2>1. pc = "box" /\ pc' = "done"
    BY <1>6 DEF BoxAverage, Goto
  <2>2. call.size \in {2, 4}
    BY <1>0, <2>1 DEF DispatchConsistent
  <2>3. Strided(Block2, 8, 8, 8) \subseteq ScratchAddr
    BY <1>1, <2>2, FastCells
  <2>4. \E OW : Access(Strided(Block2, 8, 8, 8), NoW, OW)
    BY <1>6 DEF BoxAverage
  <2>. QED  BY <1>0, <2>1, <2>3, <2>4, NoWEmpty, AccessInBounds
<1>7. CASE CopyDC
  <2>1. pc' = "done" /\ Access({Block0}, NoW, [a \in {0} |-> Load(Block0)])
    BY <1>7 DEF CopyDC, Goto
  <2>2. {Block0} \subseteq ScratchAddr
    BY <1>1, KernelAssumption DEF Block0, DCTSIZE2, ScratchAddr
  <2>. QED  BY <1>0, <2>1, <2>2, NoWEmpty, AccessInBounds
<1>8. CASE ColumnPass
  <2>1. call.size \in GeneralSizes
    BY <1>0, <1>8 DEF ColumnPass, DispatchConsistent
  <2>2. /\ Strided(Block0, DCTSIZE, InSize(call.size), InSize(call.size)) \subseteq ScratchAddr
        /\ Strided(Block1, call.size, call.size, InSize(call.size)) \subseteq ScratchAddr
    BY <1>1, <2>1, GeneralCells
  <2>3. /\ pc' = "rows"
        /\ \E W : /\ DOMAIN W = Strided(Block1, call.size, call.size, InSize(call.size))
                  /\ Access(Strided(Block0, DCTSIZE, InSize(call.size), InSize(call.size)), W, NoW)
    BY <1>8, <2>1 DEF ColumnPass, StoreMatrix
  <2>. QED  BY <1>0, <2>2, <2>3, AccessInBounds
<1>9. CASE RowPass
  <2>1. pc = "rows" /\ pc' = "done"
    BY <1>9 DEF RowPass, RowPassTo, Goto
  <2>2. call.size \in GeneralSizes
    BY <1>0, <2>1 DEF DispatchConsistent
  <2>3. Strided(Block1, call.size, call.size, InSize(call.size)) \subseteq ScratchAddr
    BY <1>1, <2>2, GeneralCells
  <2>4. \E OW : Access(Strided(Block1, call.size, call.size, InSize(call.size)), NoW, OW)
    BY <1>9 DEF RowPass, RowPassTo
  <2>. QED  BY <1>0, <2>1, <2>3, <2>4, NoWEmpty, AccessInBounds
<1>. QED  BY <1>3, <1>4, <1>5, <1>6, <1>7, <1>8, <1>9 DEF Step

(* Every step preserves SInv. *)
LEMMA NextScratch ==
  ASSUME ScratchEnough
  PROVE  SInv /\ [Next]_vars => SInv'
<1> SUFFICES ASSUME SInv, [Next]_vars PROVE SInv'
  OBVIOUS
<1>0. IInv'
  BY NextInv DEF SInv
<1>1. CASE ConfigureScan
  BY <1>0, <1>1 DEF ConfigureScan, SInv, NoScratchOverflow
<1>2. CASE ChooseInverseTransform
  BY <1>0, <1>2 DEF ChooseInverseTransform, SInv, NoScratchOverflow
<1>3. CASE \E c \in Comp, q \in Blocks : Begin(c, q)
  <2>1. PICK c \in Comp, q \in Blocks : Begin(c, q)
    BY <1>3
  <2>2. scaled_dct_size[c] \in Sizes
    BY DEF SInv, IInv, TypeOK
  <2>3. Strided(Block0, 8, 8, 8) \subseteq ScratchAddr
    BY <2>2, NeedFacts, FastCells
  <2>4. "ScratchOverflow" \notin faults'
    BY <2>1, <2>3 DEF Begin, SInv, NoScratchOverflow
  <2>5. pc' # "box"
    BY <2>1 DEF Begin, FirstStep
  <2>. QED  BY <1>0, <2>4, <2>5 DEF SInv, NoScratchOverflow
<1>4. CASE Step /\ StepVarsOnly
  BY <1>0, <1>4, StepScratch DEF SInv, NoScratchOverflow
<1>5. CASE UNCHANGED vars
  BY <1>0, <1>5 DEF vars, SInv, NoScratchOverflow
<1>. QED  BY <1>1, <1>2, <1>3, <1>4, <1>5 DEF Next

(* ScratchSafe: when the caller's scratch_space holds 128 floats for the  *)
(* 8x8 transform, 192 for output sizes 2 and 4, 64 for size 1 and         *)
(* 64 + n * n for the sizes Compute1dIDCT serves (block1 = scratch + 64    *)
(* indexed at iy * dctsize + ix), no step of InverseTransformBlock8x8 or   *)
(* InverseTransformBlockGeneric loads or stores outside it.               *)
THEOREM ScratchSafe ==
  ASSUME ScratchEnough
  PROVE  Spec => []NoScratchOverflow
<1>1. Init => SInv
  BY InitInv DEF Init, SInv, NoScratchOverflow
<1>2. SInv /\ [Next]_vars => SInv'
  BY NextScratch
<1>3. SInv => NoScratchOverflow
  BY DEF SInv
<1>. QED  BY <1>1, <1>2, <1>3, PTL DEF Spec

=============================================================================
