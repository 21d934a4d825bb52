--------------------------- MODULE IdctKernelProofs ---------------------------
(***************************************************************************)
(* Proofs about IdctKernel for every value of the constants: the block     *)
(* transform keeps every float it stores a float (or NaN), every address   *)
(* it records an address, and the dispatch chosen per component keeps      *)
(* each call's stores inside the block the caller asked for.               *)
(***************************************************************************)
EXTENDS IdctKernel, TLAPS

-----------------------------------------------------------------------------
(* x % P is a residue.                                                     *)
LEMMA ModRange == \A x \in Int : x % P \in 0..P-1
  BY FieldAssumption

(* Field arithmetic never leaves Val: a result is a residue or NaN.        *)
LEMMA ValClosed ==
  \A a, b : /\ Add(a, b) \in Val
            /\ Sub(a, b) \in Val
            /\ Mul(a, b) \in Val
<1> SUFFICES ASSUME NEW a, NEW b
             PROVE  Add(a, b) \in Val /\ Sub(a, b) \in Val /\ Mul(a, b) \in Val
  OBVIOUS
<1>1. CASE a \in Fin /\ b \in Fin
  <2>1. a + b \in Int /\ a - b \in Int /\ a * b \in Int
    BY <1>1, FieldAssumption DEF Fin
  <2>. QED  BY <1>1, <2>1, ModRange DEF Add, Sub, Mul, Val, Fin
<1>2. CASE ~(a \in Fin /\ b \in Fin)
  BY <1>2 DEF Add, Sub, Mul, Val
<1>. QED  BY <1>1, <1>2

(* Division by the stride recovers row and column.                         *)
LEMMA DivMod ==
  ASSUME NEW s \in Nat \ {0}, NEW r \in Nat, NEW c \in 0..s-1
  PROVE  (r * s + c) \div s = r /\ (r * s + c) % s = c
  BY SMT

(* A strided store of a matrix of floats stores floats, at integer        *)
(* addresses.                                                              *)
LEMMA StoreMatrixVal ==
  ASSUME NEW base \in Int, NEW stride \in Nat \ {0}, NEW rows \in Nat,
         NEW cols \in 0..stride,
         NEW F \in [0..rows-1 -> [0..cols-1 -> Val]]
  PROVE  /\ DOMAIN StoreMatrix(base, stride, rows, cols, F)
              = Strided(base, stride, rows, cols)
         /\ Strided(base, stride, rows, cols) \subseteq Int
         /\ \A a \in Strided(base, stride, rows, cols) :
              StoreMatrix(base, stride, rows, cols, F)[a] \in Val
<1>1. DOMAIN StoreMatrix(base, stride, rows, cols, F) = Strided(base, stride, rows, cols)
  BY DEF StoreMatrix
<1>2. Strided(base, stride, rows, cols) \subseteq Int
  BY DEF Strided
<1>3. ASSUME NEW a \in Strided(base, stride, rows, cols)
      PROVE  StoreMatrix(base, stride, rows, cols, F)[a] \in Val
  <2>1. PICK r \in 0..rows-1, c \in 0..cols-1 : a = base + r * stride + c
    BY DEF Strided
  <2>2. r \in Nat /\ c \in 0..stride-1
    OBVIOUS
  <2>3. (a - base) \div stride = r /\ (a - base) % stride = c
    <3>1. a - base = r * stride + c
      BY <2>1
    <3>2. (r * stride + c) \div stride = r /\ (r * stride + c) % stride = c
      BY <2>2, DivMod, Zenon
    <3>. QED  BY <3>1, <3>2
  <2>4. StoreMatrix(base, stride, rows, cols, F)[a] = F[r][c]
    BY <2>3, Zenon DEF StoreMatrix
  <2>. QED  BY <2>4
<1>. QED  BY <1>1, <1>2, <1>3

(* A load from scratch yields a float (NaN outside the buffer).            *)
LEMMA LoadVal ==
  ASSUME TypeOK, NEW a
  PROVE  Load(a) \in Val
  BY DEF Load, TypeOK, Val, NaN

(* One memory step (Access) keeps the state typed when what it stores is  *)
(* typed.                                                                  *)
LEMMA AccessType ==
  ASSUME TypeOK, NEW R, NEW W, NEW OW,
         \A a \in DOMAIN W : W[a] \in Val,
         \A a \in DOMAIN OW : OW[a] \in Val,
         DOMAIN OW \subseteq Int,
         Access(R, W, OW)
  PROVE  /\ scratch' \in [ScratchAddr -> Val]
         /\ output' \in [OutAddr -> Val]
         /\ fresh' \subseteq ScratchAddr
         /\ owritten' \subseteq Int
         /\ faults' \subseteq Faults
  BY DEF Access, TypeOK, Faults

(* The 8-point factorised transform returns eight floats.                  *)
LEMMA IDCT8Val ==
  ASSUME NEW v
  PROVE  \A k \in 0..7 : IDCT1DImpl8(v)[k] \in Val
  BY ValClosed DEF IDCT1DImpl8, Butterfly, MultiplyAndAdd

(* Both passes of ComputeScaledIDCT produce an 8 x 8 matrix of floats.     *)
LEMMA ColumnsVal ==
  ASSUME NEW from
  PROVE  IDCT1DColumns(from) \in [0..7 -> [0..7 -> Val]]
<1>1. \A c, r \in 0..7 : IDCT1DImpl8(Column8(from, c))[r] \in Val
  BY IDCT8Val
<1>. QED  BY <1>1 DEF IDCT1DColumns

(* Compute1dIDCT returns N floats.                                         *)
LEMMA Compute1dVal ==
  ASSUME NEW in, NEW N
  PROVE  Compute1dIDCT(in, N) \in [0..N-1 -> Val]
  BY ValClosed DEF Compute1dIDCT, EvenSum

-----------------------------------------------------------------------------
(***************************************************************************)
(* Type correctness, one action at a time.                                 *)
(***************************************************************************)

(* A step of a block transform that performs one typed memory access and  *)
(* moves to a step of the transform keeps the state typed.                 *)
LEMMA StepType ==
  ASSUME TypeOK, StepVarsOnly, pc' \in Steps, NEW R, NEW W, NEW OW,
         \A a \in DOMAIN W : W[a] \in Val,
         \A a \in DOMAIN OW : OW[a] \in Val,
         DOMAIN OW \subseteq Int,
         Access(R, W, OW)
  PROVE  TypeOK'
<1>1. /\ scratch' \in [ScratchAddr -> Val]
      /\ output' \in [OutAddr -> Val]
      /\ fresh' \subseteq ScratchAddr
      /\ owritten' \subseteq Int
      /\ faults' \subseteq Faults
  BY AccessType
<1>. QED  BY <1>1 DEF TypeOK, StepVarsOnly

(* Nothing is stored through NoW. *)
LEMMA NoWEmpty == DOMAIN NoW = {}
  BY DEF NoW

(* Transpose8x8Block copies floats. *)
LEMMA TransposeType ==
  ASSUME TypeOK, StepVarsOnly, NEW from, NEW to \in Steps, Transpose(from, to)
  PROVE  TypeOK'
<1> DEFINE F == [r \in 0..7 |-> [c \in 0..7 |-> Load(Block0 + c * 8 + r)]]
           W == StoreMatrix(Block1, 8, 8, 8, F)
<1>1. F \in [0..7 -> [0..7 -> Val]]
  BY LoadVal
<1>2. \A a \in DOMAIN W : W[a] \in Val
  <2>1. Block1 \in Int /\ 8 \in Nat \ {0} /\ 8 \in Nat /\ 8 \in 0..8
    BY DEF Block1, DCTSIZE2
  <2>2. F \in [0..8-1 -> [0..8-1 -> Val]]
    BY <1>1
  <2>. QED  BY <2>1, <2>2, StoreMatrixVal, Zenon
<1>3. Access(Strided(Block0, 8, 8, 8), W, NoW) /\ pc' = to
  BY DEF Transpose, Goto
<1>. QED  BY <1>2, <1>3, NoWEmpty, StepType

(* Small constants the strided stores use. *)
LEMMA Consts ==
  /\ Block0 \in Int /\ Block1 \in Int /\ Block2 \in Int
  /\ 8 \in Nat \ {0} /\ 8 \in Nat /\ 8 \in 0..8
  BY DEF Block0, Block1, Block2, DCTSIZE2

(* The first pass stores the column transforms into block0. *)
LEMMA Pass1Type ==
  ASSUME TypeOK, StepVarsOnly, Pass1
  PROVE  TypeOK'
<1> DEFINE W == StoreMatrix(Block0, 8, 8, 8, IDCT1DColumns(Block1))
<1>1. IDCT1DColumns(Block1) \in [0..8-1 -> [0..8-1 -> Val]]
  BY ColumnsVal
<1>2. \A a \in DOMAIN W : W[a] \in Val
  BY <1>1, Consts, StoreMatrixVal, Zenon
<1>3. Access(Strided(Block1, 8, 8, 8), W, NoW) /\ pc' = "transpose2"
  BY DEF Pass1, Goto
<1>. QED  BY <1>2, <1>3, NoWEmpty, StepType DEF Steps

(* The second pass stores into the caller's output (8x8) or block2. *)
LEMMA Pass2Type ==
  ASSUME TypeOK, StepVarsOnly, Pass2
  PROVE  TypeOK'
<1>1. IDCT1DColumns(Block1) \in [0..8-1 -> [0..8-1 -> Val]]
  BY ColumnsVal
<1>2. CASE call.fn = "8x8"
  <2> DEFINE OW == StoreMatrix(0, OutStride, 8, 8, IDCT1DColumns(Block1))
  <2>1. 0 \in Int /\ OutStride \in Nat \ {0} /\ 8 \in 0..OutStride
    BY KernelAssumption
  <2>2. /\ DOMAIN OW = Strided(0, OutStride, 8, 8)
        /\ Strided(0, OutStride, 8, 8) \subseteq Int
        /\ \A a \in Strided(0, OutStride, 8, 8) : OW[a] \in Val
    BY <1>1, <2>1, Consts, StoreMatrixVal
  <2>3. Access(Strided(Block1, 8, 8, 8), NoW, OW) /\ pc' = "done"
    BY <1>2 DEF Pass2
  <2>. QED  BY <2>2, <2>3, NoWEmpty, StepType DEF Steps
<1>3. CASE call.fn # "8x8"
  <2> DEFINE W == StoreMatrix(Block2, 8, 8, 8, IDCT1DColumns(Block1))
  <2>1. \A a \in DOMAIN W : W[a] \in Val
    BY <1>1, Consts, StoreMatrixVal, Zenon
  <2>2. Access(Strided(Block1, 8, 8, 8), W, NoW) /\ pc' = "box"
    BY <1>3 DEF Pass2
  <2>. QED  BY <2>1, <2>2, NoWEmpty, StepType DEF Steps
<1>. QED  BY <1>2, <1>3

(* Every configured size is a valid size and fits the output stride. *)
LEMMA SizeFacts ==
  \A n \in Sizes : n \in 1..16 /\ n \in Nat \ {0} /\ n \in 0..OutStride
  BY KernelAssumption

(* The output size of the current call is a valid size. *)
LEMMA CallSize ==
  ASSUME TypeOK
  PROVE  /\ call.size \in 1..16
         /\ call.size \in Nat \ {0}
         /\ call.size \in 0..OutStride
<1>1. call.size \in Sizes
  BY Zenon DEF TypeOK, Calls
<1>. QED  BY <1>1, SizeFacts, Zenon

(* OutStride is a valid stride. *)
LEMMA OutStrideOK == 0 \in Int /\ OutStride \in Nat \ {0}
  BY KernelAssumption

(* The box average stores averages of floats. *)
LEMMA BoxAverageType ==
  ASSUME TypeOK, StepVarsOnly, BoxAverage
  PROVE  TypeOK'
<1> DEFINE n  == call.size
           t  == DCTSIZE \div n
           Tile(iy, ix) == [i \in 1..t * t |->
                              Load(Block2 + (iy * t + (i - 1) \div t) * 8 + ix * t + ((i - 1) % t))]
           F  == [iy \in 0..n-1 |-> [ix \in 0..n-1 |-> Mul(Inv(t * t), SumTo(Tile(iy, ix), t * t))]]
           OW == StoreMatrix(0, OutStride, n, n, F)
<1>1. F \in [0..n-1 -> [0..n-1 -> Val]]
  BY ValClosed
<1>2. /\ DOMAIN OW = Strided(0, OutStride, n, n)
      /\ Strided(0, OutStride, n, n) \subseteq Int
      /\ \A a \in Strided(0, OutStride, n, n) : OW[a] \in Val
  BY <1>1, CallSize, OutStrideOK, StoreMatrixVal
<1>3. Access(Strided(Block2, 8, 8, 8), NoW, OW) /\ pc' = "done"
  BY DEF BoxAverage, Goto
<1>. QED  BY <1>2, <1>3, NoWEmpty, StepType DEF Steps

(* dctsize 1 copies the DC float. *)
LEMMA CopyDCType ==
  ASSUME TypeOK, StepVarsOnly, CopyDC
  PROVE  TypeOK'
<1> DEFINE OW == [a \in {0} |-> Load(Block0)]
<1>1. \A a \in DOMAIN OW : OW[a] \in Val
  BY LoadVal
<1>2. Access({Block0}, NoW, OW) /\ pc' = "done"
  BY DEF CopyDC, Goto
<1>. QED  BY <1>1, <1>2, NoWEmpty, StepType DEF Steps

(* The row pass stores the row transforms into the output. *)
LEMMA RowPassType ==
  ASSUME TypeOK, StepVarsOnly, RowPass
  PROVE  TypeOK'
<1> DEFINE n  == call.size
           row(iy) == [k \in 0..InSize(n)-1 |-> Load(Block1 + iy * n + k)]
           F  == [iy \in 0..n-1 |-> Compute1dIDCT(row(iy), n)]
           OW == StoreMatrix(0, OutStride, n, n, F)
<1>1. F \in [0..n-1 -> [0..n-1 -> Val]]
  BY Compute1dVal
<1>2. /\ DOMAIN OW = Strided(0, OutStride, n, n)
      /\ Strided(0, OutStride, n, n) \subseteq Int
      /\ \A a \in Strided(0, OutStride, n, n) : OW[a] \in Val
  BY <1>1, CallSize, OutStrideOK, StoreMatrixVal
<1>3. Access(Strided(Block1, n, n, InSize(n)), NoW, OW) /\ pc' = "done"
  BY DEF RowPass, RowPassTo, Goto
<1>. QED  BY <1>2, <1>3, NoWEmpty, StepType DEF Steps

(* insize = min(dctsize, 8) never exceeds dctsize. *)
LEMMA InSizeFacts ==
  \A n \in Nat : InSize(n) \in 0..n
  BY DEF InSize, Min, DCTSIZE

(* The column pass stores column transforms into block1, or aborts. *)
LEMMA ColumnPassType ==
  ASSUME TypeOK, StepVarsOnly, ColumnPass
  PROVE  TypeOK'
<1> DEFINE n      == call.size
           insize == InSize(n)
           dctin(ix) == [iy \in 0..insize-1 |-> Load(Block0 + iy * DCTSIZE + ix)]
           out    == [ix \in 0..insize-1 |-> Compute1dIDCT(dctin(ix), n)]
           F      == [iy \in 0..n-1 |-> [ix \in 0..insize-1 |-> out[ix][iy]]]
           W      == StoreMatrix(Block1, n, n, insize, F)
<1>1. n \in Nat \ {0} /\ n \in Nat /\ insize \in 0..n
  BY CallSize, InSizeFacts
<1>2. CASE n \in GeneralSizes
  <2>1. \A ix \in 0..insize-1 : out[ix] \in [0..n-1 -> Val]
    BY Compute1dVal
  <2>2. F \in [0..n-1 -> [0..insize-1 -> Val]]
    BY <2>1
  <2>3. \A a \in DOMAIN W : W[a] \in Val
    BY <1>1, <2>2, Consts, StoreMatrixVal, Zenon
  <2>4. Access(Strided(Block0, DCTSIZE, insize, insize), W, NoW) /\ pc' = "rows"
    BY <1>2 DEF ColumnPass
  <2>. QED  BY <2>3, <2>4, NoWEmpty, StepType DEF Steps
<1>3. CASE n \notin GeneralSizes
  <2>1. /\ pc' = "aborted"
        /\ faults' = faults \cup {"Abort"}
        /\ UNCHANGED <<scratch, output, fresh, owritten>>
    BY <1>3 DEF ColumnPass
  <2>. QED  BY <2>1 DEF TypeOK, StepVarsOnly, Steps, Faults
<1>. QED  BY <1>2, <1>3

(* DequantBlock yields 64 floats, whatever the tables hold. *)
LEMMA DequantVal ==
  ASSUME NEW q, NEW tbl
  PROVE  DequantBlock(q, tbl) \in [0..63 -> Val]
<1>1. 0 \in Val
  BY FieldAssumption DEF Val
<1>. QED  BY <1>1, ValClosed DEF DequantBlock, DequantCoef

(* block0 is the first 64 floats of scratch. *)
LEMMA Block0Cells ==
  \A a \in Strided(Block0, 8, 8, 8) : a - Block0 \in 0..63
  BY DEF Strided, Block0

(* A call starts: the dequantised block goes to block0 and the call's     *)
(* parameters are recorded.                                                *)
LEMMA BeginType ==
  ASSUME TypeOK, NEW c \in Comp, NEW q \in Blocks, Begin(c, q)
  PROVE  TypeOK'
<1> DEFINE W == [a \in Strided(Block0, 8, 8, 8) |-> DequantBlock(q, tables[c])[a - Block0]]
<1>1. \A a \in DOMAIN W : W[a] \in Val
  BY DequantVal, Block0Cells
<1>2. /\ scratch' = [a \in ScratchAddr |-> IF a \in DOMAIN W THEN W[a] ELSE scratch[a]]
      /\ output' = [a \in OutAddr |-> NaN]
      /\ fresh' = DOMAIN W \cap ScratchAddr
      /\ owritten' = {}
      /\ faults' \subseteq faults \cup {"ScratchOverflow"}
      /\ pc' = FirstStep(inverse_transform[c], scaled_dct_size[c])
      /\ ncalls < MaxCalls /\ ncalls' = ncalls + 1
      /\ UNCHANGED <<scaled_dct_size, inverse_transform, tables, phase>>
  BY DEF Begin
<1>3. call' \in Calls
  <2>1. call' = [comp |-> c, q |-> q, size |-> scaled_dct_size[c],
                 fn |-> inverse_transform[c], tbl |-> tables[c]]
    BY DEF Begin
  <2>. QED  BY <2>1, Zenon DEF TypeOK, Calls
<1>4. FirstStep(inverse_transform[c], scaled_dct_size[c]) \in Steps
  BY DEF FirstStep, Steps
<1>5. NaN \in Val
  BY DEF Val
<1>6. scratch' \in [ScratchAddr -> Val]
  BY <1>1, <1>2 DEF TypeOK
<1>7. output' \in [OutAddr -> Val] /\ fresh' \subseteq ScratchAddr /\ owritten' \subseteq Int
  BY <1>2, <1>5
<1>8. faults' \subseteq Faults
  BY <1>2 DEF TypeOK, Faults
<1>9. ncalls' \in 0..MaxCalls
  BY <1>2, KernelAssumption DEF TypeOK
<1>. QED  BY <1>2, <1>3, <1>4, <1>6, <1>7, <1>8, <1>9, Zenon DEF TypeOK

(* A scan is configured: sizes and tables per component. *)
LEMMA ConfigureScanType ==
  ASSUME TypeOK, ConfigureScan
  PROVE  TypeOK'
<1>1. PICK sz \in [Comp -> Sizes], tb \in [Comp -> Tables] :
        scaled_dct_size' = sz /\ tables' = tb
  BY DEF ConfigureScan
<1>2. /\ inverse_transform' = [c \in Comp |-> "none"]
      /\ phase' = "setup" /\ pc' = "idle"
      /\ UNCHANGED <<call, scratch, output, fresh, owritten, faults, ncalls>>
  BY DEF ConfigureScan
<1>3. [c \in Comp |-> "none"] \in [Comp -> Fns] /\ "idle" \in Steps
  BY DEF Fns, Steps
<1>. QED  BY <1>1, <1>2, <1>3, Zenon DEF TypeOK

(* The transforms are chosen. *)
LEMMA ChooseType ==
  ASSUME TypeOK, ChooseInverseTransform
  PROVE  TypeOK'
<1>1. \A n : ChooseFn(n) \in Fns
  BY DEF ChooseFn, Fns
<1>. QED  BY <1>1 DEF ChooseInverseTransform, TypeOK

(* The initial state is typed. *)
LEMMA InitType == Init => TypeOK
<1> SUFFICES ASSUME Init PROVE TypeOK
  OBVIOUS
<1>1. Calls # {}
  <2>0. Comp # {} /\ Blocks # {} /\ Sizes # {} /\ Tables # {}
    BY KernelAssumption
  <2>1. PICK c \in Comp, q \in Blocks, n \in Sizes, tb \in Tables : TRUE
    BY <2>0, Zenon
  <2>2. [comp |-> c, q |-> q, size |-> n, fn |-> "none", tbl |-> tb] \in Calls
    BY DEF Calls, Fns
  <2>. QED  BY <2>2
<1>2. call \in Calls
  BY <1>1 DEF Init
<1>3. NaN \in Val
  BY DEF Val
<1>. QED  BY <1>2, <1>3, KernelAssumption DEF Init, TypeOK, Fns, Steps

(* Every step keeps the state typed. *)
LEMMA NextType == TypeOK /\ [Next]_vars => TypeOK'
<1> SUFFICES ASSUME TypeOK, [Next]_vars
             PROVE  TypeOK'
  OBVIOUS
<1>1. CASE ConfigureScan
  BY <1>1, ConfigureScanType
<1>2. CASE ChooseInverseTransform
  BY <1>2, ChooseType
<1>3. CASE \E c \in Comp, q \in Blocks : Begin(c, q)
  BY <1>3, BeginType
<1>4. CASE Step /\ StepVarsOnly
  <2>1. "pass1" \in Steps /\ "pass2" \in Steps
    BY DEF Steps
  <2>2. CASE Transpose("transpose1", "pass1")
    BY <1>4, <2>1, <2>2, TransposeType
  <2>3. CASE Transpose("transpose2", "pass2")
    BY <1>4, <2>1, <2>3, TransposeType
  <2>4. CASE Pass1
    BY <1>4, <2>4, Pass1Type
  <2>5. CASE Pass2
    BY <1>4, <2>5, Pass2Type
  <2>6. CASE BoxAverage
    BY <1>4, <2>6, BoxAverageType
  <2>7. CASE CopyDC
    BY <1>4, <2>7, CopyDCType
  <2>8. CASE ColumnPass
    BY <1>4, <2>8, ColumnPassType
  <2>9. CASE RowPass
    BY <1>4, <2>9, RowPassType
  <2>. QED  BY <1>4, <2>2, <2>3, <2>4, <2>5, <2>6, <2>7, <2>8, <2>9 DEF Step
<1>5. CASE UNCHANGED vars
  BY <1>5 DEF vars, TypeOK
<1>. QED  BY <1>1, <1>2, <1>3, <1>4, <1>5 DEF Next

(* TypeCorrect: in every reachable state each scratch and output cell     *)
(* holds a float or NaN, the ghost address sets hold addresses, the       *)
(* current call records a component, block, valid size, dispatch and      *)
(* tables, and the call counter stays within its bound.                   *)
THEOREM TypeCorrect == Spec => []TypeOK
<1>1. Init => TypeOK
  BY InitType
<1>2. TypeOK /\ [Next]_vars => TypeOK'
  BY NextType
<1>. QED  BY <1>1, <1>2, PTL DEF Spec
=============================================================================
