------------------------------ MODULE IdctKernel ------------------------------
(***************************************************************************)
(* The block inverse transform of src/lib/jpegli/idct.cc as a state        *)
(* machine: the decoder configures a scan (output size per component),    *)
(* ChooseInverseTransform picks each component's transform, and blocks     *)
(* are then transformed one call at a time.                                *)
(*                                                                         *)
(* One call of InverseTransformBlock8x8 or InverseTransformBlockGeneric is *)
(* a sequence of steps, one per function it calls, in the code's order.    *)
(* The steps read and write a scratch buffer that the caller owns and      *)
(* reuses from call to call, and write the caller's output area at stride  *)
(* OutStride.  Ghost state records which scratch cells the current call    *)
(* has written (fresh), which output cells it has written (owritten) and   *)
(* the faults seen so far (accesses outside the scratch buffer, reads of   *)
(* scratch cells the current call never wrote, aborts).                    *)
(***************************************************************************)
EXTENDS Idct1D

CONSTANTS
  Comp,         \* the components of the image
  Sizes,        \* the output sizes a scan may configure (scaled_dct_size)
  Blocks,       \* the coefficient blocks the entropy decoder may deliver
  Tables,       \* the dequantisation / bias table pairs a scan may use
  ScratchSize,  \* floats in the caller's scratch buffer
  OutStride,    \* row stride of the caller's output area
  MaxCalls      \* bound on the number of block transforms

ASSUME KernelAssumption ==
  /\ Comp # {} /\ Sizes # {} /\ Sizes \subseteq 1..16
  /\ Blocks # {} /\ Blocks \subseteq [0..63 -> Int]
  /\ \A q \in Blocks : \A k \in 0..63 : -32768 <= q[k] /\ q[k] <= 32767   \* int16_t
  /\ Tables # {} /\ Tables \subseteq [dequant : [0..63 -> Val], bias : [0..63 -> Val]]
  /\ ScratchSize \in Nat
  /\ OutStride \in Nat /\ OutStride >= 16
  /\ MaxCalls \in Nat

DCTSIZE  == 8
DCTSIZE2 == 64

(* block0, block1, block2: the three 64-float blocks of scratch_space. *)
Block0 == 0
(* Mutant: block1 placed where block2 is. *)
Block1Doubled == 2 * DCTSIZE2
Block1 == DCTSIZE2
Block2 == 2 * DCTSIZE2

ScratchAddr == 0..ScratchSize-1
(* The caller's output area: 16 rows at stride OutStride. *)
OutAddr == 0..16 * OutStride - 1
(* The output_size x output_size block the call must write. *)
Region(n) == {iy * OutStride + ix : iy \in 0..n-1, ix \in 0..n-1}

Fns   == {"none", "8x8", "generic"}
Steps == {"idle", "transpose1", "pass1", "transpose2", "pass2", "box",
          "copy_dc", "columns", "rows", "done", "aborted"}
Faults == {"ScratchOverflow", "StaleRead", "Abort"}

Min(a, b) == IF a < b THEN a ELSE b

(* Mutant: every column and row of the input used, beyond the 8 that exist. *)
InSizeFull(n) == n

(* insize = std::min<size_t>(dctsize, DCTSIZE): the coefficients that exist. *)
InSize(n) == Min(n, DCTSIZE)

VARIABLES
  scaled_dct_size,    \* m->scaled_dct_size[c]
  inverse_transform,  \* m->inverse_transform[c]
  tables,             \* the dequant / bias tables of each component
  phase,              \* "setup" until ChooseInverseTransform has run
  pc,                 \* the step the current call is at
  call,               \* the current call: component, block, size, function, tables
  scratch,            \* scratch_space
  output,             \* the caller's output area
  fresh,              \* ghost: scratch cells written by the current call
  owritten,           \* ghost: output cells written by the current call
  faults,             \* ghost: faults seen
  ncalls              \* number of calls so far

vars == <<scaled_dct_size, inverse_transform, tables, phase, pc, call,
          scratch, output, fresh, owritten, faults, ncalls>>

Calls == [comp : Comp, q : Blocks, size : Sizes, fn : Fns, tbl : Tables]

(***************************************************************************)
(* Memory access.  W and OW map the addresses a step stores to the values  *)
(* it stores; R is the set of scratch addresses it loads.                  *)
(***************************************************************************)
Load(a) == IF a \in ScratchAddr THEN scratch[a] ELSE NaN

(* The cells base + r * stride + c of a rows x cols matrix, c < stride. *)
Strided(base, stride, rows, cols) ==
  {base + r * stride + c : r \in 0..rows-1, c \in 0..cols-1}

(* Store F[r][c] at base + r * stride + c. *)
StoreMatrix(base, stride, rows, cols, F) ==
  [a \in Strided(base, stride, rows, cols) |->
     F[(a - base) \div stride][(a - base) % stride]]

Access(R, W, OW) ==
  /\ scratch'  = [a \in ScratchAddr |-> IF a \in DOMAIN W THEN W[a] ELSE scratch[a]]
  /\ output'   = [a \in OutAddr |-> IF a \in DOMAIN OW THEN OW[a] ELSE output[a]]
  /\ fresh'    = fresh \cup (DOMAIN W \cap ScratchAddr)
  /\ owritten' = owritten \cup DOMAIN OW
  /\ faults'   = faults
                 \cup (IF R \cup DOMAIN W \subseteq ScratchAddr THEN {} ELSE {"ScratchOverflow"})
                 \cup (IF R \cap ScratchAddr \subseteq fresh THEN {} ELSE {"StaleRead"})

Goto(from, to) == pc = from /\ pc' = to

NoW == [a \in {} |-> NaN]

(***************************************************************************)
(* Dequantisation.                                                         *)
(***************************************************************************)

(* DequantBlock, one lane: zero stays exactly zero; otherwise the bias,    *)
(* given the coefficient's sign by Xor with its sign bit, is subtracted    *)
(* and the result scaled.                                                  *)
DequantCoef(qk, mul, bias) ==
  IF qk # 0 THEN Mul(Sub(ToVal(qk), IF qk < 0 THEN Negate(bias) ELSE bias), mul)
  ELSE 0

DequantBlock(q, tbl) == [k \in 0..63 |-> DequantCoef(q[k], tbl.dequant[k], tbl.bias[k])]

(***************************************************************************)
(* Scan configuration and transform selection.                             *)
(***************************************************************************)

(* The decoder fixes each component's output size and tables for a scan,  *)
(* and must then choose the transforms again.                              *)
ConfigureScan ==
  /\ pc \in {"idle", "done"}
  /\ \E sz \in [Comp -> Sizes], tb \in [Comp -> Tables] :
       /\ scaled_dct_size' = sz
       /\ tables' = tb
  /\ inverse_transform' = [c \in Comp |-> "none"]
  /\ phase' = "setup"
  /\ pc' = "idle"
  /\ UNCHANGED <<call, scratch, output, fresh, owritten, faults, ncalls>>

(* Mutants: the fast path chosen for every size up to 8; the size         *)
(* compared with DCTSIZE2 instead of DCTSIZE.                              *)
ChooseFnLE(size) == IF size <= DCTSIZE THEN "8x8" ELSE "generic"
ChooseFn64(size) == IF size = DCTSIZE2 THEN "8x8" ELSE "generic"

ChooseFn(size) == IF size = DCTSIZE THEN "8x8" ELSE "generic"

ChooseInverseTransform ==
  /\ phase = "setup"
  /\ inverse_transform' = [c \in Comp |-> ChooseFn(scaled_dct_size[c])]
  /\ phase' = "decode"
  /\ UNCHANGED <<scaled_dct_size, tables, pc, call, scratch, output, fresh,
                 owritten, faults, ncalls>>

(***************************************************************************)
(* One block transform.                                                    *)
(***************************************************************************)

(* Mutant: sizes 2 and 4 sent to the Compute1dIDCT passes. *)
FirstStepNo24(fn, n) ==
  IF fn = "8x8" THEN "transpose1"
  ELSE IF n = 1 THEN "copy_dc" ELSE "columns"

(* The first step of a call: the 8x8 passes for InverseTransformBlock8x8 *)
(* and for dctsize 2 and 4, the DC copy for dctsize 1, else the two       *)
(* Compute1dIDCT passes.                                                   *)
FirstStep(fn, n) ==
  IF fn = "8x8" \/ n \in {2, 4} THEN "transpose1"
  ELSE IF n = 1 THEN "copy_dc" ELSE "columns"

(* m->inverse_transform[c](qblock, dequant, biases, scratch, output,      *)
(* stride, dctsize): both functions start with DequantBlock into block0.   *)
(* The output area's earlier contents are never read by the kernel.        *)
Begin(c, q) ==
  LET fn == inverse_transform[c]
      n  == scaled_dct_size[c]
      W  == [a \in Strided(Block0, 8, 8, 8) |-> DequantBlock(q, tables[c])[a - Block0]]
  IN
  /\ phase = "decode"
  /\ pc \in {"idle", "done"}
  /\ ncalls < MaxCalls
  /\ call' = [comp |-> c, q |-> q, size |-> n, fn |-> fn, tbl |-> tables[c]]
  /\ scratch' = [a \in ScratchAddr |-> IF a \in DOMAIN W THEN W[a] ELSE scratch[a]]
  /\ output' = [a \in OutAddr |-> NaN]
  /\ fresh' = DOMAIN W \cap ScratchAddr
  /\ owritten' = {}
  /\ faults' = faults \cup (IF DOMAIN W \subseteq ScratchAddr THEN {} ELSE {"ScratchOverflow"})
  /\ pc' = FirstStep(fn, n)
  /\ ncalls' = ncalls + 1
  /\ UNCHANGED <<scaled_dct_size, inverse_transform, tables, phase>>

(* Transpose8x8Block(block0, block1). *)
Transpose(from, to) ==
  /\ Goto(from, to)
  /\ Access(Strided(Block0, 8, 8, 8),
            StoreMatrix(Block1, 8, 8, 8, [r \in 0..7 |-> [c \in 0..7 |-> Load(Block0 + c * 8 + r)]]),
            NoW)

(* IDCT1D<8>(from, to, stride): IDCT1DImpl<8> down every column of from. *)
Column8(base, c) == [k \in 0..7 |-> Load(base + k * 8 + c)]
IDCT1DColumns(from) ==
  LET col == [c \in 0..7 |-> IDCT1DImpl8(Column8(from, c))]
  IN  [r \in 0..7 |-> [c \in 0..7 |-> col[c][r]]]

(* ComputeScaledIDCT, first pass: IDCT1D<8>(block1, block0, 8). *)
Pass1 ==
  /\ Goto("pass1", "transpose2")
  /\ Access(Strided(Block1, 8, 8, 8),
            StoreMatrix(Block0, 8, 8, 8, IDCT1DColumns(Block1)), NoW)

(* ComputeScaledIDCT, second pass: IDCT1D<8>(block1, output, stride).     *)
(* InverseTransformBlock8x8 passes the caller's output; the generic       *)
(* transform of sizes 2 and 4 passes block2 with stride 8.                *)
Pass2 ==
  /\ pc = "pass2"
  /\ IF call.fn = "8x8"
     THEN /\ pc' = "done"
          /\ Access(Strided(Block1, 8, 8, 8), NoW,
                    StoreMatrix(0, OutStride, 8, 8, IDCT1DColumns(Block1)))
     ELSE /\ pc' = "box"
          /\ Access(Strided(Block1, 8, 8, 8),
                    StoreMatrix(Block2, 8, 8, 8, IDCT1DColumns(Block1)), NoW)

(* Average the t x t tiles of block2 (t = 8 / dctsize): 0.25 of four      *)
(* samples for dctsize 4, 0.0625 of sixteen for dctsize 2.                 *)
BoxAverage ==
  LET t    == DCTSIZE \div call.size
      Tile(iy, ix) == [i \in 1..t * t |->
                         Load(Block2 + (iy * t + (i - 1) \div t) * 8 + ix * t + ((i - 1) % t))]
  IN
  /\ Goto("box", "done")
  /\ Access(Strided(Block2, 8, 8, 8), NoW,
            StoreMatrix(0, OutStride, call.size, call.size,
                        [iy \in 0..call.size-1 |-> [ix \in 0..call.size-1 |->
                           Mul(Inv(t * t), SumTo(Tile(iy, ix), t * t))]]))

(* dctsize 1: *output = *block0. *)
CopyDC ==
  /\ Goto("copy_dc", "done")
  /\ Access({Block0}, NoW, [a \in {0} |-> Load(Block0)])

(* First pass of the generic transform: for each of the first insize      *)
(* columns of block0, Compute1dIDCT of its first insize entries into       *)
(* column ix of block1 (stride dctsize).  Compute1dIDCT aborts for a size  *)
(* it has no case for.                                                     *)
ColumnPass ==
  LET n      == call.size
      insize == InSize(n)
      dctin(ix) == [iy \in 0..insize-1 |-> Load(Block0 + iy * DCTSIZE + ix)]
  IN
  /\ pc = "columns"
  /\ IF n \in GeneralSizes
     THEN /\ pc' = "rows"
          /\ Access(Strided(Block0, DCTSIZE, insize, insize),
                    StoreMatrix(Block1, n, n, insize,
                                LET out == [ix \in 0..insize-1 |-> Compute1dIDCT(dctin(ix), n)]
                                IN  [iy \in 0..n-1 |-> [ix \in 0..insize-1 |-> out[ix][iy]]]),
                    NoW)
     ELSE /\ pc' = "aborted"
          /\ faults' = faults \cup {"Abort"}
          /\ UNCHANGED <<scratch, output, fresh, owritten>>

(* Second pass: Compute1dIDCT of each row of block1 (stride dctsize) into *)
(* row iy of the output, at stride ostride.                                *)
RowPassTo(ostride) ==
  LET n      == call.size
      insize == InSize(n)
      row(iy) == [k \in 0..insize-1 |-> Load(Block1 + iy * n + k)]
  IN
  /\ Goto("rows", "done")
  /\ Access(Strided(Block1, n, n, insize), NoW,
            StoreMatrix(0, ostride, n, n, [iy \in 0..n-1 |-> Compute1dIDCT(row(iy), n)]))

(* Mutant: the rows written at stride dctsize instead of output_stride. *)
RowPassPacked == RowPassTo(call.size)

RowPass == RowPassTo(OutStride)

Step ==
  \/ Transpose("transpose1", "pass1")
  \/ Pass1
  \/ Transpose("transpose2", "pass2")
  \/ Pass2
  \/ BoxAverage
  \/ CopyDC
  \/ ColumnPass
  \/ RowPass

StepVarsOnly ==
  UNCHANGED <<scaled_dct_size, inverse_transform, tables, phase, call, ncalls>>

Init ==
  /\ scaled_dct_size \in [Comp -> Sizes]
  /\ tables \in [Comp -> Tables]
  /\ inverse_transform = [c \in Comp |-> "none"]
  /\ phase = "setup"
  /\ pc = "idle"
  /\ call = CHOOSE x \in Calls : TRUE
  /\ scratch = [a \in ScratchAddr |-> NaN]
  /\ output = [a \in OutAddr |-> NaN]
  /\ fresh = {}
  /\ owritten = {}
  /\ faults = {}
  /\ ncalls = 0

Next ==
  \/ ConfigureScan
  \/ ChooseInverseTransform
  \/ \E c \in Comp, q \in Blocks : Begin(c, q)
  \/ Step /\ StepVarsOnly

Spec == Init /\ [][Next]_vars

-----------------------------------------------------------------------------
(***************************************************************************)
(* Properties.                                                             *)
(***************************************************************************)

TypeOK ==
  /\ scaled_dct_size \in [Comp -> Sizes]
  /\ inverse_transform \in [Comp -> Fns]
  /\ tables \in [Comp -> Tables]
  /\ phase \in {"setup", "decode"}
  /\ pc \in Steps
  /\ call \in Calls
  /\ scratch \in [ScratchAddr -> Val]
  /\ output \in [OutAddr -> Val]
  /\ fresh \subseteq ScratchAddr
  /\ owritten \subseteq Int
  /\ faults \subseteq Faults
  /\ ncalls \in 0..MaxCalls

(* The spec's dequantisation rule (4.1): zero maps to zero, otherwise     *)
(* (coeff - sign(coeff) * bias) * multiplier.                              *)
Sign(i) == IF i > 0 THEN 1 ELSE IF i < 0 THEN -1 ELSE 0
SpecDequant(q, tbl) ==
  [k \in 0..63 |-> IF q[k] = 0 THEN 0
                   ELSE Mul(Sub(ToVal(q[k]), Mul(ToVal(Sign(q[k])), tbl.bias[k])),
                            tbl.dequant[k])]

(* The 2-D reference: the separable N x N inverse DCT of the top-left     *)
(* min(N, 8) x min(N, 8) coefficients.                                     *)
Ref2D(n, X) ==
  LET K == Min(n, 8)
      T == [v \in 0..K-1, x \in 0..n-1 |->
              SumTo([u \in 1..K |-> Mul(RefCoef(n, x, u - 1), X[v * 8 + u - 1])], K)]
  IN  [y, x \in 0..n-1 |->
         SumTo([v \in 1..K |-> Mul(RefCoef(n, y, v - 1), T[v - 1, x])], K)]

(* What a call of size n must produce from the coefficients X: the N x N  *)
(* inverse DCT, or for n in {1, 2, 4} the average of the 8 x 8 inverse     *)
(* DCT over (8/n) x (8/n) tiles (spec 4.4).                                *)
RefBlock(n, X) ==
  IF n \in {1, 2, 4}
  THEN LET t == 8 \div n
           F == Ref2D(8, X)
       IN  [y, x \in 0..n-1 |->
              Mul(Inv(t * t),
                  SumTo([i \in 1..t * t |-> F[y * t + (i - 1) \div t, x * t + ((i - 1) % t)]],
                        t * t))]
  ELSE Ref2D(n, X)

(* Inputs the spec allows: table entries used by a non-zero coefficient   *)
(* are finite.  (Entries paired with a zero coefficient may be NaN.)       *)
FiniteInput(q, tbl) ==
  \A k \in 0..63 : q[k] # 0 => tbl.dequant[k] # NaN /\ tbl.bias[k] # NaN

(* The output_size x output_size block the caller reads back: row y,     *)
(* column x at output + y * output_stride + x.                             *)
OutBlock(n) == [y, x \in 0..n-1 |-> output[y * OutStride + x]]

(* OutputCorrect: when a call returns, every sample of its               *)
(* output_size x output_size block equals the reference inverse DCT of    *)
(* the dequantised coefficients, whichever path (8x8, box average, DC     *)
(* copy, two-pass Compute1dIDCT) produced it, whatever an earlier call    *)
(* left in the scratch buffer, and even when NaN table entries sit under  *)
(* zero coefficients.                                                      *)
OutputCorrect ==
  pc = "done" /\ FiniteInput(call.q, call.tbl) =>
    OutBlock(call.size) = RefBlock(call.size, SpecDequant(call.q, call.tbl))

(* WritesInRegion: a call stores only inside its output_size x            *)
(* output_size block of the caller's area, so the dispatch chosen at      *)
(* configuration time must match the size the call is made for.           *)
WritesInRegion == owritten \subseteq Region(call.size)

(* NoScratchOverflow: no step loads or stores outside the scratch buffer. *)
NoScratchOverflow == "ScratchOverflow" \notin faults

(* NoStaleRead: every scratch cell a call loads was stored earlier by the *)
(* same call; nothing left by a previous block leaks into this one.        *)
NoStaleRead == "StaleRead" \notin faults

(* FreshInv: the step a call is at finds fresh every scratch cell it is   *)
(* about to load, and no load so far was stale.  DequantBlock stores all  *)
(* of block0 at the start of the call; each Transpose8x8Block stores all  *)
(* of block1 before an IDCT1D<8> pass loads it; the second pass of sizes  *)
(* 2 and 4 stores all of block2 before the box average loads it; and the  *)
(* Compute1dIDCT column pass stores exactly the n x insize cells of       *)
(* block1 at stride n that the row pass loads.  It is the inductive       *)
(* invariant behind NoStaleRead.                                           *)
CallPcs == {"transpose1", "pass1", "transpose2", "pass2", "box", "copy_dc",
            "columns", "rows"}

Blk(base) == Strided(base, 8, 8, 8) \cap ScratchAddr

FreshInv ==
  /\ TypeOK
  /\ NoStaleRead
  /\ pc \in CallPcs => Blk(Block0) \subseteq fresh
  /\ pc \in {"pass1", "pass2"} => Blk(Block1) \subseteq fresh
  /\ pc = "box" => Blk(Block2) \subseteq fresh
  /\ pc = "rows" =>
       Strided(Block1, call.size, call.size, InSize(call.size)) \cap ScratchAddr
         \subseteq fresh

(* NoAbort: no call reaches Compute1dIDCT's JXL_ABORT for an unsupported  *)
(* size.                                                                   *)
NoAbort == "Abort" \notin faults

(* DispatchConsistent: the transform a call runs and the step it is at    *)
(* agree with the size it was made for.  Once ChooseInverseTransform has   *)
(* run, each component's function is ChooseFn of its configured size; the *)
(* 8x8 passes run only for size 8 and, through block2, for sizes 2 and 4; *)
(* the DC copy only for size 1; the two Compute1dIDCT passes only for a    *)
(* size Compute1dIDCT has a case for.                                      *)
DispatchConsistent ==
  /\ phase = "decode" =>
       \A c \in Comp : inverse_transform[c] = ChooseFn(scaled_dct_size[c])
  /\ pc \in {"transpose1", "pass1", "transpose2", "pass2", "box"} =>
       \/ call.fn = "8x8" /\ call.size = 8
       \/ call.fn = "generic" /\ call.size \in {2, 4}
  /\ pc = "copy_dc" => call.size = 1
  /\ pc \in {"columns", "rows"} => call.size \in GeneralSizes
=============================================================================
