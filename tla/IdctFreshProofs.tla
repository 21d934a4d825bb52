---------------------------- MODULE IdctFreshProofs ----------------------------
(***************************************************************************)
(* Proof that no step of a block transform in src/lib/jpegli/idct.cc      *)
(* loads a scratch cell the same call has not stored: whatever a call of  *)
(* another size left in scratch_space is never read.  NoStaleRead is not  *)
(* inductive; FreshInv (IdctKernel) is.  Within a call fresh only grows,  *)
(* each step stores what the next one loads, and the column pass loads    *)
(* the insize x insize corner of block0, inside block0 because            *)
(* insize = min(n, 8) <= 8.                                                *)
(***************************************************************************)
EXTENDS IdctKernelProofs

(* A memory step whose loads are fresh records no stale read, keeps what  *)
(* was fresh, and makes fresh what it stores inside the buffer.            *)
LEMMA AccessFresh ==
  ASSUME NEW R, NEW W, NEW OW, Access(R, W, OW),
         R \cap ScratchAddr \subseteq fresh, "StaleRead" \notin faults
  PROVE  /\ "StaleRead" \notin faults'
         /\ fresh \subseteq fresh'
         /\ DOMAIN W \cap ScratchAddr \subseteq fresh'
  BY DEF Access

(* The cells the column pass loads, the insize x insize corner of block0  *)
(* at stride 8, lie in block0.                                             *)
LEMMA CornerInBlock0 ==
  ASSUME NEW n \in Nat
  PROVE  Strided(Block0, DCTSIZE, InSize(n), InSize(n)) \subseteq Strided(Block0, 8, 8, 8)
<1>1. InSize(n) \in 0..8
  BY DEF InSize, Min, DCTSIZE
<1>. QED  BY <1>1 DEF Strided, DCTSIZE, Block0

(* The DC copy loads the first cell of block0. *)
LEMMA DCInBlock0 == {Block0} \subseteq Strided(Block0, 8, 8, 8)
<1>1. Block0 = Block0 + 0 * 8 + 0 /\ 0 \in 0..8-1
  BY DEF Block0
<1>. QED  BY <1>1 DEF Strided

(* The stores of a strided matrix cover exactly its cells. *)
LEMMA StoreDomain ==
  ASSUME NEW base, NEW stride, NEW rows, NEW cols, NEW F
  PROVE  DOMAIN StoreMatrix(base, stride, rows, cols, F) = Strided(base, stride, rows, cols)
  BY DEF StoreMatrix

-----------------------------------------------------------------------------
(* Every step of a call keeps FreshInv: it loads what the step before     *)
(* stored, and stores what the step after loads.                           *)
LEMMA StepFresh ==
  ASSUME FreshInv, TypeOK', Step, StepVarsOnly
  PROVE  FreshInv'
<1>0. /\ TypeOK /\ "StaleRead" \notin faults /\ call' = call
      /\ pc \in CallPcs => Blk(Block0) \subseteq fresh
      /\ pc \in {"pass1", "pass2"} => Blk(Block1) \subseteq fresh
      /\ pc = "box" => Blk(Block2) \subseteq fresh
      /\ pc = "rows" =>
           Strided(Block1, call.size, call.size, InSize(call.size)) \cap ScratchAddr
             \subseteq fresh
  BY DEF FreshInv, NoStaleRead, StepVarsOnly
<1> SUFFICES /\ "StaleRead" \notin faults'
             /\ pc' \in CallPcs => Blk(Block0) \subseteq fresh'
             /\ pc' \in {"pass1", "pass2"} => Blk(Block1) \subseteq fresh'
             /\ pc' = "box" => Blk(Block2) \subseteq fresh'
             /\ pc' = "rows" =>
                  Strided(Block1, call.size, call.size, InSize(call.size)) \cap ScratchAddr
                    \subseteq fresh'
  BY <1>0 DEF FreshInv, NoStaleRead
<1>1. CASE Transpose("transpose1", "pass1") \/ Transpose("transpose2", "pass2")
  <2>1. /\ pc \in {"transpose1", "transpose2"} /\ pc' \in {"pass1", "pass2"}
        /\ Access(Strided(Block0, 8, 8, 8),
                  StoreMatrix(Block1, 8, 8, 8, [r \in 0..7 |-> [c \in 0..7 |-> Load(Block0 + c * 8 + r)]]),
                  NoW)
    BY <1>1 DEF Transpose, Goto
  <2>2. Blk(Block0) \subseteq fresh
    BY <1>0, <2>1 DEF CallPcs
  <2>. QED  BY <2>1, <2>2, <1>0, AccessFresh, StoreDomain DEF Blk, CallPcs
<1>2. CASE Pass1
  <2>1. /\ pc = "pass1" /\ pc' = "transpose2"
        /\ Access(Strided(Block1, 8, 8, 8),
                  StoreMatrix(Block0, 8, 8, 8, IDCT1DColumns(Block1)), NoW)
    BY <1>2 DEF Pass1, Goto
  <2>2. Blk(Block0) \subseteq fresh /\ Blk(Block1) \subseteq fresh
    BY <1>0, <2>1 DEF CallPcs
  <2>. QED  BY <2>1, <2>2, <1>0, AccessFresh DEF Blk, CallPcs
<1>3. CASE Pass2
  <2>1. pc = "pass2" /\ Blk(Block0) \subseteq fresh /\ Blk(Block1) \subseteq fresh
    BY <1>0, <1>3 DEF Pass2, CallPcs
  <2>2. CASE call.fn = "8x8"
    <3>1. /\ pc' = "done"
          /\ Access(Strided(Block1, 8, 8, 8), NoW,
                    StoreMatrix(0, OutStride, 8, 8, IDCT1DColumns(Block1)))
      BY <1>3, <2>2 DEF Pass2
    <3>. QED  BY <3>1, <2>1, <1>0, AccessFresh DEF Blk, CallPcs
  <2>3. CASE call.fn # "8x8"
    <3>1. /\ pc' = "box"
          /\ Access(Strided(Block1, 8, 8, 8),
                    StoreMatrix(Block2, 8, 8, 8, IDCT1DColumns(Block1)), NoW)
      BY <1>3, <2>3 DEF Pass2
    <3>. QED  BY <3>1, <2>1, <1>0, AccessFresh, StoreDomain DEF Blk, CallPcs
  <2>. QED  BY <2>2, <2>3
<1>4. CASE BoxAverage
  <2>1. /\ pc = "box" /\ pc' = "done"
        /\ \E OW : Access(Strided(Block2, 8, 8, 8), NoW, OW)
    BY <1>4 DEF BoxAverage, Goto
  <2>2. PICK OW : Access(Strided(Block2, 8, 8, 8), NoW, OW)
    BY <2>1
  <2>. QED  BY <2>1, <2>2, <1>0, AccessFresh DEF Blk, CallPcs
<1>5. CASE CopyDC
  <2>1. /\ pc = "copy_dc" /\ pc' = "done"
        /\ Access({Block0}, NoW, [a \in {0} |-> Load(Block0)])
    BY <1>5 DEF CopyDC, Goto
  <2>2. {Block0} \cap ScratchAddr \subseteq fresh
    BY <2>1, <1>0, DCInBlock0 DEF CallPcs, Blk
  <2>. QED  BY <2>1, <2>2, <1>0, AccessFresh DEF CallPcs
<1>6. CASE ColumnPass
  <2>1. pc = "columns" /\ Blk(Block0) \subseteq fresh
    BY <1>0, <1>6 DEF ColumnPass, CallPcs
  <2>2. call.size \in Nat
    BY <1>0, CallSize
  <2>3. CASE call.size \in GeneralSizes
    <3> DEFINE n == call.size
    <3>1. /\ pc' = "rows"
          /\ \E W : /\ DOMAIN W = Strided(Block1, n, n, InSize(n))
                    /\ Access(Strided(Block0, DCTSIZE, InSize(n), InSize(n)), W, NoW)
      BY <1>6, <2>3, StoreDomain DEF ColumnPass
    <3>2. Strided(Block0, DCTSIZE, InSize(n), InSize(n)) \cap ScratchAddr \subseteq fresh
      BY <2>1, <2>2, CornerInBlock0 DEF Blk
    <3>3. PICK W : /\ DOMAIN W = Strided(Block1, n, n, InSize(n))
                   /\ Access(Strided(Block0, DCTSIZE, InSize(n), InSize(n)), W, NoW)
      BY <3>1
    <3>4. /\ "StaleRead" \notin faults'
          /\ fresh \subseteq fresh'
          /\ Strided(Block1, n, n, InSize(n)) \cap ScratchAddr \subseteq fresh'
      BY <3>2, <3>3, <1>0, AccessFresh
    <3>. QED  BY <3>1, <3>4, <2>1 DEF CallPcs
  <2>4. CASE call.size \notin GeneralSizes
    <3>1. pc' = "aborted" /\ faults' = faults \cup {"Abort"} /\ UNCHANGED fresh
      BY <1>6, <2>4 DEF ColumnPass
    <3>. QED  BY <3>1, <1>0 DEF CallPcs
  <2>. QED  BY <2>3, <2>4
<1>7. CASE RowPass
  <2>1. /\ pc = "rows" /\ pc' = "done"
        /\ \E OW : Access(Strided(Block1, call.size, call.size, InSize(call.size)), NoW, OW)
    BY <1>7 DEF RowPass, RowPassTo, Goto
  <2>2. PICK OW : Access(Strided(Block1, call.size, call.size, InSize(call.size)), NoW, OW)
    BY <2>1
  <2>. QED  BY <2>1, <2>2, <1>0, AccessFresh DEF CallPcs
<1>. QED  BY <1>1, <1>2, <1>3, <1>4, <1>5, <1>6, <1>7 DEF Step

(* A call starts by storing all of block0 (DequantBlock), so whichever    *)
(* step FirstStep picks finds block0 fresh, and nothing stale was loaded.  *)
LEMMA BeginFresh ==
  ASSUME FreshInv, TypeOK', NEW c \in Comp, NEW q \in Blocks, Begin(c, q)
  PROVE  FreshInv'
<1>1. /\ fresh' = Strided(Block0, 8, 8, 8) \cap ScratchAddr
      /\ "StaleRead" \notin faults'
      /\ pc' = FirstStep(inverse_transform[c], scaled_dct_size[c])
  BY DEF Begin, FreshInv, NoStaleRead
<1>2. pc' \in {"transpose1", "copy_dc", "columns"}
  BY <1>1 DEF FirstStep
<1>. QED  BY <1>1, <1>2 DEF FreshInv, NoStaleRead, Blk, CallPcs

(* Every step keeps FreshInv. *)
LEMMA NextFresh == FreshInv /\ [Next]_vars => FreshInv'
<1> SUFFICES ASSUME FreshInv, [Next]_vars PROVE FreshInv'
  OBVIOUS
<1>0. TypeOK'
  BY NextType DEF FreshInv
<1>1. CASE ConfigureScan
  <2>1. pc' = "idle" /\ UNCHANGED <<fresh, faults>>
    BY <1>1 DEF ConfigureScan
  <2>. QED  BY <1>0, <2>1 DEF FreshInv, NoStaleRead, CallPcs
<1>2. CASE ChooseInverseTransform
  <2>1. UNCHANGED <<pc, call, fresh, faults>>
    BY <1>2 DEF ChooseInverseTransform
  <2>. QED  BY <1>0, <2>1 DEF FreshInv, NoStaleRead
<1>3. CASE \E c \in Comp, q \in Blocks : Begin(c, q)
  BY <1>0, <1>3, BeginFresh
<1>4. CASE Step /\ StepVarsOnly
  BY <1>0, <1>4, StepFresh
<1>5. CASE UNCHANGED vars
  BY <1>5 DEF vars, FreshInv, NoStaleRead, TypeOK, CallPcs, Blk
<1>. QED  BY <1>1, <1>2, <1>3, <1>4, <1>5 DEF Next

(* The initial state is idle with nothing loaded. *)
LEMMA InitFresh == Init => FreshInv
BY InitType DEF Init, FreshInv, NoStaleRead, CallPcs

(* NoStaleReadCorrect: for every configuration, every block and every     *)
(* scratch buffer contents, no step of InverseTransformBlock8x8 or         *)
(* InverseTransformBlockGeneric (idct.cc) loads a scratch cell that the    *)
(* same call has not stored: what an earlier call of another size left in  *)
(* the reused scratch_space never reaches the output.                      *)
THEOREM NoStaleReadCorrect == Spec => []NoStaleRead
<1>1. Init => FreshInv
  BY InitFresh
<1>2. FreshInv /\ [Next]_vars => FreshInv'
  BY NextFresh
<1>3. FreshInv => NoStaleRead
  BY DEF FreshInv
<1>. QED  BY <1>1, <1>2, <1>3, PTL DEF Spec
(* FreshInvCorrect: at every step of every call, the scratch cells the    *)
(* step is about to load were all stored earlier by the same call.         *)
THEOREM FreshInvCorrect == Spec => []FreshInv
BY InitFresh, NextFresh, PTL DEF Spec
=============================================================================
