# Formal model of the jpegli inverse DCT kernel and the color-encoding header

This directory holds TLA+ models, TLC configurations and TLAPS proofs for two
files:
- `src/lib/jpegli/idct.cc`, the kernel that turns one 8x8 block of quantised
  DCT coefficients into an `output_size x output_size` block of samples, for
  output sizes 1..16 (sections 1-6);
- `src/lib/cms/color_encoding_internal.h`, the `ColorEncoding` object, the
  `Values<Enum>()` helper and `ColorSpaceTransform` (section 7).

## 1. The system

`idct.cc` has five parts. PROJECT.json lists them as components.

| Part | Code | What it does |
|---|---|---|
| Dequantizer | `DequantBlock` (46-63) | For each coefficient, zero stays exactly zero (`IfThenElseZero`). Otherwise the kernel computes `(q - sign(q) * bias) * mul`. The sign goes onto the bias by an Xor with the sign bit. |
| FastPathTransform | `ForwardEvenOdd`, `BTranspose`, `WcMultipliers`, `MultiplyAndAdd`, `IDCT1DImpl<1,2,4,8>`, `IDCT1D`, `ComputeScaledIDCT` (65-185) | The factorised 8-point IDCT. It runs down the columns twice, with a transpose before each pass. The data go block0 -> block1 -> block0 -> block1 -> output. |
| GeneralTransform | `Compute1dIDCT` (201-616) | A hand-written N-point IDCT for N = 3, 5, 6, 7, 9..16. It uses the constant tables `kC<N>` and an even/odd decomposition. Any other N reaches `JXL_ABORT`. |
| ScaledBlockAssembler | `InverseTransformBlock8x8` (187-197), `InverseTransformBlockGeneric` (618-671) | Dispatches on `dctsize`. Size 1 copies the DC term. Sizes 2 and 4 run the 8x8 IDCT into block2 and then average 4x4 or 2x2 tiles. The other sizes run two `Compute1dIDCT` passes through block1, at stride `dctsize`. |
| TransformSelector | `ChooseInverseTransform` (683-693) | Per component, picks `InverseTransformBlock8x8` when `scaled_dct_size == DCTSIZE`, and the generic function otherwise. |

How the parts interact:
- The decoder configures a scan: sizes and tables per component.
- It calls `ChooseInverseTransform` once.
- It then calls `m->inverse_transform[c]` once per block.
- Every call uses one scratch buffer, `scratch_space`, which the caller owns and reuses across calls:
  - block0 = scratch + 0;
  - block1 = scratch + 64;
  - block2 = scratch + 128.
- A call writes the caller's output area at `output_stride`.

Nothing in the kernel runs concurrently. It never blocks or retries, and it persists nothing.

Out of scope:
- `Transpose8x8Block` lives in `transpose-inl.h`, which is not in this snapshot. The model gives its two calls their effect: block1[r][c] = block0[c][r].
- The other files under `src/`, apart from the color-encoding header of section 7, have nothing to do with the transform (a passes-state file, a Bazel module, CI workflows, a thread-pool header, the `alpha_blend.h` declaration). They are listed as `not_modelled`: each is configuration, workflow text, or a declaration whose definition is not in this tree.

## 2. Modules

| Module | Models | Notes |
|---|---|---|
| `IdctField` | The number system | GF(P) with a poison value NaN. Constants P, Root, Order. Details in section 3. |
| `Idct1D` | The 1-D transforms as pure operators on vectors | `ForwardEvenOdd`, `BTranspose`, `MultiplyAndAdd`, `Butterfly` (= `IDCT1DImpl<N>`), `IDCT1DImpl1/2/4/8`. `Compute1dIDCT` is one term table per case (`Case3`..`Case16`: which `kC<N>[j]` multiplies which input, with which sign). `RefIDCT` / `RefCoef` is the textbook N-point inverse DCT used as the reference. |
| `IdctKernel` | The kernel as a state machine | State and actions are listed below. |
| `MCIdctKernel` | The TLC instance | Extends `IdctKernel`. Defines the coefficient blocks and the tables. Also holds `SpecDCScenario`, the spec's worked example. |
| `IdctKernelProofs`, `IdctDispatchProofs`, `IdctScratchProofs`, `IdctFreshProofs` | TLAPS proofs | See section 6. |

**State of `IdctKernel`:**
- `scaled_dct_size`, `tables`, `inverse_transform`: the decoder master's per-component fields.
- `phase`: whether `ChooseInverseTransform` has run since the last configuration.
- `pc`: the step the current call is at.
- `call`: the current call's component, block, size, function and tables.
- `scratch`: the scratch buffer.
- `output`: the caller's area, 16 rows at stride `OutStride`.
- Ghost state:
  - `fresh`: scratch cells written by this call;
  - `owritten`: output cells written by this call;
  - `faults`: overflow, stale read or abort seen;
  - `ncalls`: calls so far.

Each step records its loads and stores through `Access(R, W, OW)`. That is how the ghost state sees every out-of-buffer access and every read of a cell the call never wrote.

**Actions, in the code's order:**

| Action | Code |
|---|---|
| `ConfigureScan` | The decoder's scan setup. It lives outside `src/`, so it is modelled from the spec. |
| `ChooseInverseTransform` | `ChooseInverseTransform` |
| `Begin(c, q)` | Function entry and `DequantBlock` into block0. The first step comes from `FirstStep`. |
| `Transpose(..)`, `Pass1`, `Pass2` | The four calls of `ComputeScaledIDCT`. `Pass2` writes the output for the 8x8 function, and block2 for sizes 2 and 4. |
| `BoxAverage` | The averaging loops (632-651). |
| `CopyDC` | `*output = *block0` |
| `ColumnPass`, `RowPass` | The two `Compute1dIDCT` loops (652-668), including the abort branch. |

Every definition that translates code is listed with its lines under `"map"` in PROJECT.json.

## 3. The number abstraction

TLC cannot compute with real numbers. Every float therefore becomes a residue mod a prime P, chosen so that GF(P) contains a root of unity ζ of order `Order`.

- Every cosine the kernel uses is an exact field element: 2cos(2πk/m) = ζ_m^k + ζ_m^-k.
- Every identity between these constants that holds over the complex numbers also holds in GF(P).
- A correct program therefore gives exactly the reference value. A wrong table entry, index, sign, stride or loop order gives a different value, unless the field happens to make them coincide. The mutants below show that it does not.
- Rounding is not modelled.
- NaN stands for a non-finite table entry or an uninitialised cell. All arithmetic propagates it.

The three field choices:

| Sizes | P | Order |
|---|---|---|
| {1, 2, 4, 8, 16} | 46337 | 64 |
| {3, 5, 6, 7, 9, 10, 12, 14, 15} | 45361 | 5040 |
| {11, 13} | 44617 | 1144 |

## 4. Properties and runs

Properties, defined in `IdctKernel`:
- `OutputCorrect`: when a call returns, its n x n block (`OutBlock(n)`, row y and column x at `y * OutStride + x`) equals the reference IDCT of the spec's dequantised coefficients. For sizes 1, 2 and 4 the reference is the tile average of the 8x8 IDCT. This holds whatever the scratch buffer held before, and with NaN table entries under zero coefficients.
- `WritesInRegion`: a call stores only inside its n x n block of the output area.
- `NoScratchOverflow`: no load or store falls outside `scratch_space`.
- `NoStaleRead`: every scratch cell a call loads was stored by the same call.
- `FreshInv`: the step a call is at finds fresh every cell it is about to load. block0 is fresh throughout the call (DequantBlock), block1 before each 8x8 pass, block2 before the box average, and the n x insize cells at stride n before the row pass. It is the inductive invariant behind `NoStaleRead`.
- `NoAbort`: no call reaches Compute1dIDCT's `JXL_ABORT`.
- `DispatchConsistent`: the function and step of a call agree with its size. This is the strengthening that makes the proofs go through.

| Run | Expect | What it covers |
|---|---|---|
| `fast` | pass | Sizes 1, 2, 4, 8, 16. All six properties. |
| `general` | pass | Sizes 3, 5, 6, 7, 9, 10, 12, 14, 15. All six properties. |
| `general2` | pass | Sizes 11 and 13, with a scratch buffer of exactly 64 + 13² floats. All six properties, and `FreshInv`. |
| `dcscenario` | violation | `SpecDCScenario` |
| `scratch192` | violation | `NoScratchOverflow` with 192 floats and size 16 |

**Bounds.**
- Every run has one component and at most two calls (`MaxCalls`, one in the violation runs).
- `ConfigureScan` may change sizes and tables between the calls. The second call therefore runs on a scratch buffer that a call of another size left behind. This is the case `NoStaleRead` and `OutputCorrect` are about.
- There are three blocks:
  - all-zero;
  - DC-only (the spec's example);
  - dense, with every position non-zero except one, and the int16 extremes.
- There are two table pairs: finite tables, and the same tables with NaN under the coefficient that is zero in every block.
- `OutStride` = 17, more than any row, so a row bleeding into the next row is visible.
- One call exercises every path of the code. Two calls exercise the reuse of the scratch buffer. Both size sets together cover every supported size.

**Mutants.** Each property of each passing run has a mutant: a plausible bug that TLC then catches under the run's own configuration.

| Mutant | Bug |
|---|---|
| `BTransposeAscending` | The loop runs upwards. |
| `KCTabTypo` | Wrong constants in kC12 and kC13. |
| `ChooseFnLE`, `ChooseFn64` | The size comparison is wrong. |
| `RowPassPacked` | The rows are stored at stride dctsize. |
| `Block1Doubled` | block1 is placed at +128. |
| `InSizeFull` | No `min(dctsize, 8)` (for `NoStaleRead` and `FreshInv`). |
| `GeneralSizesMissing` | The switch lacks cases 13 and 15. |
| `FirstStepNo24` | Sizes 2 and 4 go to Compute1dIDCT. |

**Findings.** Both are differences between the spec and the code.
1. **Scratch size.** The spec promises that 192 floats suffice. The generic path indexes block1 at `iy * dctsize + ix`, so it needs 64 + n² floats: 320 for size 16 (`scratch192`, idct.cc:662). Sizes up to 11 fit in 192 floats.
2. **DC scaling.** The spec's DC example expects 16.0. The transform is unnormalised, so the 8x8 path yields 128.0 (`dcscenario`). The 1/8 factor must be folded into the dequantisation tables.

**No refinement or liveness property.** A caller's view of one call ("it returns, with the reference block") adds nothing to the properties above:
- The returned block is `OutputCorrect`, and nothing is written to the output area outside the block (`WritesInRegion`).
- A call is straight-line code with no locks, waits or retries. Every step moves `pc` along an acyclic chain, so a started call returns exactly when it does not reach the `JXL_ABORT` of line 613 (`NoAbort`).

For that reason the model has no abstract call, no refinement mapping and no fairness.

The passing runs check deadlock. Every state has a successor until `MaxCalls` is reached, and after that `ConfigureScan` and `ChooseInverseTransform` remain enabled.

## 5. Hazards

PROJECT.json lists the hazards, each at its line, with the properties that catch them:
- the scratch bound;
- reads beyond `insize`, and the block1 row/column layout, both of which could read stale cells;
- the downward loop of `BTranspose`;
- the zero short-circuit under NaN tables;
- the dispatch sequence across rescans;
- the abort;
- the box-average offsets;
- the hand-written tables.

Float rounding is listed with no covering property. It needs real arithmetic.

## 6. Proofs (TLAPS)

Every proof holds for all values of the constants that satisfy `FieldAssumption`, `RootAssumption` and `KernelAssumption`:
- any P up to 46340;
- any components, blocks and tables;
- sizes within 1..16;
- `OutStride >= 16`.

**`IdctKernelProofs`.** `TypeCorrect: Spec => []TypeOK`. The argument has three layers:
- Lemmas about the helpers:
  - field operations stay in `Val` (`ValClosed`);
  - `StoreMatrix` stores exactly the cells of `Strided` (`StoreMatrixVal`, resting on `DivMod`);
  - `IDCT1DImpl8` and `Compute1dIDCT` yield vectors of floats.
- One lemma per action.
- `NextType`, which combines them.

**`IdctDispatchProofs`.**
- The theorems:
  - `DispatchCorrect: Spec => []IInv`, with `IInv == TypeOK /\ NoAbort /\ WritesInRegion /\ DispatchConsistent`;
  - `NoAbortCorrect: Spec => []NoAbort`;
  - `WritesInRegionCorrect: Spec => []WritesInRegion`.
- Why the strengthening is needed: neither property is inductive alone. Whether `ColumnPass` aborts, or `Pass2`/`RowPass` writes outside the region, depends on which path the call is on. That path comes from `FirstStep` applied to a dispatch that `ChooseInverseTransform` fixed for the call's size.
- `DispatchConsistent` records this:
  - after `ChooseInverseTransform`, `inverse_transform = ChooseFn(scaled_dct_size)`;
  - the 8x8 steps run only for (8x8, 8) or (generic, 2|4);
  - the DC copy runs only for size 1;
  - the Compute1dIDCT passes run only for sizes with a case.
- `FirstStepFacts` and `StoreRegion` (a matrix stored from 0 at `OutStride` lies in `Region(n)`) carry the step cases.

**`IdctScratchProofs`.**
- The theorem: `ScratchSafe: ASSUME ScratchEnough PROVE Spec => []NoScratchOverflow`.
- `ScratchEnough` says the buffer holds `ScratchNeed(n)` floats for every configured n:
  - 128 for size 8;
  - 192 for sizes 2 and 4;
  - 64 for size 1;
  - 64 + n² otherwise.
- The three passing runs satisfy it, and `general2` satisfies it with equality. The `scratch192` run shows it cannot be weakened to the spec's 192.
- The inductive invariant is `IInv` plus "box is reached only on the generic path". `StridedBound` bounds the cells of a strided matrix.

**`IdctDispatchProofs`, continued.** `DispatchConsistentCorrect: Spec => []DispatchConsistent` follows from `DispatchCorrect`.

**`IdctFreshProofs`.**
- The theorems:
  - `NoStaleReadCorrect: Spec => []NoStaleRead`;
  - `FreshInvCorrect: Spec => []FreshInv`.
- They hold for every configuration and every content of the scratch buffer left by earlier calls. No assumption on the buffer size is needed.
- Why the strengthening is needed: `NoStaleRead` alone says nothing about the next load. `FreshInv` (section 4) says, for each step label, which cells the step will load and that they are fresh. TLC checks it in the `general2` run.
- The argument:
  - `Begin` makes block0 fresh (`DequantBlock` stores all 64 cells);
  - within a call `fresh` only grows (`AccessFresh`), and each step stores exactly what the next step loads;
  - the column pass loads the `insize x insize` corner of block0 at stride 8, which lies inside block0 because `insize = min(n, 8) <= 8` (`CornerInBlock0`);
  - the row pass loads exactly the cells the column pass stored.

**Left to TLC.** TLAPS cannot reach three things here:
- the arithmetic results, `OutputCorrect` and `SpecDCScenario`: these are what recursive functions over the field compute for concrete inputs, and proving them for all inputs needs induction over data, which the installed provers cannot do;
- liveness and ENABLED (the model states no liveness property, see section 4);
- anything behind a RECURSIVE operator (the model avoids RECURSIVE and uses recursive functions instead).

## 7. The color-encoding header

`src/lib/cms/color_encoding_internal.h` has three parts. PROJECT.json lists them as the components ColorEncoding and ColorSpaceTransform, with `ColorEnums` inside ColorEncoding.

| Part | Code | What it does |
|---|---|---|
| Enumerations | `MakeBit`, `Values<Enum>`, `EnumBits` (41-110) | `EnumBits` ORs one bit per enumerator. `Values()` turns the bits back into the list of values by repeatedly taking the lowest set bit and clearing it. |
| `ColorEncoding` | 144-337 | The fields (color space, white point, primaries, transfer function with an optional gamma, rendering intent), `have_fields`, `cmyk`, and the ICC bytes. The setters change fields. `CreateICC`, `SetSRGB`, `SetICC` and `FromExternal` go through the cms, which may fail. |
| `ColorSpaceTransform` | 349-404 | `Init` copies both profiles into the members `icc_src_` and `icc_dst_`, rejects a CMYK destination, and asks the cms for a handle, which may be null. The cms "may retain pointers into" the copies. The destructor destroys a non-null handle. |

How they interact: a transform reads two encodings when it is initialised, and the encodings stay mutable afterwards. A caller may change or re-create their profiles while the transform is live.

**Modules.**

| Module | Models |
|---|---|
| `ColorEnums` | The enumerator values (`CS`, `WP`, `PR`, `TF`, `RI`), `MakeBit`, `EnumBits`, and `Values` as the recursive function `ValuesOf` over the remaining bits. `Ascending` is the reference: a set listed in increasing order. |
| `ColorEncoding` | `enc[o]`, the storage of each object in `Objs`, and `iccCall[o]`, the outcome of the last profile call. There is one action per member function that changes state. |
| `ColorEncodingProofs` | TLAPS proofs of `ICCDoc` and of the type invariant, below. |
| `ColorTransform` | One transform composed with the encodings. Its variables are `cms_data_`, `icc_src_` and `icc_dst_`. Ghost state: `retained` (what each handle points at and what it read there), `created`, `destroyed`, `alive`, `initOk` and `inits`. |
| `MCColorEncoding`, `MCColorTransform` | The TLC instances. |
| `ColorTransformProofs` | TLAPS proofs, below. |

**Abstraction.**
- An ICC profile is abstracted to the fields it was made from (`ProfileOf`), to an opaque byte string from the caller (a model value of `IccIn`), or to `Empty`.
- `Partial` stands for bytes that `MaybeCreateProfile` left half-written when it failed.
- The cms parser and profile writer are external. Each call of theirs either succeeds or fails. On success, a parsed profile yields any field values from the input sets, and any CMYK flag.
- The enumerator values come from `jxl::cms` (lib/cms/color_encoding.h), which is not in this tree. They matter because `Values()` recovers them from bit positions. They are marked `spec_modelled` in the map.
- `storage_.FromExternal` copies the fields in the order `FieldOrder` and may fail after any prefix of them. The model keeps that partial copy.

**Properties and runs.**

| Run | Expect | Checks |
|---|---|---|
| `encoding` | pass | `EnumValuesCorrect`: `Values<Enum>()` lists each enumeration exactly, in increasing order, and every field an encoding reaches is among them. `ICCDoc`: the ICC bytes are never half-written, and they are empty only before any profile call or after a failed one (the comment at lines 171-173). |
| `setsrgb` | violation | `SetSRGBYieldsSRGB`: a SetSRGB that returns true leaves `IsSRGB()` true. |
| `transform` | pass | `RetainedProfilesIntact`: while the transform holds a handle, the bytes the handle points into are the bytes it was given. `CmsHandlesBalanced`: after destruction, exactly the handles `cms_.init` returned have been destroyed. `TransformInv`: the inductive invariant of the proof. |
| `reinit` | violation | `RetainedProfilesIntact` when `Init` may be called again after a success. |
| `reinitleak` | violation | `CmsHandlesBalanced` under the same caller. |

**Bounds.**
- The encoding run uses one object, three color spaces, two values of each other field, one gamma and one opaque profile. The depth is unbounded, and all 75072 states are explored.
- The transform runs use one encoding object (both source and destination), which already lets the profile change under a live handle. `MaxInits = 2` is the smallest bound at which a re-Init happens. Two objects give 6.6M states without a new kind of behaviour.

**Mutants.**

| Mutant | Bug |
|---|---|
| `ClearLS1Dec` | `bits -= 1` instead of `bits &= bits - 1`. |
| `CreateICCOnKeep` | The second `icc.clear()` of CreateICC is dropped. |
| `RetainNoCopy` | The cms is given `c_src.ICC()` directly instead of the member copies (for `RetainedProfilesIntact`). |
| `DestructNoCheck` | The destructor has no nullptr check. |

**Findings.**
1. **`SetSRGB` keeps a gamma** (`setsrgb`, line 247). SetSRGB sets only `tf.transfer_function`. After a `SetICC` that parsed a gamma profile, a successful SetSRGB leaves `have_gamma` set: `IsSRGB()` is false, and the new ICC describes the gamma curve. The same happens after `SetICCRaw`, whose `have_fields = false` SetSRGB does not undo.
2. **Re-Init with a CMYK destination** (`reinit`, line 375). `Init` overwrites `icc_src_` and `icc_dst_` before it rejects a CMYK destination. If an earlier `Init` succeeded, its live handle now points into replaced bytes, while the failed `Init` leaves `cms_data_` in place.
3. **Re-Init leaks the handle** (`reinitleak`, line 378). `cms_data_` is overwritten without `cms_.destroy`.

Findings 2 and 3 need a caller that calls `Init` twice. Nothing forbids that, and nothing documents that it should not happen.

**Hazards.** These are listed in PROJECT.json:
- the half-written profile on CreateICC failure;
- the partial FromExternal copy, which has no documented contract, so no property covers it;
- the DASSERT-only check in `CreateC2`;
- the encodings changing under a live handle;
- the re-Init sequences and the leak;
- SetSRGB after a gamma or a raw profile.

**Proofs (`ColorTransformProofs`).** Two theorems hold for every set of objects and inputs and every `MaxInits`, when the caller calls `Init` again only after a failure (`ReinitAfterSuccess = FALSE`):
- `ProfilesIntactCorrect: ~ReinitAfterSuccess => (Spec => []RetainedProfilesIntact)`;
- `HandlesBalancedCorrect: ~ReinitAfterSuccess => (Spec => []CmsHandlesBalanced)`.

Neither property is inductive alone. A fresh `Init` might overwrite the copies, or drop a handle, unless we know that it starts with no handle. `TransformInv` adds these facts:
- a handle exists exactly when the last `Init` succeeded (`initOk`);
- it is the only handle created;
- `destroyed` is empty while the transform lives, and is `created` after destruction;
- the handle's retained record is the current member copies.

The encoding steps leave every transform variable unchanged. A permitted `Init` therefore starts from the null handle, and the destructor destroys exactly the one handle there is. TLC checks `TransformInv` in the `transform` run. The `reinit` runs show that the hypothesis `~ReinitAfterSuccess` is needed.

A third theorem, under the same hypothesis: `TransformInvCorrect: ~ReinitAfterSuccess => (Spec => []TransformInv)`.

The leak at line 378 is a second `Init` after a success, which this hypothesis excludes. It is shown by the `reinitleak` run, not proved away.

**Proofs (`ColorEncodingProofs`).**
- The theorem: `ICCDocCorrect: EncSpec => []ICCDoc`. It holds for every set of objects and of caller inputs.
- The assumption `IccAssumption`: the caller's bytes are neither `Empty` nor `Partial`. `SetICC` ENSUREs `!icc.empty()`, and `SetICCRaw` DASSERTs it. `Partial` stands only for what a failed `MaybeCreateProfile` leaves behind.
- The inductive invariant `ICCInv` adds typing to `ICCDoc`:
  - `enc` has domain `Objs`;
  - `iccCall` is a function into the three outcomes;
  - every storage has an `icc` field.
- One lemma per method:
  - the field setters keep the bytes (`SetField`);
  - `SetICC` and `SetICCRaw` store caller bytes, or clear them and record a failure;
  - every `CreateICC`, including those inside `SetSRGB`, `FromExternal` and the static `CreateC2`, yields a profile with "ok", or empty bytes with "failed" (`CreateICCOnOK`);
  - `storage_.FromExternal` copies only direct fields, never `icc` (`FieldOrderFacts`).
- TLC checked `ICCInv` on the `encoding` instance before the proof was written.
- The type theorem `EncTypeCorrect: EncSpec => []EncTypeOK`. It has one lemma per method:
  - the field setters (`FieldSetterType`);
  - `CreateICC` (`CreateICCType`);
  - `SetICC` and `SetICCRaw`;
  - `SetSRGB`;
  - `FromExternal` (`FromExternalType`). This one shows that a copy of any prefix of `FieldOrder` keeps each field in its set.

`EnumValuesCorrect` and `SetSRGBYieldsSRGB` are checked by TLC only. What `EnumValuesCorrect` is about is what the recursive function `ValuesOf` computes on five concrete bit masks. Unfolding a recursive function over `Nat` needs the operator-parameter induction theorem of WellFoundedInduction, which the installed provers cannot instantiate (section 6). Its other half, that every field is among its enum's values, follows from `EncTypeOK`.

## 8. Plan for further work

- Model `Transpose8x8Block` from its source if `transpose-inl.h` becomes available.
- Add a run with more components, so that several components with different sizes go through one `ChooseInverseTransform`. The proofs already cover any number of components.
- Model `FromExternal` and `SetFieldsFromICC` of `jxl::cms::ColorEncoding` (lib/cms/color_encoding.h), which are not in this tree, so that the field values a parsed profile yields are the code's and not any value.
- Prove the 1-D lemmas for fixed N (for example that `IDCT1DImpl2` matches `RefIDCT` for N = 2) as instances, without induction.
