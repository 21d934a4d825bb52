------------------------- MODULE ColorEncodingProofs -------------------------
(***************************************************************************)
(* Proof of the contract of ColorEncoding::ICC()                          *)
(* (color_encoding_internal.h:171-173) for every set of objects and of    *)
(* inputs.  ICCDoc is inductive once it is known that each object's       *)
(* storage has an icc field: every method either leaves the bytes alone,  *)
(* stores caller bytes (never empty, never half-written), clears them and *)
(* records a failure, or goes through CreateICC, whose failure path      *)
(* clears the half-written profile and records the failure.               *)
(* The type invariant EncTypeOK is proved the same way, one lemma per     *)
(* method.                                                                 *)
(***************************************************************************)
EXTENDS ColorEncoding, TLAPS

(* The bytes b are a valid ICC() result for the outcome c of the last     *)
(* profile call.                                                           *)
IccOK(b, c) == b # Partial /\ (b = Empty => c \in {"none", "failed"})

Outcomes == {"none", "ok", "failed"}

ICCInv ==
  /\ DOMAIN enc = Objs
  /\ iccCall \in [Objs -> Outcomes]
  /\ \A o \in Objs : "icc" \in DOMAIN enc[o]
  /\ ICCDoc

(* A created profile is neither empty nor partial. *)
LEMMA ProfileDistinct ==
  ASSUME NEW e
  PROVE  ProfileOf(e) # Empty /\ ProfileOf(e) # Partial /\ Empty # Partial
<1>1. DOMAIN ProfileOf(e) = {"fields"} /\ DOMAIN Empty = {"bytes"}
      /\ DOMAIN Partial = {"bytes"}
  BY DEF ProfileOf, Empty, Partial
<1>2. Empty.bytes # Partial.bytes
  BY DEF Empty, Partial
<1>. QED  BY <1>1, <1>2, Zenon

(* CreateICC's result: the created profile with an "ok", or the cleared   *)
(* bytes with a "failed".                                                  *)
LEMMA CreateICCOnOK ==
  ASSUME NEW e, "icc" \in DOMAIN e, NEW ok \in BOOLEAN
  PROVE  /\ "icc" \in DOMAIN CreateICCOn(e, ok)
         /\ IccOK(CreateICCOn(e, ok).icc, Outcome(ok))
<1>1. CreateICCOn(e, ok).icc = IF ok THEN ProfileOf(e) ELSE Empty
  BY DEF CreateICCOn
<1>2. "icc" \in DOMAIN CreateICCOn(e, ok)
  BY DEF CreateICCOn
<1>. QED  BY <1>1, <1>2, ProfileDistinct DEF IccOK, Outcome

(* A step that replaces the storage of one object o by e and its last     *)
(* outcome by c keeps the invariant when e has an icc field and its bytes *)
(* are valid for c.                                                        *)
LEMMA UpdateOne ==
  ASSUME ICCInv, NEW o \in Objs, NEW e, NEW c \in Outcomes,
         enc' = [enc EXCEPT ![o] = e], iccCall' = [iccCall EXCEPT ![o] = c],
         "icc" \in DOMAIN e, IccOK(e.icc, c)
  PROVE  ICCInv'
<1>1. DOMAIN enc' = Objs /\ iccCall' \in [Objs -> Outcomes]
  BY DEF ICCInv
<1>2. ASSUME NEW p \in Objs
      PROVE  "icc" \in DOMAIN enc'[p] /\ IccOK(enc'[p].icc, iccCall'[p])
  <2>1. CASE p = o
    BY <2>1 DEF ICCInv
  <2>2. CASE p # o
    <3>1. enc'[p] = enc[p] /\ iccCall'[p] = iccCall[p]
      BY <2>2 DEF ICCInv
    <3>. QED  BY <3>1 DEF ICCInv, ICCDoc, IccOK
  <2>. QED  BY <2>1, <2>2
<1>. QED  BY <1>1, <1>2 DEF ICCInv, ICCDoc, IccOK

(* A step on object o that keeps the outcome keeps the invariant when the *)
(* new bytes are valid for that outcome.                                   *)
LEMMA KeepOutcome ==
  ASSUME ICCInv, NEW o \in Objs, NEW e,
         enc' = [enc EXCEPT ![o] = e], UNCHANGED iccCall,
         "icc" \in DOMAIN e, IccOK(e.icc, iccCall[o])
  PROVE  ICCInv'
<1>1. iccCall' = [iccCall EXCEPT ![o] = iccCall[o]]
  BY DEF ICCInv
<1>2. iccCall[o] \in Outcomes
  BY DEF ICCInv
<1>. QED  BY <1>1, <1>2, UpdateOne

(* A step on object o that sets one direct field (not the bytes) keeps    *)
(* the invariant.                                                          *)
LEMMA SetField ==
  ASSUME ICCInv, NEW o \in Objs, NEW k \in {"cs", "wp", "pr", "gamma", "tf", "ri",
                                           "have_fields"}, NEW v,
         enc' = [enc EXCEPT ![o] = [enc[o] EXCEPT ![k] = v]], UNCHANGED iccCall
  PROVE  ICCInv'
<1>1. "icc" \in DOMAIN enc[o] /\ IccOK(enc[o].icc, iccCall[o])
  BY Zenon DEF ICCInv, ICCDoc, IccOK
<1>2. "icc" \in DOMAIN [enc[o] EXCEPT ![k] = v]
      /\ [enc[o] EXCEPT ![k] = v].icc = enc[o].icc
  BY <1>1
<1>. QED  BY <1>1, <1>2, KeepOutcome

(* Recording a failure with the bytes left as they are keeps the          *)
(* invariant (SetICC on empty bytes).                                      *)
LEMMA FailOnly ==
  ASSUME ICCInv, NEW o \in Objs, UNCHANGED enc,
         iccCall' = [iccCall EXCEPT ![o] = "failed"]
  PROVE  ICCInv'
BY DEF ICCInv, ICCDoc, IccOK, Outcomes

(* Outcome(ok) is a recorded outcome. *)
LEMMA OutcomeType == \A ok \in BOOLEAN : Outcome(ok) \in Outcomes
BY DEF Outcome, Outcomes

(* Clearing the bytes of o and recording a failure keeps the invariant.   *)
LEMMA ClearFail ==
  ASSUME ICCInv, NEW o \in Objs,
         enc' = [enc EXCEPT ![o].icc = Empty],
         iccCall' = [iccCall EXCEPT ![o] = "failed"]
  PROVE  ICCInv'
<1>1. "icc" \in DOMAIN enc[o]
  BY DEF ICCInv
<1>2. enc' = [enc EXCEPT ![o] = [enc[o] EXCEPT !.icc = Empty]]
  OBVIOUS
<1>3. "icc" \in DOMAIN [enc[o] EXCEPT !.icc = Empty]
      /\ IccOK([enc[o] EXCEPT !.icc = Empty].icc, "failed")
  BY <1>1, ProfileDistinct DEF IccOK
<1>. QED  BY <1>2, <1>3, UpdateOne DEF Outcomes

-----------------------------------------------------------------------------
(* One lemma per method of ColorEncoding that changes the storage.         *)

LEMMA CreateICCStep ==
  ASSUME ICCInv, NEW o \in Objs, CreateICC(o)
  PROVE  ICCInv'
<1>1. PICK ok \in BOOLEAN :
        /\ enc' = [enc EXCEPT ![o] = CreateICCOn(enc[o], ok)]
        /\ iccCall' = [iccCall EXCEPT ![o] = Outcome(ok)]
  BY DEF CreateICC
<1>2. "icc" \in DOMAIN enc[o]
  BY DEF ICCInv
<1>. QED  BY <1>1, <1>2, CreateICCOnOK, OutcomeType, UpdateOne

LEMMA SetICCStep ==
  ASSUME ICCInv, NEW o \in Objs, SetICC(o)
  PROVE  ICCInv'
<1>1. CASE iccCall' = [iccCall EXCEPT ![o] = "failed"] /\ UNCHANGED enc
  BY <1>1, FailOnly
<1>2. CASE \E icc \in IccIn, f \in Fields, cmyk \in BOOLEAN :
             /\ enc' = [enc EXCEPT ![o] = [WithFields(enc[o], f) EXCEPT
                           !.have_fields = TRUE, !.cmyk = cmyk, !.icc = icc]]
             /\ iccCall' = [iccCall EXCEPT ![o] = "ok"]
  <2>1. PICK icc \in IccIn, f \in Fields, cmyk \in BOOLEAN :
             /\ enc' = [enc EXCEPT ![o] = [WithFields(enc[o], f) EXCEPT
                           !.have_fields = TRUE, !.cmyk = cmyk, !.icc = icc]]
             /\ iccCall' = [iccCall EXCEPT ![o] = "ok"]
    BY <1>2
  <2> DEFINE e == [WithFields(enc[o], f) EXCEPT
                     !.have_fields = TRUE, !.cmyk = cmyk, !.icc = icc]
  <2>2. "icc" \in DOMAIN enc[o]
    BY DEF ICCInv
  <2>3. "icc" \in DOMAIN e /\ e.icc = icc
    BY <2>2 DEF WithFields
  <2>4. icc # Empty /\ icc # Partial
    BY IccAssumption
  <2>. QED  BY <2>1, <2>3, <2>4, UpdateOne DEF IccOK, Outcomes
<1>3. CASE \E icc \in IccIn : /\ enc' = [enc EXCEPT ![o].icc = Empty]
                              /\ iccCall' = [iccCall EXCEPT ![o] = "failed"]
  BY <1>3, ClearFail
<1>. QED  BY <1>1, <1>2, <1>3 DEF SetICC

LEMMA SetICCRawStep ==
  ASSUME ICCInv, NEW o \in Objs, SetICCRaw(o)
  PROVE  ICCInv'
<1>1. PICK icc \in IccIn :
        /\ enc' = [enc EXCEPT ![o] = [enc[o] EXCEPT !.icc = icc, !.have_fields = FALSE]]
        /\ UNCHANGED iccCall
  BY DEF SetICCRaw
<1>2. "icc" \in DOMAIN enc[o]
  BY DEF ICCInv
<1>3. icc # Empty /\ icc # Partial
  BY IccAssumption
<1> DEFINE e == [enc[o] EXCEPT !.icc = icc, !.have_fields = FALSE]
<1>4. "icc" \in DOMAIN e /\ IccOK(e.icc, iccCall[o])
  BY <1>2, <1>3 DEF IccOK
<1>. QED  BY <1>1, <1>4, KeepOutcome

LEMMA FieldSetterStep ==
  ASSUME ICCInv, NEW o \in Objs,
         \/ ImplicitWhitePoint(o) \/ SetColorSpace(o) \/ SetWhitePointType(o)
         \/ SetPrimariesType(o) \/ SetTf(o) \/ SetRenderingIntent(o)
  PROVE  ICCInv'
<1>1. CASE ImplicitWhitePoint(o)
  BY <1>1, SetField DEF ImplicitWhitePoint
<1>2. CASE SetColorSpace(o)
  BY <1>2, SetField DEF SetColorSpace
<1>3. CASE SetWhitePointType(o)
  BY <1>3, SetField DEF SetWhitePointType
<1>4. CASE SetPrimariesType(o)
  BY <1>4, SetField DEF SetPrimariesType
<1>5. CASE SetRenderingIntent(o)
  BY <1>5, SetField DEF SetRenderingIntent
<1>6. CASE SetTf(o)
  <2>1. CASE \E g \in GammaIn : enc' = [enc EXCEPT ![o].gamma = g]
    BY <1>6, <2>1, SetField DEF SetTf
  <2>2. CASE \E tf \in TFIn : enc' = [enc EXCEPT ![o].gamma = "none", ![o].tf = tf]
    <3>1. PICK tf \in TFIn : enc' = [enc EXCEPT ![o].gamma = "none", ![o].tf = tf]
      BY <2>2
    <3>2. "icc" \in DOMAIN enc[o] /\ IccOK(enc[o].icc, iccCall[o])
      BY Zenon DEF ICCInv, ICCDoc, IccOK
    <3> DEFINE e == [enc[o] EXCEPT !.gamma = "none", !.tf = tf]
    <3>3. enc' = [enc EXCEPT ![o] = e] /\ "icc" \in DOMAIN e /\ e.icc = enc[o].icc
      BY <3>1, <3>2 DEF ICCInv
    <3>. QED  BY <1>6, <3>2, <3>3, KeepOutcome DEF SetTf
  <2>. QED  BY <1>6, <2>1, <2>2 DEF SetTf
<1>. QED  BY <1>1, <1>2, <1>3, <1>4, <1>5, <1>6

LEMMA SetSRGBStep ==
  ASSUME ICCInv, NEW o \in Objs, SetSRGB(o)
  PROVE  ICCInv'
<1>1. PICK cs \in CSIn, ri \in RIIn, ok \in BOOLEAN :
        IF cs \notin {CS.Gray, CS.RGB}
        THEN /\ enc' = [enc EXCEPT ![o].icc = Empty]
             /\ iccCall' = [iccCall EXCEPT ![o] = "failed"]
        ELSE /\ enc' = [enc EXCEPT ![o] =
                          CreateICCOn([enc[o] EXCEPT !.cs = cs, !.wp = WP.D65,
                                          !.pr = PR.SRGB, !.tf = TF.SRGB, !.ri = ri], ok)]
             /\ iccCall' = [iccCall EXCEPT ![o] = Outcome(ok)]
  BY DEF SetSRGB
<1>2. CASE cs \notin {CS.Gray, CS.RGB}
  BY <1>1, <1>2, ClearFail
<1>3. CASE cs \in {CS.Gray, CS.RGB}
  <2> DEFINE e == [enc[o] EXCEPT !.cs = cs, !.wp = WP.D65, !.pr = PR.SRGB,
                                 !.tf = TF.SRGB, !.ri = ri]
  <2>1. "icc" \in DOMAIN e
    BY DEF ICCInv
  <2>2. "icc" \in DOMAIN CreateICCOn(e, ok) /\ IccOK(CreateICCOn(e, ok).icc, Outcome(ok))
    BY <2>1, CreateICCOnOK
  <2>. QED  BY <1>1, <1>3, <2>2, OutcomeType, UpdateOne
<1>. QED  BY <1>2, <1>3

(* storage_.FromExternal copies only direct fields, never the bytes. *)
LEMMA FieldOrderFacts ==
  \A n \in 0..(Len(FieldOrder) - 1) : "icc" \notin {FieldOrder[i] : i \in 1..n}
<1>1. Len(FieldOrder) = 6
  BY DEF FieldOrder
<1>2. \A i \in 1..6 : FieldOrder[i] # "icc"
  BY DEF FieldOrder
<1>. QED  BY <1>1, <1>2

LEMMA FromExternalStep ==
  ASSUME ICCInv, NEW o \in Objs, FromExternal(o)
  PROVE  ICCInv'
<1> DEFINE e0 == enc[o]
<1>0. "icc" \in DOMAIN e0 /\ IccOK(e0.icc, iccCall[o])
  BY Zenon DEF ICCInv, ICCDoc, IccOK
<1>1. CASE \E n \in 0..(Len(FieldOrder) - 1) :
             \E g \in {[k \in {FieldOrder[i] : i \in 1..n} |-> f[k]] : f \in Fields} :
               /\ enc' = [enc EXCEPT ![o] = [k \in DOMAIN e0 |->
                            IF k \in DOMAIN g THEN g[k] ELSE e0[k]]]
               /\ UNCHANGED iccCall
  <2>0. PICK n \in 0..(Len(FieldOrder) - 1) :
             \E g \in {[k \in {FieldOrder[i] : i \in 1..n} |-> f[k]] : f \in Fields} :
               /\ enc' = [enc EXCEPT ![o] = [k \in DOMAIN e0 |->
                            IF k \in DOMAIN g THEN g[k] ELSE e0[k]]]
               /\ UNCHANGED iccCall
    BY <1>1
  <2>1. PICK g \in {[k \in {FieldOrder[i] : i \in 1..n} |-> f[k]] : f \in Fields} :
               /\ enc' = [enc EXCEPT ![o] = [k \in DOMAIN e0 |->
                            IF k \in DOMAIN g THEN g[k] ELSE e0[k]]]
               /\ UNCHANGED iccCall
    BY <2>0
  <2>2. "icc" \notin DOMAIN g
    BY <2>1, FieldOrderFacts
  <2> DEFINE e == [k \in DOMAIN e0 |-> IF k \in DOMAIN g THEN g[k] ELSE e0[k]]
  <2>3. "icc" \in DOMAIN e /\ e.icc = e0.icc
    BY <1>0, <2>2
  <2>. QED  BY <1>0, <2>1, <2>3, KeepOutcome
<1>2. CASE \E f \in Fields, ok \in BOOLEAN :
             /\ enc' = [enc EXCEPT ![o] = CreateICCOn(WithFields(e0, f), ok)]
             /\ iccCall' = [iccCall EXCEPT ![o] = Outcome(ok)]
  <2>1. PICK f \in Fields, ok \in BOOLEAN :
             /\ enc' = [enc EXCEPT ![o] = CreateICCOn(WithFields(e0, f), ok)]
             /\ iccCall' = [iccCall EXCEPT ![o] = Outcome(ok)]
    BY <1>2
  <2>2. "icc" \in DOMAIN WithFields(e0, f)
    BY <1>0 DEF WithFields
  <2>. QED  BY <2>1, <2>2, CreateICCOnOK, OutcomeType, UpdateOne
<1>. QED  BY <1>1, <1>2 DEF FromExternal

-----------------------------------------------------------------------------
(* Every step of the encodings keeps ICCInv. *)
LEMMA NextICC == ICCInv /\ [EncNext]_encVars => ICCInv'
<1> SUFFICES ASSUME ICCInv, [EncNext]_encVars PROVE ICCInv'
  OBVIOUS
<1>1. CASE EncNext
  <2>1. PICK o \in Objs :
          \/ CreateICC(o) \/ SetICC(o) \/ SetICCRaw(o) \/ ImplicitWhitePoint(o)
          \/ SetSRGB(o) \/ SetColorSpace(o) \/ SetWhitePointType(o)
          \/ SetPrimariesType(o) \/ SetTf(o) \/ SetRenderingIntent(o)
          \/ FromExternal(o)
    BY <1>1 DEF EncNext
  <2>. QED  BY <2>1, CreateICCStep, SetICCStep, SetICCRawStep, FieldSetterStep,
               SetSRGBStep, FromExternalStep
<1>2. CASE UNCHANGED encVars
  BY <1>2 DEF encVars, ICCInv, ICCDoc, IccOK
<1>. QED  BY <1>1, <1>2

(* Each object starts default-constructed, with no bytes and no profile    *)
(* call, or as a copy of SRGB(is_gray) or LinearSRGB(is_gray), whose       *)
(* CreateICC left a profile or, failing, no bytes.                         *)
LEMMA InitICC == EncInit => ICCInv
<1> SUFFICES ASSUME EncInit PROVE ICCInv
  OBVIOUS
<1>1. PICK kind \in [Objs -> {"default", "srgb", "linear"}],
           gray \in [Objs -> BOOLEAN], ok \in [Objs -> BOOLEAN] :
     /\ enc = [o \in Objs |->
                 IF kind[o] = "default" THEN DefaultEncoding
                 ELSE IF kind[o] = "srgb" THEN CreateC2(PR.SRGB, TF.SRGB, gray[o], ok[o])
                 ELSE CreateC2(PR.SRGB, TF.Linear, gray[o], ok[o])]
     /\ iccCall = [o \in Objs |->
                     IF kind[o] = "default" THEN "none"
                     ELSE IF ok[o] THEN "ok" ELSE "failed"]
  BY DEF EncInit
<1>2. ASSUME NEW o \in Objs
      PROVE  "icc" \in DOMAIN enc[o] /\ IccOK(enc[o].icc, iccCall[o])
  <2>1. CASE kind[o] = "default"
    <3>1. enc[o] = DefaultEncoding /\ iccCall[o] = "none"
      BY <1>1, <2>1
    <3>. QED  BY <3>1, ProfileDistinct DEF DefaultEncoding, IccOK
  <2>2. CASE kind[o] # "default"
    <3>1. PICK tf : enc[o] = CreateC2(PR.SRGB, tf, gray[o], ok[o])
      BY <1>1, <2>2
    <3>2. iccCall[o] = Outcome(ok[o])
      BY <1>1, <2>2 DEF Outcome
    <3> DEFINE e == [DefaultEncoding EXCEPT !.cs = IF gray[o] THEN CS.Gray ELSE CS.RGB,
                                            !.wp = WP.D65, !.pr = PR.SRGB,
                                            !.gamma = "none", !.tf = tf]
    <3>3. enc[o] = CreateICCOn(e, ok[o])
      BY <3>1 DEF CreateC2
    <3>4. "icc" \in DOMAIN e
      BY DEF DefaultEncoding
    <3>. QED  BY <3>2, <3>3, <3>4, CreateICCOnOK
  <2>. QED  BY <2>1, <2>2
<1>3. iccCall \in [Objs -> Outcomes]
  BY <1>1 DEF Outcomes
<1>. QED  BY <1>1, <1>2, <1>3 DEF ICCInv, ICCDoc, IccOK

(* ICCDocCorrect: for every set of objects and of caller inputs, ICC()     *)
(* keeps the promise of its comment (color_encoding_internal.h:171-173):   *)
(* the bytes are never a half-written profile, and they are empty only     *)
(* before any profile call or after a failed SetSRGB, SetICC or CreateICC  *)
(* (including the (void)CreateICC() of FromExternal).                       *)
THEOREM ICCDocCorrect == EncSpec => []ICCDoc
<1>1. EncInit => ICCInv
  BY InitICC
<1>2. ICCInv /\ [EncNext]_encVars => ICCInv'
  BY NextICC
<1>3. ICCInv => ICCDoc
  BY DEF ICCInv
<1>. QED  BY <1>1, <1>2, <1>3, PTL DEF EncSpec

-----------------------------------------------------------------------------
(* The type of the storage: no method stores a value outside its           *)
(* enumeration, or bytes that are neither empty, partial, caller bytes nor *)
(* a profile of fields.                                                     *)

(* The fields callers pass are fields of the enumerations. *)
LEMMA FieldsAny == Fields \subseteq AnyFields
BY EncodingAssumption DEF Fields, AnyFields

(* The constants the methods store. *)
LEMMA ConstantsInRange ==
  /\ {CS.RGB, CS.Gray} \subseteq EnumRange(CS)
  /\ WP.D65 \in EnumRange(WP) /\ PR.SRGB \in EnumRange(PR)
  /\ {TF.SRGB, TF.Linear} \subseteq EnumRange(TF) /\ RI.Relative \in EnumRange(RI)
  /\ Empty \in IccBytes /\ IccIn \subseteq IccBytes
BY DEF CS, WP, PR, TF, RI, EnumRange, IccBytes

(* CreateICC keeps the storage well typed: the profile it writes is made *)
(* of the storage's own fields.                                            *)
LEMMA CreateICCOnEnc ==
  ASSUME NEW e \in Enc, NEW ok \in BOOLEAN
  PROVE  CreateICCOn(e, ok) \in Enc
<1>1. ProfileOf(e) \in IccBytes
  BY DEF Enc, ProfileOf, FieldsOf, IccBytes, AnyFields
<1>. QED  BY <1>1, ConstantsInRange DEF CreateICCOn, Enc

(* Replacing the storage of one object by a well-typed one, and its last  *)
(* outcome by an outcome, keeps the type.                                  *)
LEMMA EncUpdate ==
  ASSUME EncTypeOK, NEW o \in Objs, NEW e \in Enc, NEW c \in Outcomes,
         enc' = [enc EXCEPT ![o] = e], iccCall' = [iccCall EXCEPT ![o] = c]
  PROVE  EncTypeOK'
BY DEF EncTypeOK, Outcomes

LEMMA EncKeep ==
  ASSUME EncTypeOK, NEW o \in Objs, NEW e \in Enc,
         enc' = [enc EXCEPT ![o] = e], UNCHANGED iccCall
  PROVE  EncTypeOK'
BY DEF EncTypeOK

LEMMA CreateICCType ==
  ASSUME EncTypeOK, NEW o \in Objs, CreateICC(o)
  PROVE  EncTypeOK'
<1>1. PICK ok \in BOOLEAN :
        /\ enc' = [enc EXCEPT ![o] = CreateICCOn(enc[o], ok)]
        /\ iccCall' = [iccCall EXCEPT ![o] = Outcome(ok)]
  BY DEF CreateICC
<1>2. enc[o] \in Enc
  BY DEF EncTypeOK
<1>. QED  BY <1>1, <1>2, CreateICCOnEnc, OutcomeType, EncUpdate

LEMMA SetICCType ==
  ASSUME EncTypeOK, NEW o \in Objs, SetICC(o)
  PROVE  EncTypeOK'
<1>0. enc[o] \in Enc
  BY DEF EncTypeOK
<1>1. CASE iccCall' = [iccCall EXCEPT ![o] = "failed"] /\ UNCHANGED enc
  BY <1>1 DEF EncTypeOK
<1>2. CASE \E icc \in IccIn, f \in Fields, cmyk \in BOOLEAN :
             /\ enc' = [enc EXCEPT ![o] = [WithFields(enc[o], f) EXCEPT
                           !.have_fields = TRUE, !.cmyk = cmyk, !.icc = icc]]
             /\ iccCall' = [iccCall EXCEPT ![o] = "ok"]
  <2>1. PICK icc \in IccIn, f \in Fields, cmyk \in BOOLEAN :
             /\ enc' = [enc EXCEPT ![o] = [WithFields(enc[o], f) EXCEPT
                           !.have_fields = TRUE, !.cmyk = cmyk, !.icc = icc]]
             /\ iccCall' = [iccCall EXCEPT ![o] = "ok"]
    BY <1>2
  <2>2. WithFields(enc[o], f) \in Enc
    BY <1>0, FieldsAny DEF Enc, WithFields, AnyFields
  <2>3. [WithFields(enc[o], f) EXCEPT !.have_fields = TRUE, !.cmyk = cmyk, !.icc = icc] \in Enc
    BY <2>2, ConstantsInRange DEF Enc
  <2>. QED  BY <2>1, <2>3, EncUpdate DEF Outcomes
<1>3. CASE \E icc \in IccIn : /\ enc' = [enc EXCEPT ![o].icc = Empty]
                              /\ iccCall' = [iccCall EXCEPT ![o] = "failed"]
  <2>1. [enc[o] EXCEPT !.icc = Empty] \in Enc
    BY <1>0, ConstantsInRange DEF Enc
  <2>. QED  BY <1>3, <2>1, EncUpdate DEF Outcomes
<1>. QED  BY <1>1, <1>2, <1>3 DEF SetICC

LEMMA SetICCRawType ==
  ASSUME EncTypeOK, NEW o \in Objs, SetICCRaw(o)
  PROVE  EncTypeOK'
<1>1. PICK icc \in IccIn :
        /\ enc' = [enc EXCEPT ![o] = [enc[o] EXCEPT !.icc = icc, !.have_fields = FALSE]]
        /\ UNCHANGED iccCall
  BY DEF SetICCRaw
<1>2. [enc[o] EXCEPT !.icc = icc, !.have_fields = FALSE] \in Enc
  BY ConstantsInRange DEF EncTypeOK, Enc
<1>. QED  BY <1>1, <1>2, EncKeep

LEMMA SetSRGBType ==
  ASSUME EncTypeOK, NEW o \in Objs, SetSRGB(o)
  PROVE  EncTypeOK'
<1>0. enc[o] \in Enc
  BY DEF EncTypeOK
<1>1. PICK cs \in CSIn, ri \in RIIn, ok \in BOOLEAN :
        IF cs \notin {CS.Gray, CS.RGB}
        THEN /\ enc' = [enc EXCEPT ![o].icc = Empty]
             /\ iccCall' = [iccCall EXCEPT ![o] = "failed"]
        ELSE /\ enc' = [enc EXCEPT ![o] =
                          CreateICCOn([enc[o] EXCEPT !.cs = cs, !.wp = WP.D65,
                                          !.pr = PR.SRGB, !.tf = TF.SRGB, !.ri = ri], ok)]
             /\ iccCall' = [iccCall EXCEPT ![o] = Outcome(ok)]
  BY DEF SetSRGB
<1>2. CASE cs \notin {CS.Gray, CS.RGB}
  <2>1. [enc[o] EXCEPT !.icc = Empty] \in Enc
    BY <1>0, ConstantsInRange DEF Enc
  <2>. QED  BY <1>1, <1>2, <2>1, EncUpdate DEF Outcomes
<1>3. CASE cs \in {CS.Gray, CS.RGB}
  <2>1. [enc[o] EXCEPT !.cs = cs, !.wp = WP.D65, !.pr = PR.SRGB, !.tf = TF.SRGB,
                      !.ri = ri] \in Enc
    BY <1>0, <1>3, ConstantsInRange, EncodingAssumption DEF Enc
  <2>. QED  BY <1>1, <1>3, <2>1, CreateICCOnEnc, OutcomeType, EncUpdate
<1>. QED  BY <1>2, <1>3

LEMMA FieldSetterType ==
  ASSUME EncTypeOK, NEW o \in Objs,
         \/ ImplicitWhitePoint(o) \/ SetColorSpace(o) \/ SetWhitePointType(o)
         \/ SetPrimariesType(o) \/ SetTf(o) \/ SetRenderingIntent(o)
  PROVE  EncTypeOK'
<1>0. enc[o] \in Enc
  BY DEF EncTypeOK
<1>1. CASE ImplicitWhitePoint(o)
  BY <1>0, <1>1, ConstantsInRange, EncKeep DEF ImplicitWhitePoint, Enc
<1>2. CASE SetColorSpace(o)
  BY <1>0, <1>2, EncodingAssumption, EncKeep DEF SetColorSpace, Enc
<1>3. CASE SetWhitePointType(o)
  BY <1>0, <1>3, EncodingAssumption, EncKeep DEF SetWhitePointType, Enc
<1>4. CASE SetPrimariesType(o)
  BY <1>0, <1>4, EncodingAssumption, EncKeep DEF SetPrimariesType, Enc
<1>5. CASE SetRenderingIntent(o)
  BY <1>0, <1>5, EncodingAssumption, EncKeep DEF SetRenderingIntent, Enc
<1>6. CASE SetTf(o)
  BY <1>0, <1>6, EncodingAssumption, EncKeep DEF SetTf, Enc
<1>. QED  BY <1>1, <1>2, <1>3, <1>4, <1>5, <1>6

(* storage_.FromExternal copies only direct fields, and values of them. *)
LEMMA FieldOrderNames ==
  \A n \in 0..(Len(FieldOrder) - 1) :
     {FieldOrder[i] : i \in 1..n} \subseteq {"cs", "wp", "pr", "gamma", "tf", "ri"}
BY DEF FieldOrder

LEMMA FromExternalType ==
  ASSUME EncTypeOK, NEW o \in Objs, FromExternal(o)
  PROVE  EncTypeOK'
<1> DEFINE e0 == enc[o]
<1>0. e0 \in Enc
  BY DEF EncTypeOK
<1>1. CASE \E n \in 0..(Len(FieldOrder) - 1) :
             \E g \in {[k \in {FieldOrder[i] : i \in 1..n} |-> f[k]] : f \in Fields} :
               /\ enc' = [enc EXCEPT ![o] = [k \in DOMAIN e0 |->
                            IF k \in DOMAIN g THEN g[k] ELSE e0[k]]]
               /\ UNCHANGED iccCall
  <2>1. PICK n \in 0..(Len(FieldOrder) - 1) :
             \E g \in {[k \in {FieldOrder[i] : i \in 1..n} |-> f[k]] : f \in Fields} :
               /\ enc' = [enc EXCEPT ![o] = [k \in DOMAIN e0 |->
                            IF k \in DOMAIN g THEN g[k] ELSE e0[k]]]
               /\ UNCHANGED iccCall
    BY <1>1
  <2> DEFINE D == {FieldOrder[i] : i \in 1..n}
  <2>5. PICK g \in {[k \in D |-> f[k]] : f \in Fields} :
             /\ enc' = [enc EXCEPT ![o] = [k \in DOMAIN e0 |->
                          IF k \in DOMAIN g THEN g[k] ELSE e0[k]]]
             /\ UNCHANGED iccCall
    BY <2>1
  <2>6. PICK f \in Fields : g = [k \in D |-> f[k]]
    BY <2>5
  <2>7. [k \in DOMAIN e0 |-> IF k \in DOMAIN g THEN g[k] ELSE e0[k]]
        = [k \in DOMAIN e0 |-> IF k \in D THEN f[k] ELSE e0[k]]
    BY <2>6
  <2>2. /\ enc' = [enc EXCEPT ![o] = [k \in DOMAIN e0 |->
                     IF k \in D THEN f[k] ELSE e0[k]]]
        /\ UNCHANGED iccCall
    BY <2>5, <2>7
  <2>3. D \subseteq {"cs", "wp", "pr", "gamma", "tf", "ri"} /\ f \in AnyFields
    BY FieldOrderNames, FieldsAny
  <2>4. [k \in DOMAIN e0 |-> IF k \in D THEN f[k] ELSE e0[k]] \in Enc
    BY <1>0, <2>3 DEF Enc, AnyFields
  <2>. QED  BY <2>2, <2>4, EncKeep
<1>2. CASE \E f \in Fields, ok \in BOOLEAN :
             /\ enc' = [enc EXCEPT ![o] = CreateICCOn(WithFields(e0, f), ok)]
             /\ iccCall' = [iccCall EXCEPT ![o] = Outcome(ok)]
  <2>1. PICK f \in Fields, ok \in BOOLEAN :
             /\ enc' = [enc EXCEPT ![o] = CreateICCOn(WithFields(e0, f), ok)]
             /\ iccCall' = [iccCall EXCEPT ![o] = Outcome(ok)]
    BY <1>2
  <2>2. WithFields(e0, f) \in Enc
    BY <1>0, FieldsAny DEF Enc, WithFields, AnyFields
  <2>. QED  BY <2>1, <2>2, CreateICCOnEnc, OutcomeType, EncUpdate
<1>. QED  BY <1>1, <1>2 DEF FromExternal


LEMMA NextType == EncTypeOK /\ [EncNext]_encVars => EncTypeOK'
<1> SUFFICES ASSUME EncTypeOK, [EncNext]_encVars PROVE EncTypeOK'
  OBVIOUS
<1>1. CASE EncNext
  <2>1. PICK o \in Objs :
          \/ CreateICC(o) \/ SetICC(o) \/ SetICCRaw(o) \/ ImplicitWhitePoint(o)
          \/ SetSRGB(o) \/ SetColorSpace(o) \/ SetWhitePointType(o)
          \/ SetPrimariesType(o) \/ SetTf(o) \/ SetRenderingIntent(o)
          \/ FromExternal(o)
    BY <1>1 DEF EncNext
  <2>. QED  BY <2>1, CreateICCType, SetICCType, SetICCRawType, FieldSetterType,
               SetSRGBType, FromExternalType
<1>2. CASE UNCHANGED encVars
  BY <1>2 DEF encVars, EncTypeOK
<1>. QED  BY <1>1, <1>2

(* The default encoding, and the static SRGB and LinearSRGB encodings, are *)
(* well typed.                                                             *)
LEMMA InitType == EncInit => EncTypeOK
<1> SUFFICES ASSUME EncInit PROVE EncTypeOK
  OBVIOUS
<1>1. DefaultEncoding \in Enc
  BY ConstantsInRange DEF DefaultEncoding, Enc
<1>2. ASSUME NEW tf \in {TF.SRGB, TF.Linear}, NEW gray \in BOOLEAN, NEW ok \in BOOLEAN
      PROVE  CreateC2(PR.SRGB, tf, gray, ok) \in Enc
  <2>1. [DefaultEncoding EXCEPT !.cs = IF gray THEN CS.Gray ELSE CS.RGB,
                                !.wp = WP.D65, !.pr = PR.SRGB,
                                !.gamma = "none", !.tf = tf] \in Enc
    BY <1>1, ConstantsInRange DEF Enc
  <2>. QED  BY <2>1, CreateICCOnEnc DEF CreateC2
<1>. QED  BY <1>1, <1>2, ConstantsInRange DEF EncInit, EncTypeOK

(* EncTypeCorrect: every method keeps every field of every encoding in    *)
(* its enumeration, and the bytes among the byte strings the model knows. *)
THEOREM EncTypeCorrect == EncSpec => []EncTypeOK
BY InitType, NextType, PTL DEF EncSpec
=============================================================================
