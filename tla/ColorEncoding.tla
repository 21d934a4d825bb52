---------------------------- MODULE ColorEncoding ----------------------------
(***************************************************************************)
(* The ColorEncoding objects of src/lib/cms/color_encoding_internal.h:     *)
(* the direct fields (color space, white point, primaries, transfer        *)
(* function, rendering intent), the have_fields and cmyk flags and the ICC *)
(* profile bytes, and every method that changes them.                      *)
(*                                                                         *)
(* The collaborators outside this file are choices: MaybeCreateProfile     *)
(* (profile creation from the fields) succeeds or fails, the cms parse of  *)
(* SetFieldsFromICC yields any fields, and storage_.FromExternal fails     *)
(* after having overwritten any subset of the fields.  ICC bytes are       *)
(* abstracted to what they encode: a profile created from a snapshot of    *)
(* the fields, or caller-supplied bytes (a model value of IccIn).          *)
(***************************************************************************)
EXTENDS ColorEnums

CONSTANTS
  Objs,      \* the ColorEncoding objects
  CSIn,      \* color spaces callers pass
  WPIn,      \* white points callers pass
  PRIn,      \* primaries callers pass
  TFIn,      \* transfer functions callers pass
  RIIn,      \* rendering intents callers pass
  GammaIn,   \* gammas set through Tf(): "unit" (1.0, linear) or "other"
  IccIn      \* non-empty ICC byte strings callers pass to SetICC/SetICCRaw

ASSUME EncodingAssumption ==
  /\ Objs # {}
  /\ CSIn \subseteq EnumRange(CS) /\ WPIn \subseteq EnumRange(WP)
  /\ PRIn \subseteq EnumRange(PR) /\ TFIn \subseteq EnumRange(TF)
  /\ RIIn \subseteq EnumRange(RI)
  /\ GammaIn \subseteq {"unit", "other"}
  /\ IccIn # {}

\* Empty ICC bytes, and the bytes a failed profile creation may leave behind.
Empty == [bytes |-> "none"]
Partial == [bytes |-> "partial"]

\* Caller bytes are never empty (SetICC ENSUREs it, SetICCRaw DASSERTs it),
\* and never the leftovers of a failed MaybeCreateProfile.
ASSUME IccAssumption == IccIn \cap {Empty, Partial} = {}

\* The direct fields; gamma = "none" is have_gamma == false.
Fields == [cs : CSIn, wp : WPIn, pr : PRIn, gamma : GammaIn \cup {"none"},
           tf : TFIn, ri : RIIn]
FieldsOf(e) == [cs |-> e.cs, wp |-> e.wp, pr |-> e.pr, gamma |-> e.gamma,
                tf |-> e.tf, ri |-> e.ri]
\* The profile MaybeCreateProfile writes for the fields of e.
ProfileOf(e) == [fields |-> FieldsOf(e)]
\* e with its direct fields replaced by f.
WithFields(e, f) ==
  [e EXCEPT !.cs = f.cs, !.wp = f.wp, !.pr = f.pr, !.gamma = f.gamma,
            !.tf = f.tf, !.ri = f.ri]
AnyFields == [cs : EnumRange(CS), wp : EnumRange(WP), pr : EnumRange(PR),
              gamma : {"none", "unit", "other"}, tf : EnumRange(TF),
              ri : EnumRange(RI)]
IccBytes == {Empty, Partial} \cup IccIn \cup {[fields |-> f] : f \in AnyFields}

Enc == [cs : EnumRange(CS), wp : EnumRange(WP), pr : EnumRange(PR),
        gamma : {"none", "unit", "other"}, tf : EnumRange(TF),
        ri : EnumRange(RI), have_fields : BOOLEAN, cmyk : BOOLEAN,
        icc : IccBytes]

\* jxl::cms::ColorEncoding defaults: sRGB fields, no ICC.
DefaultEncoding ==
  [cs |-> CS.RGB, wp |-> WP.D65, pr |-> PR.SRGB, gamma |-> "none",
   tf |-> TF.SRGB, ri |-> RI.Relative, have_fields |-> TRUE, cmyk |-> FALSE,
   icc |-> Empty]

\* jxl::cms::CustomTransferFunction::IsSRGB.
TfIsSRGB(e) == e.gamma = "none" /\ e.tf = TF.SRGB

\* jxl::cms::ColorEncoding::HasPrimaries.
HasPrimaries(e) == e.cs \notin {CS.Gray, CS.XYB}

IsGray(e) == e.cs = CS.Gray

\* IsSRGB: the early-return chain.
IsSRGB(e) ==
  /\ e.have_fields
  /\ IsGray(e) \/ e.cs = CS.RGB
  /\ e.wp = WP.D65
  /\ e.pr = PR.SRGB
  /\ TfIsSRGB(e)

\* Mutant: the second icc.clear() of CreateICC dropped.
CreateICCOnKeep(e, ok) ==
  [e EXCEPT !.icc = IF ok THEN ProfileOf(e) ELSE Partial]

\* CreateICC on encoding e when MaybeCreateProfile returns ok: the bytes are
\* cleared, written, and cleared again on failure.
CreateICCOn(e, ok) ==
  [e EXCEPT !.icc = IF ok THEN ProfileOf(e) ELSE Empty]

\* CreateC2(pr, tf): the encoding of SRGB(is_gray) and LinearSRGB(is_gray),
\* when its CreateICC returns ok (a failure is only DASSERTed).
CreateC2(pr, tf, is_gray, ok) ==
  CreateICCOn([DefaultEncoding EXCEPT !.cs = IF is_gray THEN CS.Gray ELSE CS.RGB,
                                      !.wp = WP.D65, !.pr = pr,
                                      !.gamma = "none", !.tf = tf], ok)

VARIABLES
  enc,       \* enc[o]: the storage_ of object o
  iccCall    \* iccCall[o]: outcome of the last SetSRGB/SetICC/CreateICC on o

encVars == <<enc, iccCall>>

EncTypeOK ==
  /\ enc \in [Objs -> Enc]
  /\ iccCall \in [Objs -> {"none", "ok", "failed"}]

\* An object is default-constructed or a copy of one of the static
\* encodings SRGB(is_gray) or LinearSRGB(is_gray).
EncInit ==
  \E kind \in [Objs -> {"default", "srgb", "linear"}],
    gray \in [Objs -> BOOLEAN], ok \in [Objs -> BOOLEAN] :
     /\ enc = [o \in Objs |->
                 IF kind[o] = "default" THEN DefaultEncoding
                 ELSE IF kind[o] = "srgb" THEN CreateC2(PR.SRGB, TF.SRGB, gray[o], ok[o])
                 ELSE CreateC2(PR.SRGB, TF.Linear, gray[o], ok[o])]
     /\ iccCall = [o \in Objs |->
                     IF kind[o] = "default" THEN "none"
                     ELSE IF ok[o] THEN "ok" ELSE "failed"]

Outcome(ok) == IF ok THEN "ok" ELSE "failed"

CreateICC(o) ==
  \E ok \in BOOLEAN :
     /\ enc' = [enc EXCEPT ![o] = CreateICCOn(@, ok)]
     /\ iccCall' = [iccCall EXCEPT ![o] = Outcome(ok)]

\* SetICC: ENSURE fails on empty bytes; otherwise the cms parses them into
\* the fields, or fails and the bytes are dropped.
SetICC(o) ==
  \/ /\ iccCall' = [iccCall EXCEPT ![o] = "failed"]
     /\ UNCHANGED enc
  \/ \E icc \in IccIn :
        \/ \E f \in Fields, cmyk \in BOOLEAN :
              /\ enc' = [enc EXCEPT ![o] = [WithFields(@, f) EXCEPT
                            !.have_fields = TRUE, !.cmyk = cmyk, !.icc = icc]]
              /\ iccCall' = [iccCall EXCEPT ![o] = "ok"]
        \/ /\ enc' = [enc EXCEPT ![o].icc = Empty]
           /\ iccCall' = [iccCall EXCEPT ![o] = "failed"]

\* SetICCRaw: store the bytes and forget the fields.
SetICCRaw(o) ==
  \E icc \in IccIn :
     /\ enc' = [enc EXCEPT ![o].icc = icc, ![o].have_fields = FALSE]
     /\ UNCHANGED iccCall

ImplicitWhitePoint(o) ==
  /\ enc[o].cs = CS.XYB
  /\ enc' = [enc EXCEPT ![o].wp = WP.D65]
  /\ UNCHANGED iccCall

\* SetSRGB(cs, ri): clear the bytes, ENSURE gray or RGB, set the sRGB
\* fields (transfer_function only: have_gamma is left as it is), CreateICC.
SetSRGB(o) ==
  \E cs \in CSIn, ri \in RIIn, ok \in BOOLEAN :
     IF cs \notin {CS.Gray, CS.RGB}
     THEN /\ enc' = [enc EXCEPT ![o].icc = Empty]
          /\ iccCall' = [iccCall EXCEPT ![o] = "failed"]
     ELSE /\ enc' = [enc EXCEPT ![o] =
                       CreateICCOn([@ EXCEPT !.cs = cs, !.wp = WP.D65,
                                       !.pr = PR.SRGB, !.tf = TF.SRGB, !.ri = ri], ok)]
          /\ iccCall' = [iccCall EXCEPT ![o] = Outcome(ok)]

SetColorSpace(o) ==
  \E cs \in CSIn :
     /\ enc' = [enc EXCEPT ![o].cs = cs]
     /\ UNCHANGED iccCall

SetWhitePointType(o) ==
  \E wp \in WPIn :
     /\ enc[o].have_fields
     /\ enc' = [enc EXCEPT ![o].wp = wp]
     /\ UNCHANGED iccCall

SetPrimariesType(o) ==
  \E pr \in PRIn :
     /\ enc[o].have_fields
     /\ HasPrimaries(enc[o])
     /\ enc' = [enc EXCEPT ![o].pr = pr]
     /\ UNCHANGED iccCall

\* A caller writes the transfer function through the Tf() reference:
\* SetTransferFunction(tf) or SetGamma(gamma).
SetTf(o) ==
  /\ \/ \E tf \in TFIn : enc' = [enc EXCEPT ![o].gamma = "none", ![o].tf = tf]
     \/ \E g \in GammaIn : enc' = [enc EXCEPT ![o].gamma = g]
  /\ UNCHANGED iccCall

SetRenderingIntent(o) ==
  \E ri \in RIIn :
     /\ enc' = [enc EXCEPT ![o].ri = ri]
     /\ UNCHANGED iccCall

\* The direct fields in the order storage_.FromExternal copies them.
FieldOrder == <<"cs", "wp", "pr", "gamma", "tf", "ri">>

\* FromExternal: storage_.FromExternal copies the external fields in order
\* and may fail after any prefix of them; on success (void)CreateICC().
FromExternal(o) ==
  LET e == enc[o]
  IN \/ \E n \in 0..(Len(FieldOrder) - 1) :
          \E g \in {[k \in {FieldOrder[i] : i \in 1..n} |-> f[k]] : f \in Fields} :
             /\ enc' = [enc EXCEPT ![o] = [k \in DOMAIN e |->
                          IF k \in DOMAIN g THEN g[k] ELSE e[k]]]
             /\ UNCHANGED iccCall
     \/ \E f \in Fields, ok \in BOOLEAN :
          /\ enc' = [enc EXCEPT ![o] = CreateICCOn(WithFields(e, f), ok)]
          /\ iccCall' = [iccCall EXCEPT ![o] = Outcome(ok)]

EncNext ==
  \E o \in Objs :
     \/ CreateICC(o) \/ SetICC(o) \/ SetICCRaw(o) \/ ImplicitWhitePoint(o)
     \/ SetSRGB(o) \/ SetColorSpace(o) \/ SetWhitePointType(o)
     \/ SetPrimariesType(o) \/ SetTf(o) \/ SetRenderingIntent(o)
     \/ FromExternal(o)

EncSpec == EncInit /\ [][EncNext]_encVars

(***************************************************************************)
(* Properties.                                                             *)
(***************************************************************************)

\* Values<Enum>() (color_encoding_internal.h:50-64) lists each enumeration
\* exactly once in increasing order, so a caller that iterates over
\* Values<Enum>() meets every value a field of an encoding can hold.
EnumValuesCorrect ==
  /\ ValuesListEnums
  /\ \A o \in Objs :
       /\ enc[o].cs \in SeqRange(Values.ColorSpace)
       /\ enc[o].wp \in SeqRange(Values.WhitePoint)
       /\ enc[o].pr \in SeqRange(Values.Primaries)
       /\ enc[o].tf \in SeqRange(Values.TransferFunction)
       /\ enc[o].ri \in SeqRange(Values.RenderingIntent)

\* The contract of ICC() (color_encoding_internal.h:171-173): the bytes are
\* never a partly written profile, and they are empty only before any
\* profile call or after a failed SetSRGB, SetICC or CreateICC.
ICCDoc ==
  \A o \in Objs :
     /\ enc[o].icc # Partial
     /\ enc[o].icc = Empty => iccCall[o] \in {"none", "failed"}

\* A SetSRGB that returns true leaves an encoding that IsSRGB() reports as
\* sRGB.
SetSRGBYieldsSRGB ==
  [][\A o \in Objs :
       (SetSRGB(o) /\ iccCall'[o] = "ok") => IsSRGB(enc'[o])]_encVars
=============================================================================
