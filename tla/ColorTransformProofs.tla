------------------------- MODULE ColorTransformProofs -------------------------
(***************************************************************************)
(* Proofs about ColorSpaceTransform for every set of encodings, inputs and *)
(* every bound MaxInits, when the caller calls Init again only after a     *)
(* failure (ReinitAfterSuccess = FALSE).  TransformInv is inductive: the   *)
(* encoding steps leave the transform's variables alone, a permitted Init  *)
(* starts from the null handle, and the destructor destroys exactly the   *)
(* handle there is.                                                        *)
(***************************************************************************)
EXTENDS ColorTransform, ColorEncodingProofs, TLAPS

\* The retained record of a successful Init is the member copies it made.
LEMMA RetainIsCopy ==
  ASSUME NEW s, NEW d
  PROVE  Retain(s, d) = [srcAt |-> "icc_src_", src |-> enc[s].icc,
                         dstAt |-> "icc_dst_", dst |-> enc[d].icc]
BY DEF Retain

\* The initial state satisfies the invariant.
LEMMA InitInv == Init => TransformInv
<1> SUFFICES ASSUME TInit PROVE TransformInv
  BY DEF Init
<1>1. Null \notin Handles
  BY DEF Null, Handles
<1>2. DOMAIN retained = Handles
  BY Zenon DEF TInit
<1>3. inits \in 0..MaxInits
  BY TransformAssumption DEF TInit
<1>4. /\ cms_data = Null /\ initOk = FALSE /\ alive
      /\ created = {} /\ destroyed = {}
  BY DEF TInit
<1> QED
  BY <1>1, <1>2, <1>3, <1>4 DEF TransformInv, Null

\* A step of the encodings leaves the invariant, which reads only the
\* transform's own variables.
LEMMA EncStepInv ==
  TransformInv /\ EncNext /\ UNCHANGED tVars => TransformInv'
BY DEF TransformInv, tVars, Null, Handles

\* Init, called only while the last one failed, keeps the invariant.
LEMMA InitStepInv ==
  ASSUME TransformInv, ~ReinitAfterSuccess,
         NEW s \in Objs, NEW d \in Objs, InitTransform(s, d)
  PROVE  TransformInv'
<1>1. /\ ~initOk /\ alive /\ inits < MaxInits
      /\ icc_src' = enc[s].icc /\ icc_dst' = enc[d].icc
      /\ inits' = inits + 1 /\ UNCHANGED <<destroyed, alive>>
  BY DEF InitTransform
<1>2. cms_data = Null /\ created = {} /\ destroyed = {}
  BY <1>1 DEF TransformInv
<1>3. inits \in 0..MaxInits /\ inits' \in 0..MaxInits
  BY <1>1, TransformAssumption DEF TransformInv
<1>4. CASE enc[d].cmyk
  <2>1. initOk' = FALSE /\ UNCHANGED <<cms_data, retained, created>>
    BY <1>4 DEF InitTransform
  <2> QED
    BY <1>1, <1>2, <1>3, <2>1 DEF TransformInv
<1>5. CASE ~enc[d].cmyk
  <2>1. PICK ok \in BOOLEAN :
          /\ cms_data' = IF ok THEN inits + 1 ELSE Null
          /\ created' = IF ok THEN created \cup {inits + 1} ELSE created
          /\ retained' = IF ok THEN [retained EXCEPT ![inits + 1] = Retain(s, d)]
                         ELSE retained
          /\ initOk' = ok
    BY <1>5 DEF InitTransform
  <2>2. inits + 1 \in Handles /\ Null \notin Handles
    BY <1>1, <1>3, TransformAssumption DEF Handles, Null
  <2>3. CASE ok
    <3>1. retained'[inits + 1] = [srcAt |-> "icc_src_", src |-> icc_src',
                                  dstAt |-> "icc_dst_", dst |-> icc_dst']
      BY <1>1, <2>1, <2>2, <2>3, RetainIsCopy DEF TransformInv
    <3>2. DOMAIN retained' = Handles
      BY <2>1, <2>3 DEF TransformInv
    <3> QED
      BY <1>1, <1>2, <1>3, <2>1, <2>2, <2>3, <3>1, <3>2 DEF TransformInv
  <2>4. CASE ~ok
    BY <1>1, <1>2, <1>3, <2>1, <2>4 DEF TransformInv
  <2> QED
    BY <2>3, <2>4
<1> QED
  BY <1>4, <1>5

\* The destructor keeps the invariant.
LEMMA DestructStepInv ==
  TransformInv /\ Destruct => TransformInv'
<1> SUFFICES ASSUME TransformInv, Destruct PROVE TransformInv'
  OBVIOUS
<1>1. alive /\ ~alive'
      /\ destroyed' = (IF cms_data # Null THEN destroyed \cup {cms_data} ELSE destroyed)
      /\ UNCHANGED <<cms_data, icc_src, icc_dst, retained, created, initOk, inits>>
  BY DEF Destruct
<1> QED
  BY <1>1 DEF TransformInv

\* TransformInv is preserved by every step.
LEMMA NextInv ==
  ~ReinitAfterSuccess /\ TransformInv /\ [Next]_vars => TransformInv'
<1> SUFFICES ASSUME ~ReinitAfterSuccess, TransformInv, [Next]_vars
             PROVE TransformInv'
  OBVIOUS
<1>1. CASE EncNext /\ UNCHANGED tVars
  BY <1>1, EncStepInv
<1>2. CASE \E s, d \in Objs : InitTransform(s, d)
  BY <1>2, InitStepInv
<1>3. CASE Destruct
  BY <1>3, DestructStepInv
<1>4. CASE UNCHANGED vars
  BY <1>4 DEF TransformInv, vars, tVars
<1> QED
  BY <1>1, <1>2, <1>3, <1>4 DEF Next

\* The invariant implies both properties of the transform.
LEMMA InvImpliesProps ==
  TransformInv => RetainedProfilesIntact /\ CmsHandlesBalanced
<1> SUFFICES ASSUME TransformInv PROVE RetainedProfilesIntact /\ CmsHandlesBalanced
  OBVIOUS
<1>1. BytesAt("icc_src_") = icc_src /\ BytesAt("icc_dst_") = icc_dst
  BY DEF BytesAt
<1>2. RetainedProfilesIntact
  BY <1>1 DEF RetainedProfilesIntact, TransformInv
<1>3. CmsHandlesBalanced
  BY DEF CmsHandlesBalanced, TransformInv
<1> QED
  BY <1>2, <1>3

\* When Init is called again only after a failure, as a caller that stops
\* at the first successful ColorSpaceTransform::Init does, the cms handle
\* keeps reading intact copies of the profiles (color_encoding_internal.h:
\* 365, 371, 401) for every encoding operation in between.
THEOREM ProfilesIntactCorrect ==
  ~ReinitAfterSuccess => (Spec => []RetainedProfilesIntact)
<1> SUFFICES ASSUME ~ReinitAfterSuccess PROVE Spec => []RetainedProfilesIntact
  OBVIOUS
<1>1. Init => TransformInv
  BY InitInv
<1>2. TransformInv /\ [Next]_vars => TransformInv'
  BY NextInv
<1>3. TransformInv => RetainedProfilesIntact
  BY InvImpliesProps
<1> QED
  BY <1>1, <1>2, <1>3, PTL DEF Spec

\* Under the same caller, the destructor calls cms_.destroy exactly on the
\* handles cms_.init returned (color_encoding_internal.h:352-356, 378).
THEOREM HandlesBalancedCorrect ==
  ~ReinitAfterSuccess => (Spec => []CmsHandlesBalanced)
<1> SUFFICES ASSUME ~ReinitAfterSuccess PROVE Spec => []CmsHandlesBalanced
  OBVIOUS
<1>1. Init => TransformInv
  BY InitInv
<1>2. TransformInv /\ [Next]_vars => TransformInv'
  BY NextInv
<1>3. TransformInv => CmsHandlesBalanced
  BY InvImpliesProps
<1> QED
  BY <1>1, <1>2, <1>3, PTL DEF Spec

(* TransformInvCorrect: under the same caller, the transform holds a cms  *)
(* handle exactly when its last Init succeeded, that handle is the only   *)
(* one cms_.init returned, and it retains the current member copies.      *)
THEOREM TransformInvCorrect ==
  ~ReinitAfterSuccess => (Spec => []TransformInv)
<1> SUFFICES ASSUME ~ReinitAfterSuccess PROVE Spec => []TransformInv
  OBVIOUS
<1>1. Init => TransformInv
  BY InitInv
<1>2. TransformInv /\ [Next]_vars => TransformInv'
  BY NextInv
<1> QED
  BY <1>1, <1>2, PTL DEF Spec
=============================================================================
