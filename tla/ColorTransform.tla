---------------------------- MODULE ColorTransform ----------------------------
(***************************************************************************)
(* ColorSpaceTransform (src/lib/cms/color_encoding_internal.h:349-404)     *)
(* composed with the ColorEncoding objects it reads.                       *)
(*                                                                         *)
(* Init copies the ICC bytes of the source and destination encodings into  *)
(* the members icc_src_ and icc_dst_, rejects a CMYK destination, and asks *)
(* the cms for a transform (cms_.init, which may return nullptr).  "The    *)
(* interface may retain pointers into these": a cms handle is modelled     *)
(* with the bytes, and the place, it retains.  The destructor destroys a   *)
(* non-null handle.  Run, BufSrc and BufDst only read cms_data_.  The      *)
(* encodings keep changing under the transform through every operation of *)
(* the ColorEncoding model.                                                *)
(***************************************************************************)
EXTENDS ColorEncoding

CONSTANTS
  MaxInits,            \* bound on the Init calls on one transform
  ReinitAfterSuccess   \* whether the caller may call Init again after success

ASSUME TransformAssumption ==
  /\ MaxInits \in Nat \ {0}
  /\ ReinitAfterSuccess \in BOOLEAN

\* cms_data_ == nullptr; a handle is the number of the Init that made it.
Null == 0
Handles == 1..MaxInits
NoRetain == [srcAt |-> "none", src |-> Empty, dstAt |-> "none", dst |-> Empty]

VARIABLES
  cms_data,    \* cms_data_
  icc_src,     \* icc_src_
  icc_dst,     \* icc_dst_
  retained,    \* retained[h]: where handle h reads its profiles, and what it read
  created,     \* handles cms_.init has returned
  destroyed,   \* arguments cms_.destroy was called with
  alive,       \* the transform is not yet destructed
  initOk,      \* the Status the last Init returned
  inits        \* Init calls so far

tVars == <<cms_data, icc_src, icc_dst, retained, created, destroyed, alive,
           initOk, inits>>
vars == <<encVars, tVars>>

TransformTypeOK ==
  /\ EncTypeOK
  /\ cms_data \in {Null} \cup Handles
  /\ icc_src \in IccBytes /\ icc_dst \in IccBytes
  /\ retained \in [Handles -> [srcAt : {"none", "icc_src_"} \cup Objs, src : IccBytes,
                               dstAt : {"none", "icc_dst_"} \cup Objs, dst : IccBytes]]
  /\ created \subseteq Handles /\ destroyed \subseteq {Null} \cup Handles
  /\ alive \in BOOLEAN /\ initOk \in BOOLEAN
  /\ inits \in 0..MaxInits

\* The bytes currently at a place a handle reads from.
BytesAt(loc) ==
  IF loc = "icc_src_" THEN icc_src
  ELSE IF loc = "icc_dst_" THEN icc_dst
  ELSE IF loc \in Objs THEN enc[loc].icc
  ELSE Empty

TInit ==
  /\ cms_data = Null
  /\ icc_src = Empty /\ icc_dst = Empty
  /\ retained = [h \in Handles |-> NoRetain]
  /\ created = {} /\ destroyed = {}
  /\ alive = TRUE /\ initOk = FALSE /\ inits = 0

Init == EncInit /\ TInit

\* Mutant: the profile pointers taken from c_src.ICC() and c_dst.ICC()
\* instead of from the member copies.
RetainNoCopy(s, d) ==
  [srcAt |-> s, src |-> enc[s].icc, dstAt |-> d, dst |-> enc[d].icc]

\* What cms_.init retains: input_profile.icc and output_profile.icc point
\* into icc_src_ and icc_dst_, which hold copies of c_src.ICC(), c_dst.ICC().
Retain(s, d) ==
  [srcAt |-> "icc_src_", src |-> enc[s].icc, dstAt |-> "icc_dst_", dst |-> enc[d].icc]

\* ColorSpaceTransform::Init(c_src, c_dst, ...).  The caller calls it on a
\* live transform, at most MaxInits times, and again after a success only
\* if ReinitAfterSuccess.
InitTransform(s, d) ==
  /\ alive
  /\ inits < MaxInits
  /\ ReinitAfterSuccess \/ ~initOk
  /\ icc_src' = enc[s].icc
  /\ icc_dst' = enc[d].icc
  /\ inits' = inits + 1
  /\ IF enc[d].cmyk
     THEN /\ initOk' = FALSE
          /\ UNCHANGED <<cms_data, retained, created>>
     ELSE \E ok \in BOOLEAN :
            LET h == inits + 1
            IN /\ cms_data' = IF ok THEN h ELSE Null
               /\ created' = IF ok THEN created \cup {h} ELSE created
               /\ retained' = IF ok THEN [retained EXCEPT ![h] = Retain(s, d)]
                              ELSE retained
               /\ initOk' = ok
  /\ UNCHANGED <<destroyed, alive, encVars>>

\* Mutant: the destructor without its nullptr check.
DestructNoCheck ==
  /\ alive
  /\ alive' = FALSE
  /\ destroyed' = destroyed \cup {cms_data}
  /\ UNCHANGED <<cms_data, icc_src, icc_dst, retained, created, initOk, inits,
                 encVars>>

\* ~ColorSpaceTransform: destroy cms_data_ if it is not nullptr.
Destruct ==
  /\ alive
  /\ alive' = FALSE
  /\ destroyed' = IF cms_data # Null THEN destroyed \cup {cms_data} ELSE destroyed
  /\ UNCHANGED <<cms_data, icc_src, icc_dst, retained, created, initOk, inits,
                 encVars>>

Next ==
  \/ EncNext /\ UNCHANGED tVars
  \/ \E s, d \in Objs : InitTransform(s, d)
  \/ Destruct

Spec == Init /\ [][Next]_vars

(***************************************************************************)
(* Properties.                                                             *)
(***************************************************************************)

\* While the transform lives and holds a cms handle, the profile bytes the
\* handle points into are the bytes it was given: the encodings may change
\* their ICC after Init (SetSRGB, SetICC, CreateICC ...), but the handle
\* reads the copies Init made (color_encoding_internal.h:365, 371, 401).
RetainedProfilesIntact ==
  (alive /\ cms_data # Null) =>
     LET r == retained[cms_data]
     IN BytesAt(r.srcAt) = r.src /\ BytesAt(r.dstAt) = r.dst

\* Once the transform is destructed, cms_.destroy has been called exactly on
\* the handles cms_.init returned, and never on nullptr.
CmsHandlesBalanced ==
  ~alive => destroyed = created

\* The transform's state while Init is called only until it succeeds: a
\* handle exists exactly after a successful Init, it is the only one cms_.init
\* returned, the destructor destroyed exactly it, and it retains the member
\* copies, which no later step overwrites.  It implies both properties above
\* and is preserved by every step (ColorTransformProofs).
TransformInv ==
  /\ cms_data \in {Null} \cup Handles
  /\ inits \in 0..MaxInits
  /\ DOMAIN retained = Handles
  /\ initOk = (cms_data # Null)
  /\ created = IF cms_data = Null THEN {} ELSE {cms_data}
  /\ destroyed = IF alive THEN {} ELSE created
  /\ cms_data # Null =>
        retained[cms_data] = [srcAt |-> "icc_src_", src |-> icc_src,
                              dstAt |-> "icc_dst_", dst |-> icc_dst]
=============================================================================
