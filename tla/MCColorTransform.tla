-------------------------- MODULE MCColorTransform --------------------------
(***************************************************************************)
(* Instances of the ColorSpaceTransform model for TLC.                     *)
(***************************************************************************)
EXTENDS ColorTransform

CONSTANTS e1, b1

\* One encoding, the source and the destination of the transform (two
\* encodings multiply the states by several hundred); RGB and XYB give
\* profiles with different bytes, and the cms parse of b1 may set cmyk.
MCObjs == {e1}
MCCSIn == {CS.RGB, CS.XYB}
MCWPIn == {WP.D65}
MCPRIn == {PR.SRGB}
MCTFIn == {TF.SRGB}
MCRIIn == {RI.Relative}
MCGammaIn == {}
MCIccIn == {b1}
=============================================================================
