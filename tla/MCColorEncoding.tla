-------------------------- MODULE MCColorEncoding --------------------------
(***************************************************************************)
(* Instances of the ColorEncoding model for TLC.                           *)
(***************************************************************************)
EXTENDS ColorEncoding

CONSTANTS e1, b1

\* One object; the inputs reach every branch: XYB fails SetSRGB and has no
\* primaries, DCI and P3 make the encoding non-sRGB, Linear and the unit gamma
\* cover both transfer-function checks.
MCObjs == {e1}
MCCSIn == {CS.RGB, CS.Gray, CS.XYB}
MCWPIn == {WP.D65, WP.DCI}
MCPRIn == {PR.SRGB, PR.P3}
MCTFIn == {TF.SRGB, TF.Linear}
MCRIIn == {RI.Relative, RI.Perceptual}
MCGammaIn == {"unit"}
MCIccIn == {b1}
=============================================================================
