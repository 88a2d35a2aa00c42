----------------------------- MODULE MCSnsSync -----------------------------
(***************************************************************************)
(* The IMX327's own numbers, with a few of the AE's choices at and around  *)
(* the limits.                                                             *)
(***************************************************************************)
EXTENDS SnsSync

MCGains == {<<127, 30, 140, 0>>}
=============================================================================
