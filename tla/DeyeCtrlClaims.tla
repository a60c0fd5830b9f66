--------------------------- MODULE DeyeCtrlClaims ---------------------------
(***************************************************************************)
(* Statements the comments and the wiki make about main/deye_ctrl.c that   *)
(* the code, as modelled in DeyeCtrl, does not keep. Each is the property  *)
(* of a run that ends in a counterexample.                                 *)
(***************************************************************************)
EXTENDS DeyeCtrl

(* wiki/Deye-Steuerung.md:96: after a power cut, a crash or an update the  *)
(* battery is back in normal operation. apply_clamped() changes the stored *)
(* mode apart from the inverter: a restart after Normal was stored and     *)
(* before it is written, or after a forced mode was written and before it  *)
(* is stored, leaves the inverter forced with nothing that would undo it.  *)
RestartUndoesForce == Quiet /\ mode = "Normal" => Holds("Normal", power)
=============================================================================
