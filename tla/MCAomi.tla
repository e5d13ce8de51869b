-------------------------------- MODULE MCAomi -------------------------------
(* Instance of Aomi for TLC: the bounds are in AomiBatch.cfg. *)
EXTENDS Aomi
=============================================================================
