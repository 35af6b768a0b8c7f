------------------------------ MODULE Controllers -----------------------------
(***************************************************************************)
(* What the modules about several controllers have in common.              *)
(***************************************************************************)
EXTENDS FiniteSets

CONSTANT Controller   \* the controller processes

ASSUME ControllerAssumption == IsFiniteSet(Controller)

=============================================================================
