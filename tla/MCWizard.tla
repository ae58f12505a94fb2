------------------------------ MODULE MCWizard ------------------------------
(* Instances of Wizard for TLC.  Liveness is checked, so there is no symmetry. *)
EXTENDS Wizard
=============================================================================
