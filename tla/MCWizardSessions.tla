-------------------------- MODULE MCWizardSessions --------------------------
(* Instances of WizardSessions for TLC. *)
EXTENDS WizardSessions, TLC

\* Sessions and requests are interchangeable.
Symmetry == Permutations(Session) \cup Permutations(Proc)
=============================================================================
