---------------------------- MODULE MCRemediate ----------------------------
(* Instances of Remediate for TLC. *)
EXTENDS Remediate, TLC

\* Calls and tokens are interchangeable in every safety run.
Symmetry == Permutations(Proc) \cup Permutations(Token)
=============================================================================
