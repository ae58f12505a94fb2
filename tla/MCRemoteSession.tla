-------------------------- MODULE MCRemoteSession --------------------------
(* Instances of RemoteSession for TLC. *)
EXTENDS RemoteSession, TLC

\* Calls and tokens are interchangeable in every safety run.
Symmetry == Permutations(Proc) \cup Permutations(Token)
=============================================================================
