----------------------------- MODULE MCTempFix -----------------------------
(* Instances of TempFix for TLC: f3 is created, if at all, at the path of f1. *)
EXTENDS TempFix, TLC

MCFile == {"f1", "f2", "f3"}
MCPathOf == [f \in MCFile |-> IF f = "f2" THEN "b" ELSE "a"]

\* Runs and folder names are interchangeable.
Symmetry == Permutations(Run) \cup Permutations(Folder)
=============================================================================
