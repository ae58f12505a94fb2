---------------------------- MODULE MCSpoolerFix ----------------------------
(* Instances of SpoolerFix for TLC: job f3 gets the number of job f1. *)
EXTENDS SpoolerFix, TLC

MCFile == {"f1", "f2", "f3"}
MCPathOf == [f \in MCFile |-> IF f = "f2" THEN "00003.SPL" ELSE "00002.SPL"]

\* Runs and folder names are interchangeable.
Symmetry == Permutations(Run) \cup Permutations(Folder)
=============================================================================
