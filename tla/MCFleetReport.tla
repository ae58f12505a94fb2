--------------------------- MODULE MCFleetReport ---------------------------
(* Instances of FleetReport for TLC: every report names the same machine. *)
EXTENDS FleetReport, TLC

MCMachineOf == [r \in Report |-> CHOOSE m \in Machine : TRUE]

\* Reports of one machine are interchangeable.
Symmetry == Permutations(Report)
=============================================================================
