--------------------------- MODULE MCEvolutionJobs ---------------------------
(* Instances of EvolutionJobs: four experiences in a chain of similarity,  *)
(* the last of them not yet useful enough for a scan.                      *)
EXTENDS EvolutionJobs, TLC

MCFamilyOf == [e \in Exp |-> CHOOSE f \in Family : TRUE]
MCEpisodesOf == (1 :> {"a"} @@ 2 :> {"b"} @@ 3 :> {"c"} @@ 4 :> {"a"})
MCSimilar == {{1, 2}, {2, 3}, {3, 4}}
MCStatus == [e \in Exp |-> "ACTIVE"]
MCUtility == [e \in Exp |-> IF e = 4 THEN 5 ELSE 8]
MCConflicting == {{2, 3}}
MCManual == {{2, 3, 4}}

=============================================================================
