------------------------- MODULE MCContextProvenance -------------------------
(* Instances of ContextProvenance: "long" is shown compressed, and the     *)
(* pattern generalises what is in Covered.                                 *)
EXTENDS ContextProvenance, TLC

CONSTANT Covered

MCRank == "best" :> 1 @@ "long" :> 2 @@ "also" :> 3 @@ "rule" :> 4

MCGrade == [e \in Experience |->
    IF e = "long" THEN "COMPRESS" ELSE "KEEP"]

MCEvidence == [p \in Pattern |-> Covered]

MCWeight == [x \in Entry |-> 2]

Either == Permutations(Builder) \cup Permutations(Recorder)

=============================================================================
