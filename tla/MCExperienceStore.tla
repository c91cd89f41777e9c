-------------------------- MODULE MCExperienceStore --------------------------
(* An instance of ExperienceStore: "dont" says the opposite of "do" and    *)
(* "also", which are about the same and say different things.              *)
EXTENDS ExperienceStore, TLC

MCStatement == {"do", "dont", "also"}

MCJudge ==
    [pair \in MCStatement \X MCStatement |->
        IF pair[1] = pair[2] THEN "SAME"
        ELSE IF "dont" \in {pair[1], pair[2]} THEN "CONFLICT"
        ELSE "RELATED"]

Says(s, q) == [says |-> s, quality |-> q]

MCCandidates ==
    ("a" :> <<Says("do", 2), Says("also", 1)>> @@ "b" :> <<Says("dont", 1)>>
     @@ "c" :> <<Says("do", 0), Says("dont", 3)>>)

Either == Permutations(Pipeline)

=============================================================================
