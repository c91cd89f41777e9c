-------------------------- MODULE MCSkillApproval --------------------------
(* SkillApproval with a skill of one step, of a risk for every verdict. *)
EXTENDS SkillApproval, TLC

OneCall(mode) ==
  [step |-> <<[kind |-> "CALL", cap |-> "NONE", tries |-> 1, onError |-> "fail",
               reports |-> TRUE]>>,
   limit |-> 1, precondition |-> TRUE, mode |-> mode]

AnySkill == {OneCall("LIVE"), OneCall("SHADOW")}

RiskOf(level, requires) == [level |-> level, requiresApproval |-> requires]
\* Live, they are held for an approval, let through and denied.
EveryVerdict == {RiskOf("HIGH", FALSE), RiskOf("LOW", FALSE), RiskOf("CRITICAL", TRUE)}

\* Requests of a kind are interchangeable.
Interchangeable == Permutations(Requesters) \cup Permutations(Resumers)

=============================================================================
