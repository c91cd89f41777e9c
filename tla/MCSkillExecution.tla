-------------------------- MODULE MCSkillExecution --------------------------
(* SkillExecution with small skills that together take every branch. *)
EXTENDS SkillExecutionInvariant, TLC

Call(cap, tries, onError) ==
  [kind |-> "CALL", cap |-> cap, tries |-> tries, onError |-> onError, reports |-> TRUE]
Other(kind, onError) == [Call("NONE", 1, onError) EXCEPT !.kind = kind]
Spec2(first, second) ==
  [step |-> <<first, second>>, limit |-> 2, precondition |-> TRUE, mode |-> "LIVE"]

Charge == Spec2(Call("NONE", 2, "fail"), Call("NATIVE", 2, "continue"))
Transfer == Spec2(Call("QUERY_RECONCILE", 1, "fail"), Call("NONE", 1, "continue"))
Notify == Spec2(Other("SKIP", "fail"), Call("NONE", 1, "fail"))
Unreadable == Spec2(Other("BAD_WHEN", "fail"), Other("SKIP", "fail"))
Tolerant == Spec2(Other("BAD_ARGS", "continue"), Other("BAD_ARGS", "fail"))
Preview == [Charge EXCEPT !.mode = "SHADOW", !.limit = 1]
Barred == [Charge EXCEPT !.precondition = FALSE]

SafetySkills == {Charge, Transfer, Notify, Unreadable, Tolerant, Preview, Barred}
PlainSkills == {Spec2(Call("NONE", 1, "fail"), Call("NONE", 1, "fail"))}

\* Handlers of the same request are interchangeable.
Handlers == Permutations(Runners)
Replicas == Permutations(Recoverers)

=============================================================================
