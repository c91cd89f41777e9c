-------------------------- MODULE MCSkillLifecycle --------------------------
(* SkillLifecycle with small gates. *)
EXTENDS SkillLifecycle, TLC

\* Requests of a kind and keys are interchangeable.
Alike == Permutations(Operators) \cup Permutations(Executors) \cup Permutations(Keys)

=============================================================================
