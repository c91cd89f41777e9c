----------------------- MODULE SkillExecutionContract -----------------------
(***************************************************************************)
(* What a durable skill execution promises to the callers of the execute   *)
(* endpoint, without leases, attempts, workers or crashes: the steps of a  *)
(* plan settle in order, tools act only where the plan has arrived, a      *)
(* guarded tool acts at most once and never behind a definite outcome, and *)
(* an outcome is final.                                                    *)
(***************************************************************************)
EXTENDS Naturals

CONSTANT NSteps

VARIABLES
  plan,     \* [limit: the steps to settle, guarded: those whose tools must not act twice]
  status,   \* the client's view of the execution
  settled,  \* steps the execution need not come back to
  effects   \* times each step's tool has acted

vars == <<plan, status, settled, effects>>

Steps == 1..NSteps
Running == {"RUNNING", "NEEDS_RECONCILIATION"}

Init ==
  /\ plan \in [limit: 0..NSteps, guarded: SUBSET Steps]
  /\ status = "ABSENT"
  /\ settled = {}
  /\ effects = [s \in Steps |-> 0]

Accept ==
  /\ status = "ABSENT" /\ status' = "PENDING"
  /\ UNCHANGED <<plan, settled, effects>>

Begin ==
  /\ status = "PENDING" /\ status' = "RUNNING"
  /\ UNCHANGED <<plan, settled, effects>>

Arrived(s) == s <= plan.limit /\ 1..(s - 1) \subseteq settled

Settle(s) ==
  /\ status = "RUNNING" /\ Arrived(s)
  /\ settled' = settled \cup {s}
  /\ UNCHANGED <<plan, status, effects>>

\* A tool acts, possibly after the execution has stopped waiting for it.  A guarded one
\* acts once, and not after a definite outcome.
Act(s) ==
  /\ Arrived(s)
  /\ s \in plan.guarded => effects[s] = 0 /\ status \in Running
  /\ effects' = [effects EXCEPT ![s] = @ + 1]
  /\ UNCHANGED <<plan, status, settled>>

Succeed ==
  /\ status = "RUNNING" /\ 1..plan.limit \subseteq settled
  /\ status' = "SUCCEEDED"
  /\ UNCHANGED <<plan, settled, effects>>

\* A failure is definite only if every guarded effect belongs to a settled step.
Fail ==
  /\ status = "RUNNING"
  /\ \A s \in plan.guarded : effects[s] > 0 => s \in settled
  /\ status' = "FAILED"
  /\ UNCHANGED <<plan, settled, effects>>

AskForHelp ==
  /\ status = "RUNNING" /\ status' = "NEEDS_RECONCILIATION"
  /\ UNCHANGED <<plan, settled, effects>>

Next ==
  \/ Accept \/ Begin \/ Succeed \/ Fail \/ AskForHelp
  \/ \E s \in Steps : Settle(s) \/ Act(s)

Spec == Init /\ [][Next]_vars

=============================================================================
