----------------------- MODULE SkillProgressInvariant -----------------------
(***************************************************************************)
(* Why the rows of an execution can be believed: the inductive invariant   *)
(* behind SkillExecution!LedgerIsTruthful, CursorIsSettled, NoHiddenEffect *)
(* and KeepsContract.  It is inductive relative to                         *)
(* SkillExecutionInvariant!IInv.                                           *)
(*                                                                         *)
(* The argument.  Steps are passed in order, and a step that was passed is *)
(* over: its last attempt needs nothing more (Passed, BeyondIsOver).  Of   *)
(* the workers that hold the lease one at most is engaged in attempts, and *)
(* nobody who holds it is ahead of that one (OneEngaged); so nobody writes *)
(* the rows of a step that is over (OverIsLeft), and whoever is about to   *)
(* end the execution leaves nothing hot behind (FailIsCold).               *)
(***************************************************************************)
EXTENDS SkillExecutionInvariant

\* All tools are called through providers that report a timeout as Unknown.
EveryProviderReports == \A sk \in Skills, s \in Steps : sk.step[s].reports

Kind(s) == skill.step[s].kind

\* The worker holds the lease and has an attempt of its step, or is about to retry one.
Engaged(w) == Fenced(w) /\ (Holding(w) \/ (Inserting(w) /\ Att(w) > 1))

\* It holds the lease and will fail the execution.
Ending(w) == Fenced(w) /\ pc[w] = "fail"

\* It goes on under the lease it has.
Holds(w) == Fenced(w) /\ pc[w] \notin {"idle", "insert", "done", "claim", "get"}

\* The last attempt of the step needs nothing more: neither a handler nor the planner goes
\* back to it.
Over(s) ==
  \E a \in Attempts :
    /\ IsLast(ledger, s, a)
    /\ \/ ledger[s][a] \in Done
       \/ /\ ledger[s][a] = "FAILED" /\ skill.step[s].onError = "continue"
          /\ Kind(s) = "BAD_ARGS" \/ a >= skill.step[s].tries

-----------------------------------------------------------------------------
(* What rows and answers say of the tools. *)

SendingIsFresh == \A w \in Workers : pc[w] = "invoke" => MyRequest(w) = "none"

AnswersAreTrue ==
  \A w \in Workers :
    /\ pc[w] = "saveOK" /\ Live => MyRequest(w) \in {"applied", "replayed"}
    /\ pc[w] = "applied" => Applied(Cur(w))

RefusalsAreTrue ==
  \A w \in Workers : pc[w] = "saveFailed" => MyRequest(w) \in {"none", "refused"}

SuccessIsApplied ==
  \A s \in Steps, a \in Attempts : ledger[s][a] = "SUCCEEDED" /\ Live => Applied(s)

FailureIsFinal ==
  \A s \in Steps, a \in Attempts, w \in Workers : ledger[s][a] = "FAILED" =>
    request[s][a][w] \in {"none", "refused", "lost"} /\ ~(At(w, s, a) /\ pc[w] = "invoke")

\* A success is believed by every provider's word, a failure only by that of one that reports
\* a timeout as Unknown.
Evidence == SendingIsFresh /\ AnswersAreTrue /\ SuccessIsApplied
Truth == Evidence /\ RefusalsAreTrue /\ FailureIsFinal

-----------------------------------------------------------------------------
(* Which rows a step of which kind has, and those of the workers at it. *)

RowKinds ==
  \A s \in Steps, a \in Attempts :
    /\ HasRow(ledger, s, a) => s <= skill.limit /\ Kind(s) # "BAD_WHEN"
    /\ Kind(s) = "SKIP" => ledger[s][a] \in {"NONE", "SKIPPED"} /\ (a > 1 => ledger[s][a] = "NONE")
    /\ Kind(s) = "BAD_ARGS" => ledger[s][a] \in {"NONE", "FAILED"}
    /\ Kind(s) = "CALL" => ledger[s][a] # "SKIPPED"
    /\ Live => ledger[s][a] # "SHADOWED"

\* Where a worker has rows behind it, its step is one that gets rows; a failure is recorded
\* once the tries are used up, or after a resumption.
WorkerKinds ==
  \A w \in Workers :
    /\ Holding(w) => Kind(Cur(w)) = "CALL"
    /\ Inserting(w) /\ Att(w) > 1 => Cur(w) \in Steps /\ Kind(Cur(w)) \in {"CALL", "BAD_ARGS"}
    /\ pc[w] = "saveFailed" => me[w].resuming \/ Att(w) >= Step(w).tries
    /\ \A s \in Steps, a \in Attempts : request[s][a][w] # "none" => Kind(s) = "CALL"

\* The row of an attempt is as its worker left it, and no later one is there.
HeldRows ==
  \A w \in Workers :
    /\ Fenced(w) /\ Before(w) => ledger[Cur(w)][Att(w)] = "PENDING"
    /\ Fenced(w) /\ Calling(w) => ledger[Cur(w)][Att(w)] = "RUNNING"
    /\ Fenced(w) /\ pc[w] \in {"query", "applied"} => ledger[Cur(w)][Att(w)] = "UNKNOWN_OUTCOME"
    /\ Engaged(w) => \A b \in Attempts : Att(w) < b => ~HasRow(ledger, Cur(w), b)

\* Where the preconditions fail, nothing is ever done.
Unmet ==
  ~skill.precondition =>
    /\ \A s \in Steps, a \in Attempts : ~HasRow(ledger, s, a)
    /\ exec.cursor > 0 => NSteps = 0
    /\ \A w \in Workers : pc[w] \in {"step", "advance"} \/ me[w].cursor > 0 => NSteps = 0

\* Before it runs, nothing has happened; while the recovery loop is at work, it runs.
Phases ==
  /\ exec.status \in {"ABSENT", "PENDING"} =>
       /\ exec.cursor = 0
       /\ \A s \in Steps, a \in Attempts : ~HasRow(ledger, s, a)
       /\ \A w \in Workers : pc[w] \in {"idle", "insert", "done", "start"} /\ me[w].cursor = 0
  /\ \A r \in Recoverers : pc[r] \notin {"idle", "claim"} => exec.status = "RUNNING"
  /\ exec.status = "SUCCEEDED" => exec.cursor >= skill.limit

Rows == RowKinds /\ WorkerKinds /\ HeldRows /\ Unmet /\ Phases

-----------------------------------------------------------------------------
(* Who is where. *)

Passed ==
  \A s \in Steps :
    /\ s <= exec.cursor => Over(s)
    /\ \A w \in Workers : s <= me[w].cursor => Over(s)

BeyondIsOver ==
  \A s, t \in Steps, a \in Attempts : s < t /\ HasRow(ledger, t, a) => Over(s)

OverIsLeft ==
  \A s \in Steps, w \in Workers : Over(s) /\ Kind(s) = "CALL" => ~(Engaged(w) /\ Cur(w) = s)

OneEngaged ==
  \A w, x \in Workers : (Engaged(w) \/ Ending(w)) /\ Holds(x) /\ x # w =>
    (Cur(w) \in Steps => me[x].cursor <= me[w].cursor) /\ ~Engaged(x)

\* Why an execution fails whose preconditions hold.
FailReason ==
  \A w \in Workers : Ending(w) /\ skill.precondition =>
    /\ Cur(w) \in Steps
    /\ \/ Kind(Cur(w)) = "BAD_WHEN"
       \/ Kind(Cur(w)) = "BAD_ARGS" /\ Step(w).onError = "fail"
       \/ Kind(Cur(w)) = "CALL" /\ \E a \in Attempts : HasRow(ledger, Cur(w), a)

FailIsCold ==
  \A w, x \in Workers, s \in Steps, a \in Attempts :
    Ending(w) /\ Live /\ Cur(w) <= s /\ NonIdempotent(s) => ~Hot(x, s, a)

\* A definite outcome leaves nothing hot of a non-idempotent step that did not succeed.
OutcomeIsCold ==
  exec.status \in {"SUCCEEDED", "FAILED"} /\ Live =>
    \A s \in Steps : NonIdempotent(s) =>
      \/ \E a \in Attempts : ledger[s][a] = "SUCCEEDED"
      \/ \A a \in Attempts, w \in Workers : ~Hot(w, s, a)

Progress ==
  /\ Passed /\ BeyondIsOver /\ OverIsLeft /\ OneEngaged
  /\ FailReason /\ FailIsCold /\ OutcomeIsCold

PInv == Rows /\ Progress

=============================================================================
