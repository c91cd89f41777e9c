---------------------- MODULE SkillExecutionInvariant ----------------------
(***************************************************************************)
(* Why a non-idempotent tool acts at most once: the inductive invariant    *)
(* behind SkillExecution!NonIdempotentAtMostOnce, and the two conditions   *)
(* under which the code keeps it.                                          *)
(*                                                                         *)
(* The argument.  An attempt belongs to one worker at a time, the one that *)
(* inserted its row or resumed it while it was PENDING (OneOwner).  An     *)
(* attempt is `hot' while its request may still act or has acted.  A row   *)
(* that is NONE, PENDING or FAILED is not hot (Unsent, FailedIsCold), and  *)
(* a new attempt is inserted only when all the earlier ones are cold       *)
(* (RetriesAreCold, LastIsHot): so at most one attempt is ever hot.        *)
(***************************************************************************)
EXTENDS SkillExecution

\* One replica of the server runs the recovery loop (docs/v3.md says nothing of more).
OneRecoverer == \A r1, r2 \in Recoverers : r1 = r2

\* Non-idempotent tools are called through providers that report a timeout as Unknown.
ProvidersReport ==
  \A sk \in Skills, s \in Steps : sk.step[s].cap = "NONE" => sk.step[s].reports

\* The worker is at attempt `a' of step `s', and its lease is still good.
At(w, s, a) == Cur(w) = s /\ Att(w) = a
Fenced(w) == me[w].epoch = exec.epoch

\* Where a worker has an attempt of its own: before its call, and from then on.
Before(w) == pc[w] = "mark" \/ (pc[w] = "persist" /\ me[w].resuming)
Calling(w) == pc[w] \in {"invoke", "await", "saveOK", "saveFailed", "saveUnknown"}

\* The attempt belongs to the worker: it called the tool or is about to.
Owns(w, s, a) ==
  \/ request[s][a][w] # "none"
  \/ At(w, s, a) /\ (Calling(w) \/ (Before(w) /\ Fenced(w)))

\* The attempt's request by this worker acted, or may still act.
Hot(w, s, a) ==
  \/ request[s][a][w] \in {"sent", "applied"}
  \/ At(w, s, a) /\ (pc[w] = "invoke" \/ (Before(w) /\ Fenced(w)))

\* The worker relies on the row of its attempt.
Holding(w) == Before(w) \/ Calling(w) \/ pc[w] \in {"query", "applied"}

\* The worker is on its way to insert an attempt of step `s' later than `a'.
Inserting(w) == pc[w] \in {"start", "step", "advance"} \/ (pc[w] = "persist" /\ ~me[w].resuming)
Retrying(w, s, a) == Inserting(w) /\ Fenced(w) /\ Cur(w) = s /\ a < Att(w)

NonIdempotent(s) == skill.step[s].cap = "NONE"

-----------------------------------------------------------------------------
(* The parts of the invariant. *)

RecoverOnlyPC == RecoverPC \ {"idle"}
Unstarted == {"idle", "insert", "done", "claim", "get", "read", "sweep"}

\* Handlers run at epoch 1; the recovery loop, once it has claimed, at a later one, which
\* stays the epoch of the execution while it works.
Epochs ==
  /\ exec.status = "PENDING" => exec.epoch = 1
  /\ exec.status # "ABSENT" => exec.epoch >= 1
  /\ \A w \in Workers : pc[w] \in Unstarted => Att(w) = 1 /\ ~me[w].resuming
  /\ \A w \in Runners :
       me[w].epoch <= 1 /\ ~me[w].resuming /\ pc[w] \notin RecoverOnlyPC
  /\ \A r \in Recoverers :
       /\ pc[r] \notin {"insert", "done"}
       /\ pc[r] \notin {"idle", "claim"} => exec.epoch >= 2
       /\ pc[r] \notin {"idle", "claim", "get"} => Fenced(r)

\* Nobody is at work on an execution that does not exist.
NothingYet == exec.status = "ABSENT" => \A w \in Workers : pc[w] \in {"idle", "insert", "done"}

\* Nothing moves under the eyes of the recovery planner.
ViewIsCurrent == \A r \in Recoverers : pc[r] = "sweep" => view[r] = ledger

\* Attempts are numbered without gaps, in the ledger and by the workers.
NoGaps ==
  /\ \A s \in Steps, a, b \in Attempts : b < a /\ HasRow(ledger, s, a) => HasRow(ledger, s, b)
  /\ \A w \in Workers, s \in Steps, b \in Attempts :
       Cur(w) = s /\ b < Att(w) => HasRow(ledger, s, b)

\* Whoever has an attempt has its row.
OwnersHaveRows ==
  /\ \A w \in Workers : Holding(w) =>
       Cur(w) \in Steps /\ Att(w) \in Attempts /\ HasRow(ledger, Cur(w), Att(w))
  /\ \A s \in Steps, a \in Attempts, w \in Workers :
       request[s][a][w] # "none" => HasRow(ledger, s, a)

\* A PENDING attempt has not been called.
Unsent ==
  \A s \in Steps, a \in Attempts, w \in Workers : ledger[s][a] = "PENDING" =>
    request[s][a][w] = "none" /\ ~(At(w, s, a) /\ Calling(w))

\* An attempt has one owner.
OneOwner ==
  \A s \in Steps, a \in Attempts, w1, w2 \in Workers :
    Owns(w1, s, a) /\ Owns(w2, s, a) => w1 = w2

\* Shadow executions send nothing.
ShadowSendsNothing ==
  skill.mode = "SHADOW" =>
    \A s \in Steps, a \in Attempts, w \in Workers : request[s][a][w] = "none"

\* Only a tool that can be queried is.
QueriesAreAllowed ==
  \A w \in Workers : pc[w] = "query" => ~NonIdempotent(Cur(w)) /\ ~me[w].resuming

\* A definite failure is one: the request will not act.
FailureIsDefinite ==
  \A w \in Workers : pc[w] = "saveFailed" /\ NonIdempotent(Cur(w)) =>
    request[Cur(w)][Att(w)][w] \notin {"sent", "applied"}

FailedIsCold ==
  \A s \in Steps, a \in Attempts, w \in Workers :
    NonIdempotent(s) /\ ledger[s][a] = "FAILED" => ~Hot(w, s, a)

\* Only the last attempt of a step is hot.
LastIsHot ==
  \A s \in Steps, a, b \in Attempts, w \in Workers :
    NonIdempotent(s) /\ Hot(w, s, a) /\ a < b => ~HasRow(ledger, s, b)

\* A worker that will insert an attempt has only cold ones behind it.
RetriesAreCold ==
  \A s \in Steps, a \in Attempts, w, x \in Workers :
    NonIdempotent(s) /\ Retrying(x, s, a) => ~Hot(w, s, a)

\* Who is at work, with which lease.
Control ==
  /\ TypeOK /\ skill \in Skills
  /\ Epochs /\ NothingYet /\ ViewIsCurrent
  /\ ShadowSendsNothing /\ QueriesAreAllowed /\ FailureIsDefinite

\* Who has which attempt, and which may still act.
Ownership ==
  /\ NoGaps /\ OwnersHaveRows /\ Unsent /\ OneOwner
  /\ FailedIsCold /\ LastIsHot /\ RetriesAreCold

IInv == Control /\ Ownership

=============================================================================
