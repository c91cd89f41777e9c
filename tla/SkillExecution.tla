--------------------------- MODULE SkillExecution ---------------------------
(***************************************************************************)
(* One durable skill execution: the row of skill_executions, its ledger    *)
(* of step attempts, the HTTP handlers that run it (Runtime.Run), the      *)
(* recovery workers that take it over (RecoveryWorker, Runtime.Recover)    *)
(* and the remote tools they call.                                         *)
(*                                                                         *)
(* An action is one round trip to Postgres or to a tool, with the local    *)
(* code up to the next one.  A worker is a goroutine: `pc' is where it is, *)
(* `me' and `view' are its local copies of the rows, which may be stale.   *)
(* Every write of a running execution is fenced by the lease epoch.        *)
(***************************************************************************)
EXTENDS Naturals, FiniteSets

CONSTANTS
  Runners,      \* handlers of execute requests that carry the same idempotency key
  Recoverers,   \* recovery loops, one per replica of the server
  NSteps,       \* steps in the skill's spec
  Skills,       \* the specs an execution may be created with
  MaxAttempt,   \* bound: attempts the ledger has room for, per step
  MaxEpoch,     \* bound: lease epochs
  MaxFaults     \* bound: crashes, cancelled requests and lapsed leases of live workers

Workers == Runners \cup Recoverers
Steps == 1..NSteps
Attempts == 1..MaxAttempt

Capabilities == {"NONE", "NATIVE", "QUERY_RECONCILE"}

\* What control flow reads of a step.  `kind' is what its `when' and its argument
\* templates evaluate to; `tries' is retry.max_attempts (at least 1); `reports' says
\* whether the tool's provider reports an ambiguous transport error as Unknown.
StepSpec == [kind: {"CALL", "SKIP", "BAD_WHEN", "BAD_ARGS"}, cap: Capabilities, tries: Nat \ {0},
             onError: {"fail", "continue"}, reports: BOOLEAN]

SkillSpec == [step: [Steps -> StepSpec], limit: 0..NSteps, precondition: BOOLEAN,
              mode: {"LIVE", "SHADOW"}]

ASSUME BoundsAssumption ==
  NSteps \in Nat /\ MaxAttempt \in Nat \ {0} /\ MaxEpoch \in Nat /\ MaxFaults \in Nat
ASSUME WorkersAssumption == Runners \cap Recoverers = {}
ASSUME SkillsAssumption == Skills \subseteq SkillSpec

VARIABLES
  skill,    \* the spec_snapshot of the execution
  exec,     \* its row in skill_executions
  ledger,   \* skill_step_executions: step -> attempt -> status
  request,  \* what became of the request a worker sent: step -> attempt -> worker
  pc, me,   \* where each worker is, and its local copy of the execution
  view,     \* the steps a recovery worker has listed
  faults    \* faults so far

vars == <<skill, exec, ledger, request, pc, me, view, faults>>
store == <<exec, ledger>>
outside == <<skill, faults>>

Terminal == {"SUCCEEDED", "FAILED", "NEEDS_RECONCILIATION"}
ExecStatus == {"ABSENT", "PENDING", "RUNNING"} \cup Terminal
Exec == [status: ExecStatus, cursor: Nat, epoch: Nat,
         owner: {"", "server", "server-recovery"}, live: BOOLEAN]

RowStatus == {"NONE", "PENDING", "RUNNING", "SUCCEEDED", "FAILED", "SKIPPED", "SHADOWED",
              "UNKNOWN_OUTCOME"}
Request == {"none", "sent", "applied", "replayed", "refused", "lost"}
Ledger == [Steps -> [Attempts -> RowStatus]]

RunnerPC == {"idle", "insert", "done"}
RecoverPC == {"idle", "claim", "get", "read", "sweep", "query", "applied", "persist"}
RunPC == {"start", "step", "advance", "mark", "invoke", "await", "saveOK", "saveFailed",
          "saveUnknown", "fail", "manual"}
PCs == RunnerPC \cup RecoverPC \cup RunPC

Local == [epoch: Nat, cursor: Nat, attempt: Nat \ {0}, resuming: BOOLEAN]
NoLocal == [epoch |-> 0, cursor |-> 0, attempt |-> 1, resuming |-> FALSE]
NoRows == [s \in Steps |-> [a \in Attempts |-> "NONE"]]

Init ==
  /\ skill \in Skills
  /\ exec = [status |-> "ABSENT", cursor |-> 0, epoch |-> 0, owner |-> "", live |-> FALSE]
  /\ ledger = NoRows
  /\ request = [s \in Steps |-> [a \in Attempts |-> [w \in Workers |-> "none"]]]
  /\ pc = [w \in Workers |-> "idle"]
  /\ me = [w \in Workers |-> NoLocal]
  /\ view = [w \in Workers |-> NoRows]
  /\ faults = 0

-----------------------------------------------------------------------------
(* The worker's current step, and the fences of the store. *)

Cur(w) == me[w].cursor + 1
Att(w) == me[w].attempt
Step(w) == skill.step[Cur(w)]

\* Faulty: a fence that forgets the status.
FencedExecAnyStatus(w) == exec.epoch = me[w].epoch

\* UpdateExecutionFenced: the epoch matches and the row is PENDING or RUNNING.
FencedExec(w) == exec.epoch = me[w].epoch /\ exec.status \in {"PENDING", "RUNNING"}

\* CreateStepFenced, UpdateStepFenced, RenewLease: the epoch matches a RUNNING row.
FencedStep(w) == exec.epoch = me[w].epoch /\ exec.status = "RUNNING"

\* Faulty: a tool of unknown capability counts as idempotent.
MayResendByDefault(cap) == cap # "QUERY_RECONCILE"

\* A tool may be called again after an ambiguous outcome only if it deduplicates.
MayResend(cap) == cap = "NATIVE"

\* What the remote tool does with a key it has seen.
Deduplicates(cap) == cap = "NATIVE"

\* persistExecutionFenced writes the whole local copy and touches the lease, whoever
\* held it: the runtime's owner string is "server" in every replica.
Persist(w, status) ==
  /\ FencedExec(w)
  /\ exec' = [exec EXCEPT !.status = status, !.cursor = me[w].cursor,
                          !.owner = "server", !.live = TRUE]

\* A fenced write of the row of the current attempt.
WriteRow(w, status) ==
  /\ FencedStep(w)
  /\ ledger' = [ledger EXCEPT ![Cur(w)][Att(w)] = status]

Goto(w, p) == pc' = [pc EXCEPT ![w] = p]

\* The goroutine returns to its caller: a handler is done, a recovery loop sleeps.
Return(w) ==
  /\ Goto(w, IF w \in Runners THEN "done" ELSE "idle")
  /\ me' = [me EXCEPT ![w] = NoLocal]
  /\ view' = [view EXCEPT ![w] = NoRows]

\* Move on to the next step, at its first attempt.
NextStep(w, p) ==
  /\ Goto(w, p)
  /\ me' = [me EXCEPT ![w].cursor = @ + 1, ![w].attempt = 1, ![w].resuming = FALSE]

-----------------------------------------------------------------------------
(* Runtime.Run up to runSteps, for requests the policy allows. *)

Lookup(w) ==
  /\ w \in Runners /\ pc[w] = "idle"
  /\ IF exec.status = "ABSENT"
     THEN Goto(w, "insert") /\ UNCHANGED <<me, view>>
     ELSE Return(w)
  /\ UNCHANGED <<store, request, outside>>

\* createExecutionIdempotent: insert, or take the row that is already there; a row that
\* is still PENDING is run by whoever got it.
Insert(w) ==
  /\ pc[w] = "insert"
  /\ \/ /\ exec.status = "ABSENT"
        /\ exec' = [exec EXCEPT !.status = "PENDING", !.epoch = 1]
        /\ Goto(w, "start")
        /\ me' = [me EXCEPT ![w].epoch = 1]
        /\ UNCHANGED view
     \/ /\ exec.status = "PENDING"
        /\ Goto(w, "start")
        /\ me' = [me EXCEPT ![w].epoch = exec.epoch, ![w].cursor = exec.cursor]
        /\ UNCHANGED <<exec, view>>
     \/ /\ exec.status \notin {"ABSENT", "PENDING"}
        /\ Return(w)
        /\ UNCHANGED exec
  /\ UNCHANGED <<ledger, request, outside>>

-----------------------------------------------------------------------------
(* Runtime.runSteps.  Its loop head is pc = "step". *)

Start(w) ==
  /\ pc[w] = "start"
  /\ Persist(w, "RUNNING")
  /\ Goto(w, IF me[w].cursor = 0 /\ ~skill.precondition THEN "fail" ELSE "step")
  /\ UNCHANGED <<ledger, request, me, view, outside>>

\* Faulty: stops one step short of the budget.
SucceedEarly(w) ==
  /\ pc[w] = "step" /\ me[w].cursor + 1 >= skill.limit
  /\ Persist(w, "SUCCEEDED")
  /\ Return(w)
  /\ UNCHANGED <<ledger, request, outside>>

Succeed(w) ==
  /\ pc[w] = "step" /\ me[w].cursor >= skill.limit
  /\ Persist(w, "SUCCEEDED")
  /\ Return(w)
  /\ UNCHANGED <<ledger, request, outside>>

AtStep(w, kinds) == pc[w] = "step" /\ me[w].cursor < skill.limit /\ Step(w).kind \in kinds

\* A step whose `when' is false.  Its row has no operation key, so the unique index does
\* not apply to it; CreateStepFenced stores it as attempt 1.
Skip(w) ==
  /\ AtStep(w, {"SKIP"})
  /\ FencedStep(w)
  /\ ledger' = [ledger EXCEPT ![Cur(w)][1] = "SKIPPED"]
  /\ NextStep(w, "advance")
  /\ UNCHANGED <<exec, request, view, outside>>

\* A `when' that cannot be evaluated fails the execution and leaves no row.
BadWhen(w) ==
  /\ AtStep(w, {"BAD_WHEN"})
  /\ Goto(w, "fail")
  /\ UNCHANGED <<store, request, me, view, outside>>

BadArgs(w) ==
  /\ AtStep(w, {"BAD_ARGS"})
  /\ Att(w) \in Attempts /\ ledger[Cur(w)][Att(w)] = "NONE"
  /\ WriteRow(w, "FAILED")
  /\ IF Step(w).onError = "continue"
     THEN NextStep(w, "advance")
     ELSE Goto(w, "fail") /\ UNCHANGED me
  /\ UNCHANGED <<exec, request, view, outside>>

CreateAttempt(w) ==
  /\ AtStep(w, {"CALL"})
  /\ Att(w) \in Attempts /\ ledger[Cur(w)][Att(w)] = "NONE"
  /\ WriteRow(w, "PENDING")
  /\ Goto(w, "mark")
  /\ UNCHANGED <<exec, request, me, view, outside>>

\* The unique index on (operation_key, attempt) refuses a second row: the worker returns
\* the error and leaves the execution RUNNING.
DuplicateAttempt(w) ==
  /\ AtStep(w, {"CALL", "BAD_ARGS"})
  /\ FencedStep(w)
  /\ Att(w) \in Attempts /\ ledger[Cur(w)][Att(w)] # "NONE"
  /\ Return(w)
  /\ UNCHANGED <<store, request, outside>>

MarkRunning(w) ==
  /\ pc[w] = "mark"
  /\ WriteRow(w, "RUNNING")
  /\ Goto(w, "invoke")
  /\ UNCHANGED <<exec, request, me, view, outside>>

Live == skill.mode = "LIVE"

\* invokeTool: a SHADOW execution previews the call and sends nothing.  (Every CALL step
\* is taken to have a side effect; a read has nothing to protect.)
Invoke(w) ==
  /\ pc[w] = "invoke"
  /\ request' = IF skill.mode = "SHADOW" THEN request
                ELSE [request EXCEPT ![Cur(w)][Att(w)][w] = "sent"]
  /\ Goto(w, "await")
  /\ UNCHANGED <<store, me, view, outside>>

\* The heartbeat goroutine of invokeToolWithHeartbeat.
Heartbeat(w) ==
  /\ pc[w] = "await" /\ FencedStep(w)
  /\ exec' = [exec EXCEPT !.live = TRUE, !.owner = "server"]
  /\ UNCHANGED <<ledger, request, pc, me, view, outside>>

MyRequest(w) == request[Cur(w)][Att(w)][w]

AnswerOK(w) ==
  /\ pc[w] = "await"
  /\ skill.mode = "SHADOW" \/ MyRequest(w) \in {"applied", "replayed"}
  /\ Goto(w, "saveOK")
  /\ UNCHANGED <<store, request, me, view, outside>>

\* A definite failure.  The built-in HTTP and MCP providers also answer so after a
\* transport error, whatever became of the request (reports = FALSE).  With tries left
\* the loop goes round at once: the row of the failed attempt stays RUNNING.
AnswerFailed(w) ==
  /\ pc[w] = "await"
  /\ skill.mode = "SHADOW" \/ MyRequest(w) = "refused" \/ ~Step(w).reports
  /\ IF ~me[w].resuming /\ Att(w) < Step(w).tries
     THEN Goto(w, "step") /\ me' = [me EXCEPT ![w].attempt = @ + 1]
     ELSE Goto(w, "saveFailed") /\ UNCHANGED me
  /\ UNCHANGED <<store, request, view, outside>>

\* A timeout, reported as such by the provider.
AnswerUnknown(w) ==
  /\ pc[w] = "await" /\ Live /\ Step(w).reports
  /\ Goto(w, "saveUnknown")
  /\ UNCHANGED <<store, request, me, view, outside>>

SaveOK(w) ==
  /\ pc[w] = "saveOK"
  /\ WriteRow(w, IF skill.mode = "SHADOW" THEN "SHADOWED" ELSE "SUCCEEDED")
  /\ NextStep(w, IF me[w].resuming THEN "persist" ELSE "advance")
  /\ UNCHANGED <<exec, request, view, outside>>

\* resumePendingStep fails the execution whatever on_error says.
SaveFailed(w) ==
  /\ pc[w] = "saveFailed"
  /\ WriteRow(w, "FAILED")
  /\ IF ~me[w].resuming /\ Step(w).onError = "continue"
     THEN NextStep(w, "advance")
     ELSE Goto(w, "fail") /\ UNCHANGED me
  /\ UNCHANGED <<exec, request, view, outside>>

\* After an ambiguous outcome runSteps retries a NATIVE tool while tries are left, and
\* resumePendingStep retries it regardless.
SaveUnknown(w) ==
  /\ pc[w] = "saveUnknown"
  /\ WriteRow(w, "UNKNOWN_OUTCOME")
  /\ IF MayResend(Step(w).cap) /\ (me[w].resuming \/ Att(w) < Step(w).tries)
     THEN /\ Goto(w, IF me[w].resuming THEN "start" ELSE "step")
          /\ me' = [me EXCEPT ![w].attempt = @ + 1, ![w].resuming = FALSE]
     ELSE Goto(w, "manual") /\ UNCHANGED me
  /\ UNCHANGED <<exec, request, view, outside>>

\* The cursor moves past a settled step.
Advance(w) ==
  /\ pc[w] = "advance"
  /\ Persist(w, "RUNNING")
  /\ Goto(w, "step")
  /\ UNCHANGED <<ledger, request, me, view, outside>>

\* Faulty: an ambiguous outcome ends as a failure.
FinishAsFailed(w) ==
  /\ pc[w] \in {"fail", "manual"}
  /\ Persist(w, "FAILED")
  /\ Return(w)
  /\ UNCHANGED <<ledger, request, outside>>

\* failExecution and needsReconciliation.
Finish(w) ==
  /\ \/ pc[w] = "fail" /\ Persist(w, "FAILED")
     \/ pc[w] = "manual" /\ Persist(w, "NEEDS_RECONCILIATION")
  /\ Return(w)
  /\ UNCHANGED <<ledger, request, outside>>

-----------------------------------------------------------------------------
(* RecoveryWorker.RecoverOnce and Runtime.Recover. *)

\* ListStaleRunning.
List(r) ==
  /\ r \in Recoverers /\ pc[r] = "idle"
  /\ exec.status = "RUNNING" /\ ~exec.live
  /\ Goto(r, "claim")
  /\ UNCHANGED <<store, request, me, view, outside>>

\* Faulty: only the claimant's own leases.
ClaimableOwn == exec.status = "RUNNING" /\ exec.owner = "server-recovery"

\* The lease lapsed, or its owner string is the claimant's own: every replica recovers
\* under the name "server-recovery".
Claimable == exec.status = "RUNNING" /\ (~exec.live \/ exec.owner = "server-recovery")

Claim(r) ==
  /\ pc[r] = "claim"
  /\ IF Claimable
     THEN /\ exec.epoch < MaxEpoch
          /\ exec' = [exec EXCEPT !.epoch = @ + 1, !.owner = "server-recovery", !.live = TRUE]
          /\ Goto(r, "get")
          /\ UNCHANGED <<me, view>>
     ELSE Return(r) /\ UNCHANGED exec
  /\ UNCHANGED <<ledger, request, outside>>

\* Recover reads the row again: it takes the epoch it finds, not the one it was given.
Get(r) ==
  /\ pc[r] = "get"
  /\ IF exec.status \in {"PENDING", "RUNNING"}
     THEN /\ me' = [me EXCEPT ![r].epoch = exec.epoch, ![r].cursor = exec.cursor]
          /\ Goto(r, "read")
          /\ UNCHANGED view
     ELSE Return(r)
  /\ UNCHANGED <<store, request, outside>>

Read(r) ==
  /\ pc[r] = "read"
  /\ view' = [view EXCEPT ![r] = ledger]
  /\ Goto(r, "sweep")
  /\ UNCHANGED <<store, request, me, outside>>

SeenRunning(r) == {x \in Steps \X Attempts : view[r][x[1]][x[2]] = "RUNNING"}

\* Faulty: an interrupted attempt is recorded as failed.
MarkFailed(r) ==
  /\ pc[r] = "sweep"
  /\ FencedStep(r)
  /\ \E x \in SeenRunning(r) :
       /\ ledger' = [ledger EXCEPT ![x[1]][x[2]] = "FAILED"]
       /\ view' = [view EXCEPT ![r][x[1]][x[2]] = "FAILED"]
  /\ UNCHANGED <<exec, request, pc, me, outside>>

\* Faulty: the status of an execution is written into a row.
MarkNeedsReconciliation(r) ==
  /\ pc[r] = "sweep"
  /\ FencedStep(r)
  /\ \E x \in SeenRunning(r) :
       /\ ledger' = [ledger EXCEPT ![x[1]][x[2]] = "NEEDS_RECONCILIATION"]
       /\ view' = [view EXCEPT ![r][x[1]][x[2]] = "NEEDS_RECONCILIATION"]
  /\ UNCHANGED <<exec, request, pc, me, outside>>

\* Every attempt listed as RUNNING is ambiguous (in any order: no write depends on another).
MarkUnknown(r) ==
  /\ pc[r] = "sweep"
  /\ FencedStep(r)
  /\ \E x \in SeenRunning(r) :
       /\ ledger' = [ledger EXCEPT ![x[1]][x[2]] = "UNKNOWN_OUTCOME"]
       /\ view' = [view EXCEPT ![r][x[1]][x[2]] = "UNKNOWN_OUTCOME"]
  /\ UNCHANGED <<exec, request, pc, me, outside>>

\* latestAttemptForStep, for the step at the cursor; 0 if it has no row.
HasRow(rows, s, a) == rows[s][a] # "NONE"
IsLast(rows, s, a) ==
  \/ a = 0 /\ \A b \in Attempts : ~HasRow(rows, s, b)
  \/ a \in Attempts /\ HasRow(rows, s, a) /\ \A b \in Attempts : HasRow(rows, s, b) => b <= a

\* Faulty: an attempt that may still be resumed counts as done.
DoneOrPending == {"SUCCEEDED", "SHADOWED", "SKIPPED", "PENDING"}

\* The last attempt needs nothing more.
Done == {"SUCCEEDED", "SHADOWED", "SKIPPED"}

Planning(r) == pc[r] = "sweep" /\ SeenRunning(r) = {}

\* RecoveryPlanner.Plan when the step at the cursor has attempts, the last being `a'.
PlanFrom(r, a) ==
  LET status == view[r][Cur(r)][a] IN
  \/ /\ \/ status \in Done
        \/ status = "FAILED" /\ a >= Step(r).tries /\ Step(r).onError = "continue"
     /\ NextStep(r, "persist")
  \/ /\ status = "PENDING"
     /\ Goto(r, "persist")
     /\ me' = [me EXCEPT ![r].attempt = a, ![r].resuming = TRUE]
  \/ /\ \/ status = "FAILED" /\ a < Step(r).tries
        \/ status = "UNKNOWN_OUTCOME" /\ MayResend(Step(r).cap)
     /\ Goto(r, "persist")
     /\ me' = [me EXCEPT ![r].attempt = a + 1]
  \/ /\ status = "FAILED" /\ a >= Step(r).tries /\ Step(r).onError = "fail"
     /\ Goto(r, "fail") /\ UNCHANGED me
  \/ /\ status = "UNKNOWN_OUTCOME" /\ Step(r).cap = "QUERY_RECONCILE"
     /\ Goto(r, "query")
     /\ me' = [me EXCEPT ![r].attempt = a]
  \/ /\ status = "UNKNOWN_OUTCOME" /\ Step(r).cap = "NONE"
     /\ Goto(r, "manual") /\ UNCHANGED me

\* The planner counts the spec's steps, not the budget runSteps stops at.
Plan(r) ==
  /\ Planning(r)
  /\ \/ me[r].cursor >= NSteps /\ NextStep(r, "persist")
     \/ /\ me[r].cursor < NSteps /\ IsLast(view[r], Cur(r), 0)
        /\ Goto(r, "persist") /\ UNCHANGED me
     \/ /\ me[r].cursor < NSteps
        /\ \E a \in Attempts : IsLast(view[r], Cur(r), a) /\ PlanFrom(r, a)
  /\ UNCHANGED <<store, request, view, outside>>

\* persistExecutionFenced, then runSteps or resumePendingStep.
Resume(w) ==
  /\ pc[w] = "persist"
  /\ Persist(w, "RUNNING")
  /\ Goto(w, IF me[w].resuming THEN "mark" ELSE "start")
  /\ UNCHANGED <<ledger, request, me, view, outside>>

\* The provider is asked whether the operation was applied; it may not know.
Applied(s) == \E a \in Attempts, w \in Workers : request[s][a][w] \in {"applied", "replayed"}

Query(r) ==
  /\ pc[r] = "query"
  /\ \/ Applied(Cur(r)) /\ Goto(r, "applied") /\ UNCHANGED me
     \/ /\ ~Applied(Cur(r))
        /\ Goto(r, "persist")
        /\ me' = [me EXCEPT ![r].attempt = @ + 1]
     \/ Goto(r, "manual") /\ UNCHANGED me
  /\ UNCHANGED <<store, request, view, outside>>

RecordApplied(r) ==
  /\ pc[r] = "applied"
  /\ WriteRow(r, "SUCCEEDED")
  /\ NextStep(r, "persist")
  /\ UNCHANGED <<exec, request, view, outside>>

-----------------------------------------------------------------------------
(* A fenced write that matches no row: ErrStaleLease. *)

Refused(w) ==
  \/ pc[w] \in {"start", "advance", "persist", "fail", "manual"} /\ ~FencedExec(w)
  \/ pc[w] = "step" /\ me[w].cursor >= skill.limit /\ ~FencedExec(w)
  \/ AtStep(w, {"CALL", "SKIP", "BAD_ARGS"}) /\ ~FencedStep(w)
  \/ pc[w] \in {"mark", "saveOK", "saveFailed", "saveUnknown", "applied"} /\ ~FencedStep(w)
  \/ pc[w] = "sweep" /\ SeenRunning(w) # {} /\ ~FencedStep(w)

StaleLease(w) ==
  /\ Refused(w)
  /\ Return(w)
  /\ UNCHANGED <<store, request, outside>>

-----------------------------------------------------------------------------
(* The environment: tools, time and faults. *)

\* A request lands once or never, perhaps after its sender stopped waiting.  A NATIVE
\* tool deduplicates on the operation key, which is the same for all attempts.
ToolApplies(s, a, w) ==
  /\ request[s][a][w] = "sent"
  /\ request' = [request EXCEPT ![s][a][w] =
       IF Deduplicates(skill.step[s].cap) /\ Applied(s) THEN "replayed" ELSE "applied"]
  /\ UNCHANGED <<store, pc, me, view, outside>>

ToolRefuses(s, a, w) ==
  /\ request[s][a][w] = "sent"
  /\ request' = [request EXCEPT ![s][a][w] = "refused"]
  /\ UNCHANGED <<store, pc, me, view, outside>>

RequestLost(s, a, w) ==
  /\ request[s][a][w] = "sent"
  /\ request' = [request EXCEPT ![s][a][w] = "lost"]
  /\ UNCHANGED <<store, pc, me, view, outside>>

Working(w) == pc[w] \notin {"idle", "done"}
Held == \E w \in Workers : Working(w) /\ me[w].epoch = exec.epoch

\* Time passes the lease; if its holder is still at work, that is a fault.  Only the lease
\* of a RUNNING row is ever read.
LeaseExpires ==
  /\ exec.status = "RUNNING" /\ exec.live
  /\ Held => faults < MaxFaults
  /\ faults' = IF Held THEN faults + 1 ELSE faults
  /\ exec' = [exec EXCEPT !.live = FALSE]
  /\ UNCHANGED <<skill, ledger, request, pc, me, view>>

\* A crash, a cancelled or timed-out context, or a database error: the goroutine
\* returns and the rows stay as they are.
Abandon(w) ==
  /\ Working(w) /\ faults < MaxFaults
  /\ faults' = faults + 1
  /\ Return(w)
  /\ UNCHANGED <<skill, store, request>>

-----------------------------------------------------------------------------

RunStep(w) ==
  \/ Start(w) \/ Succeed(w) \/ Skip(w) \/ BadWhen(w) \/ BadArgs(w) \/ CreateAttempt(w)
  \/ DuplicateAttempt(w) \/ MarkRunning(w) \/ Invoke(w)
  \/ AnswerOK(w) \/ AnswerFailed(w) \/ AnswerUnknown(w)
  \/ SaveOK(w) \/ SaveFailed(w) \/ SaveUnknown(w) \/ Advance(w) \/ Finish(w)
  \/ StaleLease(w)

RecoverStep(r) ==
  \/ List(r) \/ Claim(r) \/ Get(r) \/ Read(r) \/ MarkUnknown(r) \/ Plan(r)
  \/ Resume(r) \/ Query(r) \/ RecordApplied(r)

WorkerStep(w) == Lookup(w) \/ Insert(w) \/ RunStep(w) \/ RecoverStep(w)

ToolStep(s, a, w) == ToolApplies(s, a, w) \/ ToolRefuses(s, a, w) \/ RequestLost(s, a, w)

Next ==
  \/ \E w \in Workers : WorkerStep(w) \/ Heartbeat(w) \/ Abandon(w)
  \/ \E s \in Steps, a \in Attempts, w \in Workers : ToolStep(s, a, w)
  \/ LeaseExpires

Spec == Init /\ [][Next]_vars

\* A worker that got hold of the execution goes on with it (its calls time out; a crash is
\* Abandon), recovery loops run for ever, and a lease lapses that nobody renews.  No client
\* has to send a request and no tool has to answer.
FairSpec ==
  /\ Spec
  /\ \A w \in Workers : WF_vars(RunStep(w) \/ RecoverStep(w))
  /\ WF_vars(LeaseExpires)

-----------------------------------------------------------------------------
(* What must hold. *)

TypeOK ==
  /\ skill \in SkillSpec
  /\ exec \in Exec
  /\ ledger \in Ledger
  /\ request \in [Steps -> [Attempts -> [Workers -> Request]]]
  /\ pc \in [Workers -> PCs]
  /\ me \in [Workers -> Local]
  /\ view \in [Workers -> Ledger]
  /\ faults \in 0..MaxFaults

Effects(s) == {x \in Attempts \X Workers : request[s][x[1]][x[2]] = "applied"}
Reached(s) == {x \in Attempts \X Workers : request[s][x[1]][x[2]] \in {"sent", "applied"}}

\* A step the execution need not come back to: some attempt of it succeeded, was previewed
\* or skipped, or failed where a failure does not matter.
Settled(s) ==
  \E a \in Attempts :
    \/ ledger[s][a] \in {"SUCCEEDED", "SHADOWED", "SKIPPED"}
    \/ ledger[s][a] = "FAILED" /\ skill.step[s].onError = "continue"

\* A tool that can neither deduplicate nor be queried acts at most once per step, however
\* often the execution is retried, abandoned, raced for and recovered.
NonIdempotentAtMostOnce ==
  \A s \in Steps : skill.step[s].cap = "NONE" =>
    \A x, y \in Effects(s) : x = y

\* The stored cursor, which recovery resumes from, never runs ahead of the ledger, and an
\* execution that succeeded has a settled row for every step of its budget.
CursorIsSettled ==
  /\ \A s \in Steps : s <= exec.cursor => Settled(s)
  /\ exec.status = "SUCCEEDED" => exec.cursor >= skill.limit

\* A row does not contradict the tool: a step recorded as done by a call was done by one,
\* and no request of an attempt recorded as failed has acted or still may.
LedgerIsTruthful ==
  \A s \in Steps, a \in Attempts :
    /\ ledger[s][a] = "SUCCEEDED" /\ Live => Applied(s)
    /\ ledger[s][a] = "FAILED" =>
         \A w \in Workers : request[s][a][w] \in {"none", "refused", "lost"}

\* An execution that ended for good hides no effect: whatever a non-idempotent tool did or
\* may still do is in the ledger as SUCCEEDED.  Otherwise it is NEEDS_RECONCILIATION.
NoHiddenEffect ==
  exec.status \in {"SUCCEEDED", "FAILED"} =>
    \A s \in Steps : skill.step[s].cap = "NONE" /\ Reached(s) # {} =>
      \E a \in Attempts : ledger[s][a] = "SUCCEEDED"

\* No write of a worker that lost its lease, or of a handler whose execution has ended,
\* reaches the store: a terminal execution and its ledger are frozen.
EndIsFinal == [][exec.status \in Terminal => UNCHANGED store]_vars

\* An execution that runs is brought to an end by the recovery loop, whatever its workers
\* and its tools do.
RunningEnds == (exec.status = "RUNNING") ~> (exec.status \in Terminal)

\* What a client sees of the execution; the tools' effects are counted by the requests
\* that acted.
Contract == INSTANCE SkillExecutionContract WITH
  plan <- [limit |-> skill.limit, guarded |-> {s \in Steps : skill.step[s].cap = "NONE"}],
  status <- exec.status,
  settled <- {s \in Steps : Settled(s)},
  effects <- [s \in Steps |-> Cardinality(Effects(s))]

\* Every behaviour of the runtime, its recovery loop and the tools is one the contract
\* allows (runtime.go Run, runSteps, Recover; docs/v3.md, V3.3 and V3.4).
KeepsContract == Contract!Spec

=============================================================================
