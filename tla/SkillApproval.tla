--------------------------- MODULE SkillApproval ---------------------------
(***************************************************************************)
(* The approval workflow around a durable execution: the policy that       *)
(* allows, denies or holds a request (DefaultPolicy.Decide, Runtime.Run),  *)
(* the people who approve or reject it (Approve, Reject) and the requests  *)
(* that take it up again (Runtime.Resume).  Once released, an execution is *)
(* run and recovered as SkillExecution says.                               *)
(*                                                                         *)
(* UpdateExecution, with which all of them write, is not fenced by the     *)
(* lease epoch: it is refused only while the execution is RUNNING.         *)
(***************************************************************************)
EXTENDS SkillExecution, Sequences

CONSTANTS
  Requesters,   \* execute requests with the same idempotency key and mode
  Resumers,     \* resume requests for the execution
  Approvers,    \* approve requests
  Rejecters,    \* reject requests
  Risks,        \* the risks a skill may be declared with
  AllowMedium   \* the server's allow_medium_risk_live

Levels == {"READ_ONLY", "LOW", "MEDIUM", "HIGH", "CRITICAL"}
Risk == [level: Levels, requiresApproval: BOOLEAN]

ASSUME HandlersAssumption == Runners = Requesters \cup Resumers \cup Approvers \cup Rejecters
ASSUME PolicyAssumption == Risks \subseteq Risk /\ AllowMedium \in BOOLEAN

VARIABLES
  risk,         \* the declared risk of the skill
  approvals,    \* skill_approval_requests of the execution, by creation time: their status
  case,         \* the approval an approve or reject request has read
  said          \* what callers were told: the verdicts that were answered with success

approvalVars == <<risk, approvals, case, said>>
allVars == <<vars, approvalVars>>

Ended == Terminal \cup {"DENIED", "CANCELLED"}
Verdicts == {"APPROVED", "REJECTED"}
ApprovalStatus == {"PENDING"} \cup Verdicts

ApprovalInit ==
  /\ Init
  /\ risk \in Risks
  /\ approvals = <<>>
  /\ case = [w \in Workers |-> 0]
  /\ said = {}

-----------------------------------------------------------------------------
(* DefaultPolicy.Decide. *)

\* Risks that are held for an approval when live.
NeedsApproval ==
  /\ Live
  /\ \/ risk.level = "HIGH"
     \/ risk.level \in {"READ_ONLY", "LOW"} /\ risk.requiresApproval

\* Risks no approval helps with.
Forbidden == risk.level = "CRITICAL" \/ (risk.level = "MEDIUM" /\ Live /\ ~AllowMedium)

\* `able': the runtime is enabled and the caller's agent has every tool of the spec.
Decide(able, approved) ==
  IF ~able \/ Forbidden THEN "DENY"
  ELSE IF NeedsApproval /\ ~approved THEN "REQUIRE_APPROVAL"
  ELSE "ALLOW"

-----------------------------------------------------------------------------
(* Runtime.Run up to runSteps. *)

\* UpdateExecution writes the local copy, unfenced.  The copies it is given were read from
\* rows that did not run, so they hold no lease.
Update(w, status) ==
  /\ exec.status # "RUNNING"
  /\ exec' = [exec EXCEPT !.status = status, !.cursor = me[w].cursor,
                          !.owner = "", !.live = FALSE]

Enter(w) ==
  /\ w \in Requesters
  /\ Lookup(w)
  /\ UNCHANGED approvalVars

\* The policy has decided before the insert; what it decided counts only for a request that
\* created the row or found it PENDING.
Admit(w) ==
  /\ pc[w] = "insert"
  /\ IF exec.status \in {"ABSENT", "PENDING"}
     THEN /\ exec' = IF exec.status = "ABSENT"
                     THEN [exec EXCEPT !.status = "PENDING", !.epoch = 1] ELSE exec
          /\ me' = [me EXCEPT ![w].epoch = exec'.epoch, ![w].cursor = exec'.cursor]
          /\ \E able \in BOOLEAN :
               \/ Decide(able, FALSE) = "DENY" /\ Goto(w, "deny")
               \/ Decide(able, FALSE) = "REQUIRE_APPROVAL" /\ Goto(w, "wait")
               \/ Decide(able, FALSE) = "ALLOW" /\ Goto(w, "start")
          /\ UNCHANGED view
     ELSE Return(w) /\ UNCHANGED exec
  /\ UNCHANGED <<ledger, request, outside, approvalVars>>

\* finishDenied, for Run and for Resume.
Deny(w) ==
  /\ pc[w] = "deny"
  /\ Update(w, "DENIED")
  /\ Return(w)
  /\ UNCHANGED <<ledger, request, outside, approvalVars>>

Wait(w) ==
  /\ pc[w] = "wait"
  /\ Update(w, "WAITING_APPROVAL")
  /\ Goto(w, "ask")
  /\ UNCHANGED <<ledger, request, me, view, outside, approvalVars>>

\* CreateApproval; its error is ignored.
Ask(w) ==
  /\ pc[w] = "ask"
  /\ approvals' = Append(approvals, "PENDING")
  /\ Return(w)
  /\ UNCHANGED <<store, request, outside, risk, case, said>>

-----------------------------------------------------------------------------
(* Runtime.Resume. *)

\* Faulty: any execution that is not running may be resumed.
ReadStopped(w) ==
  /\ w \in Resumers /\ pc[w] = "idle"
  /\ IF exec.status \notin {"ABSENT", "RUNNING"}
     THEN /\ me' = [me EXCEPT ![w].epoch = exec.epoch, ![w].cursor = exec.cursor]
          /\ Goto(w, "approval")
          /\ UNCHANGED view
     ELSE Return(w)
  /\ UNCHANGED <<store, request, outside, approvalVars>>

ReadWaiting(w) ==
  /\ w \in Resumers /\ pc[w] = "idle"
  /\ IF exec.status = "WAITING_APPROVAL"
     THEN /\ me' = [me EXCEPT ![w].epoch = exec.epoch, ![w].cursor = exec.cursor]
          /\ Goto(w, "approval")
          /\ UNCHANGED view
     ELSE Return(w)
  /\ UNCHANGED <<store, request, outside, approvalVars>>

\* GetApprovalByExecution takes the approval that was created last.
LatestApproved == approvals # <<>> /\ approvals[Len(approvals)] = "APPROVED"

\* Faulty: it is enough that nobody has rejected.
ReadApprovalLeniently(w) ==
  /\ pc[w] = "approval"
  /\ \/ /\ approvals # <<>> /\ approvals[Len(approvals)] # "REJECTED"
        /\ Goto(w, "release")
        /\ UNCHANGED <<me, view>>
     \/ /\ ~LatestApproved
        /\ Return(w)
  /\ UNCHANGED <<store, request, outside, approvalVars>>

ReadApproval(w) ==
  /\ pc[w] = "approval"
  /\ \/ /\ LatestApproved
        /\ \E able \in BOOLEAN :
             Goto(w, IF Decide(able, TRUE) = "DENY" THEN "deny" ELSE "release")
        /\ UNCHANGED <<me, view>>
     \/ /\ ~LatestApproved
        /\ Return(w)
  /\ UNCHANGED <<store, request, outside, approvalVars>>

Release(w) ==
  /\ pc[w] = "release"
  /\ Update(w, "PENDING")
  /\ Goto(w, "start")
  /\ UNCHANGED <<ledger, request, me, view, outside, approvalVars>>

-----------------------------------------------------------------------------
(* Runtime.Approve and Runtime.Reject.  That an approver must differ from the requester,  *)
(* where the server asks for it, is a comparison of names that no other request affects. *)

ReadPending(w) ==
  /\ w \in Approvers \cup Rejecters /\ pc[w] = "idle"
  /\ \E i \in DOMAIN approvals :
       IF approvals[i] = "PENDING"
       THEN /\ case' = [case EXCEPT ![w] = i]
            /\ Goto(w, IF w \in Approvers THEN "approve" ELSE "reject")
            /\ UNCHANGED <<me, view>>
       ELSE Return(w) /\ UNCHANGED case
  /\ UNCHANGED <<store, request, outside, risk, approvals, said>>

\* UpdateApproval is unconditional: the last verdict stands.
Approve(w) ==
  /\ pc[w] = "approve"
  /\ approvals' = [approvals EXCEPT ![case[w]] = "APPROVED"]
  /\ said' = said \cup {"APPROVED"}
  /\ Return(w)
  /\ UNCHANGED <<store, request, outside, risk, case>>

Reject(w) ==
  /\ pc[w] = "reject"
  /\ approvals' = [approvals EXCEPT ![case[w]] = "REJECTED"]
  /\ Goto(w, "rejected")
  /\ UNCHANGED <<store, request, me, view, outside, risk, case, said>>

\* Reject answers with success whatever becomes of the execution.
ReadRejected(w) ==
  /\ pc[w] = "rejected"
  /\ IF exec.status = "WAITING_APPROVAL"
     THEN /\ me' = [me EXCEPT ![w].epoch = exec.epoch, ![w].cursor = exec.cursor]
          /\ Goto(w, "cancel")
          /\ UNCHANGED <<view, said>>
     ELSE Return(w) /\ said' = said \cup {"REJECTED"}
  /\ UNCHANGED <<store, request, outside, risk, approvals, case>>

\* The error of UpdateExecution is ignored.
Cancel(w) ==
  /\ pc[w] = "cancel"
  /\ Update(w, "CANCELLED") \/ (exec.status = "RUNNING" /\ UNCHANGED exec)
  /\ said' = said \cup {"REJECTED"}
  /\ Return(w)
  /\ UNCHANGED <<ledger, request, outside, risk, approvals, case>>

\* UpdateExecution refuses to touch a RUNNING execution.
UpdateRefused(w) ==
  /\ pc[w] \in {"deny", "wait", "release"} /\ exec.status = "RUNNING"
  /\ Return(w)
  /\ UNCHANGED <<store, request, outside, approvalVars>>

-----------------------------------------------------------------------------

GateStep(w) ==
  \/ Enter(w) \/ Admit(w) \/ Deny(w) \/ Wait(w) \/ Ask(w)
  \/ ReadWaiting(w) \/ ReadApproval(w) \/ Release(w)
  \/ ReadPending(w) \/ Approve(w) \/ Reject(w) \/ ReadRejected(w) \/ Cancel(w)
  \/ UpdateRefused(w)

\* What SkillExecution has for a worker that is past the gate, for time and for faults.
RuntimeStep ==
  /\ \/ \E w \in Workers : RunStep(w) \/ RecoverStep(w) \/ Heartbeat(w) \/ Abandon(w)
     \/ \E s \in Steps, a \in Attempts, w \in Workers : ToolStep(s, a, w)
     \/ LeaseExpires
  /\ UNCHANGED approvalVars

ApprovalNext == (\E w \in Runners : GateStep(w)) \/ RuntimeStep

ApprovalSpec == ApprovalInit /\ [][ApprovalNext]_allVars

-----------------------------------------------------------------------------
(* What must hold. *)

Called == \E s \in Steps, a \in Attempts, w \in Workers : request[s][a][w] # "none"

\* No tool is ever called for a skill the policy forbids, and none for a skill that needs an
\* approval unless some person has approved it, whoever races with whom and whatever is
\* recovered later: neither recovery nor a second request with the key goes round the gate.
NothingRunsUnapproved ==
  Called => ~Forbidden /\ (NeedsApproval => "APPROVED" \in said)

\* The damage of an unfenced write is limited to requests that overlap: an execution that has
\* ended while nobody is at work on it never changes its status again, whatever requests
\* come later.
Quiet == \A w \in Workers : ~Working(w)
QuietEndIsFinal ==
  \A s \in Ended : []((exec.status = s /\ Quiet) => [](exec.status = s))

=============================================================================
