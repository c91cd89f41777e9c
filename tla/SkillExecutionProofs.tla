------------------------ MODULE SkillExecutionProofs ------------------------
(***************************************************************************)
(* Theorems of SkillExecution, for every number of handlers, recovery      *)
(* loops, steps, attempts, crashes and lapsed leases, and every skill:     *)
(* type correctness and the finality of an end without further             *)
(* assumptions; with one recovery loop and providers that report timeouts, *)
(* SkillExecutionInvariant!IInv and, from it, that a tool that can neither *)
(* deduplicate nor be queried acts at most once per step.                  *)
(*                                                                         *)
(* The rows can be believed, too: SkillProgressInvariant!PInv is inductive *)
(* relative to IInv.  What follows: the stored cursor never runs ahead of  *)
(* the ledger, a definite outcome hides no effect, rows do not contradict  *)
(* the tools, and the runtime, its recovery loop and the tools implement   *)
(* SkillExecutionContract.                                                 *)
(*                                                                         *)
(* Around it, SkillApproval: no tool is called for a skill that the policy *)
(* forbids or holds for an approval nobody gave, and an execution that has *)
(* ended while nobody was at work on it stays as it ended.                 *)
(*                                                                         *)
(* Part 1 is about types and fences, part 2 shows that every step keeps    *)
(* Ownership (who has which attempt, and which attempts may still act),    *)
(* part 3 that every step keeps Control, and draws the conclusion at most  *)
(* once; part 4 shows that every step keeps PInv, part 5 the refinement,   *)
(* part 6 what the approvals promise.                                      *)
(***************************************************************************)
EXTENDS SkillProgressInvariant, SkillApproval, FiniteSetTheorems, TLAPS

USE DEF store, outside, Live

-----------------------------------------------------------------------------
(***************************************************************************)
(* Part 1.  Types and fences.                                              *)
(***************************************************************************)

(* Type correctness. *)

LEMMA Constants == 1 \in Nat \ {0} /\ TRUE \in BOOLEAN /\ FALSE \in BOOLEAN
OBVIOUS

LEMMA ExecTypes ==
  ASSUME TypeOK
  PROVE  exec \in Exec /\ exec.epoch \in Nat /\ exec.cursor \in Nat /\ exec.epoch + 1 \in Nat
<1>1. exec \in Exec
  BY DEF TypeOK
<1>2. exec.epoch \in Nat /\ exec.cursor \in Nat
  BY <1>1 DEF Exec
<1> QED
  BY <1>1, <1>2

LEMMA LocalTypes ==
  ASSUME TypeOK, NEW w \in Workers
  PROVE  /\ me \in [Workers -> Local]
         /\ me[w].epoch \in Nat /\ me[w].resuming \in BOOLEAN
         /\ me[w].cursor \in Nat /\ me[w].cursor + 1 \in Nat
         /\ me[w].attempt \in Nat \ {0} /\ me[w].attempt + 1 \in Nat \ {0}
<1>1. me \in [Workers -> Local]
  BY DEF TypeOK
<1>2. /\ me[w].epoch \in Nat /\ me[w].resuming \in BOOLEAN
      /\ me[w].cursor \in Nat /\ me[w].attempt \in Nat \ {0}
  BY <1>1 DEF Local
<1>3. me[w].cursor + 1 \in Nat /\ me[w].attempt + 1 \in Nat \ {0}
  BY <1>2
<1> QED
  BY <1>1, <1>2, <1>3, Zenon

\* An update of a worker's copy keeps its type, sets what it names and nothing else.
LEMMA SetCursor ==
  ASSUME TypeOK, NEW w \in Workers, NEW e \in Nat, NEW c \in Nat,
         me' = [me EXCEPT ![w].epoch = e, ![w].cursor = c]
  PROVE  /\ me' \in [Workers -> Local]
         /\ me'[w].epoch = e /\ me'[w].cursor = c
         /\ me'[w].attempt = me[w].attempt /\ me'[w].resuming = me[w].resuming
         /\ \A x \in Workers \ {w} : me'[x] = me[x]
<1>1. me \in [Workers -> Local]
  BY DEF TypeOK
<1> QED
  BY <1>1 DEF Local

LEMMA SetAttempt ==
  ASSUME TypeOK, NEW w \in Workers, NEW a \in Nat \ {0}, NEW b \in BOOLEAN,
         \/ me' = [me EXCEPT ![w].attempt = a, ![w].resuming = b]
         \/ me' = [me EXCEPT ![w].attempt = a] /\ me[w].resuming = b
  PROVE  /\ me' \in [Workers -> Local]
         /\ me'[w].epoch = me[w].epoch /\ me'[w].cursor = me[w].cursor
         /\ me'[w].attempt = a /\ me'[w].resuming = b
         /\ \A x \in Workers \ {w} : me'[x] = me[x]
<1>1. me \in [Workers -> Local]
  BY DEF TypeOK
<1> QED
  BY <1>1 DEF Local

LEMMA SetStep ==
  ASSUME TypeOK, NEW w \in Workers, NEW c \in Nat, NEW a \in Nat \ {0}, NEW b \in BOOLEAN,
         me' = [me EXCEPT ![w].cursor = c, ![w].attempt = a, ![w].resuming = b]
  PROVE  /\ me' \in [Workers -> Local]
         /\ me'[w].epoch = me[w].epoch /\ me'[w].cursor = c
         /\ me'[w].attempt = a /\ me'[w].resuming = b
         /\ \A x \in Workers \ {w} : me'[x] = me[x]
<1>1. me \in [Workers -> Local]
  BY DEF TypeOK
<1> QED
  BY <1>1 DEF Local

LEMMA TypeInit == Init => TypeOK
<1> SUFFICES ASSUME Init PROVE TypeOK
  OBVIOUS
<1>1. skill \in SkillSpec
  BY SkillsAssumption DEF Init
<1>2. exec \in Exec
  BY DEF Init, Exec, ExecStatus
<1>3. NoRows \in Ledger
  BY DEF NoRows, Ledger, RowStatus
<1>4. NoLocal \in Local
  BY DEF NoLocal, Local
<1>5. faults = 0
  BY DEF Init
<1>6. faults \in 0..MaxFaults
  BY <1>5, BoundsAssumption
<1> QED
  BY <1>1, <1>2, <1>3, <1>4, <1>6 DEF Init, TypeOK, Request, PCs, RunnerPC

\* The places a worker moves to and the copies it keeps are typed.
LEMMA TypeReturn ==
  ASSUME TypeOK, NEW w \in Workers, Return(w)
  PROVE  pc' \in [Workers -> PCs] /\ me' \in [Workers -> Local] /\ view' \in [Workers -> Ledger]
<1>1. NoRows \in Ledger
  BY DEF NoRows, Ledger, RowStatus
<1>2. NoLocal \in Local
  BY DEF NoLocal, Local
<1> QED
  BY <1>1, <1>2 DEF TypeOK, Return, Goto, PCs, RunnerPC, RecoverPC

LEMMA NextStepEffect ==
  ASSUME TypeOK, NEW w \in Workers, NEW p, NextStep(w, p)
  PROVE  /\ me' \in [Workers -> Local]
         /\ me'[w].epoch = me[w].epoch /\ me'[w].cursor = me[w].cursor + 1
         /\ me'[w].attempt = 1 /\ me'[w].resuming = FALSE
         /\ \A x \in Workers \ {w} : me'[x] = me[x]
<1>1. me' = [me EXCEPT ![w].cursor = me[w].cursor + 1, ![w].attempt = 1, ![w].resuming = FALSE]
  BY Zenon DEF NextStep
<1>2. me[w].cursor + 1 \in Nat
  BY LocalTypes
<1> QED
  BY <1>1, <1>2, Constants, SetStep, Zenon

\* The next attempt of the same step.
Retry(w) ==
  \/ me' = [me EXCEPT ![w].attempt = me[w].attempt + 1] /\ ~me[w].resuming
  \/ me' = [me EXCEPT ![w].attempt = me[w].attempt + 1, ![w].resuming = FALSE]

LEMMA RetryEffect ==
  ASSUME TypeOK, NEW w \in Workers, Retry(w)
  PROVE  /\ me' \in [Workers -> Local]
         /\ me'[w].epoch = me[w].epoch /\ me'[w].cursor = me[w].cursor
         /\ me'[w].attempt = me[w].attempt + 1 /\ me'[w].resuming = FALSE
         /\ \A x \in Workers \ {w} : me'[x] = me[x]
<1>1. me[w].attempt + 1 \in Nat \ {0} /\ me[w].resuming \in BOOLEAN
  BY LocalTypes
<1>2. CASE me' = [me EXCEPT ![w].attempt = me[w].attempt + 1] /\ ~me[w].resuming
  <2>1. me[w].resuming = FALSE
    BY <1>1, <1>2
  <2> QED
    BY <1>1, <1>2, <2>1, Constants, SetAttempt, Zenon
<1>3. CASE me' = [me EXCEPT ![w].attempt = me[w].attempt + 1, ![w].resuming = FALSE]
  BY <1>1, <1>3, Constants, SetAttempt, Zenon
<1> QED
  BY <1>2, <1>3, Zenon DEF Retry

LEMMA TypeNextStep ==
  ASSUME TypeOK, NEW w \in Workers, NEW p \in PCs, NextStep(w, p)
  PROVE  pc' \in [Workers -> PCs] /\ me' \in [Workers -> Local]
<1>1. me' \in [Workers -> Local]
  BY NextStepEffect
<1> QED
  BY <1>1 DEF TypeOK, NextStep, Goto

LEMMA TypePersist ==
  ASSUME TypeOK, NEW w \in Workers, NEW st \in ExecStatus, Persist(w, st)
  PROVE  exec' \in Exec
BY DEF TypeOK, Persist, Exec, Local

LEMMA TypeWriteRow ==
  ASSUME TypeOK, NEW w \in Workers, NEW st \in RowStatus, WriteRow(w, st)
  PROVE  ledger' \in Ledger
BY DEF TypeOK, WriteRow, Ledger

LEMMA TypeRun ==
  ASSUME TypeOK, NEW w \in Workers, RunStep(w)
  PROVE  TypeOK'
<1> USE DEF Goto
<1>1. CASE Start(w)
  <2>1. exec' \in Exec
    BY <1>1, TypePersist DEF Start, ExecStatus
  <2> QED
    BY <1>1, <2>1 DEF Start, TypeOK, PCs, RunPC
<1>2. CASE Succeed(w)
  <2>1. exec' \in Exec
    BY <1>2, TypePersist DEF Succeed, ExecStatus, Terminal
  <2> QED
    BY <1>2, <2>1, TypeReturn DEF Succeed, TypeOK
<1>3. CASE Skip(w)
  <2>1. ledger' \in Ledger
    BY <1>3 DEF Skip, TypeOK, Ledger, RowStatus
  <2> QED
    BY <1>3, <2>1, TypeNextStep DEF Skip, TypeOK, PCs, RunPC
<1>4. CASE BadWhen(w)
  BY <1>4 DEF BadWhen, TypeOK, PCs, RunPC
<1>5. CASE BadArgs(w)
  <2>1. ledger' \in Ledger
    BY <1>5, TypeWriteRow DEF BadArgs, RowStatus
  <2>2. pc' \in [Workers -> PCs] /\ me' \in [Workers -> Local]
    BY <1>5, TypeNextStep DEF BadArgs, TypeOK, PCs, RunPC
  <2> QED
    BY <1>5, <2>1, <2>2 DEF BadArgs, TypeOK
<1>6. CASE CreateAttempt(w)
  <2>1. ledger' \in Ledger
    BY <1>6, TypeWriteRow DEF CreateAttempt, RowStatus
  <2> QED
    BY <1>6, <2>1 DEF CreateAttempt, TypeOK, PCs, RunPC
<1>7. CASE DuplicateAttempt(w)
  BY <1>7, TypeReturn DEF DuplicateAttempt, TypeOK
<1>8. CASE MarkRunning(w)
  <2>1. ledger' \in Ledger
    BY <1>8, TypeWriteRow DEF MarkRunning, RowStatus
  <2> QED
    BY <1>8, <2>1 DEF MarkRunning, TypeOK, PCs, RunPC
<1>9. CASE Invoke(w)
  <2>1. request' \in [Steps -> [Attempts -> [Workers -> Request]]]
    BY <1>9 DEF Invoke, TypeOK, Request
  <2> QED
    BY <1>9, <2>1 DEF Invoke, TypeOK, PCs, RunPC
<1>10. CASE AnswerOK(w) \/ AnswerUnknown(w)
  BY <1>10 DEF AnswerOK, AnswerUnknown, TypeOK, PCs, RunPC
<1>11. CASE AnswerFailed(w)
  <2>1. me' = me \/ Retry(w)
    BY <1>11, Zenon DEF AnswerFailed, Retry
  <2>2. me' \in [Workers -> Local]
    BY <2>1, RetryEffect DEF TypeOK
  <2> QED
    BY <1>11, <2>2 DEF AnswerFailed, TypeOK, PCs, RunPC
<1>12. CASE SaveOK(w)
  <2>1. ledger' \in Ledger
    BY <1>12, TypeWriteRow DEF SaveOK, RowStatus
  <2> QED
    BY <1>12, <2>1, TypeNextStep DEF SaveOK, TypeOK, PCs, RunPC, RecoverPC
<1>13. CASE SaveFailed(w)
  <2>1. ledger' \in Ledger
    BY <1>13, TypeWriteRow DEF SaveFailed, RowStatus
  <2>2. pc' \in [Workers -> PCs] /\ me' \in [Workers -> Local]
    BY <1>13, TypeNextStep DEF SaveFailed, TypeOK, PCs, RunPC
  <2> QED
    BY <1>13, <2>1, <2>2 DEF SaveFailed, TypeOK
<1>14. CASE SaveUnknown(w)
  <2>1. ledger' \in Ledger
    BY <1>14, TypeWriteRow DEF SaveUnknown, RowStatus
  <2>2. me' = me \/ Retry(w)
    BY <1>14, Zenon DEF SaveUnknown, Retry
  <2>3. me' \in [Workers -> Local]
    BY <2>2, RetryEffect DEF TypeOK
  <2> QED
    BY <1>14, <2>1, <2>3 DEF SaveUnknown, TypeOK, PCs, RunPC
<1>15. CASE Advance(w)
  <2>1. exec' \in Exec
    BY <1>15, TypePersist DEF Advance, ExecStatus
  <2> QED
    BY <1>15, <2>1 DEF Advance, TypeOK, PCs, RunPC
<1>16. CASE Finish(w)
  <2>1. exec' \in Exec
    BY <1>16, TypePersist DEF Finish, ExecStatus, Terminal
  <2> QED
    BY <1>16, <2>1, TypeReturn DEF Finish, TypeOK
<1>17. CASE StaleLease(w)
  BY <1>17, TypeReturn DEF StaleLease, TypeOK
<1> QED
  BY <1>1, <1>2, <1>3, <1>4, <1>5, <1>6, <1>7, <1>8, <1>9, <1>10, <1>11, <1>12, <1>13,
     <1>14, <1>15, <1>16, <1>17 DEF RunStep

LEMMA TypeRecover ==
  ASSUME TypeOK, NEW r \in Workers, RecoverStep(r)
  PROVE  TypeOK'
<1> USE DEF Goto
<1>1. CASE List(r)
  BY <1>1 DEF List, TypeOK, PCs, RecoverPC
<1>2. CASE Claim(r)
  <2>1. exec' \in Exec
    <3>1. ASSUME NEW n \in Nat
          PROVE  [exec EXCEPT !.epoch = n, !.owner = "server-recovery", !.live = TRUE] \in Exec
      BY ExecTypes DEF Exec
    <3> QED
      BY <1>2, <3>1, ExecTypes, Zenon DEF Claim
  <2>2. pc' \in [Workers -> PCs] /\ me' \in [Workers -> Local] /\ view' \in [Workers -> Ledger]
    BY <1>2, TypeReturn DEF Claim, TypeOK, PCs, RecoverPC
  <2> QED
    BY <1>2, <2>1, <2>2 DEF Claim, TypeOK
<1>3. CASE Get(r)
  <2>1. me' \in [Workers -> Local]
    BY <1>3, TypeReturn, ExecTypes, SetCursor DEF Get
  <2>2. pc' \in [Workers -> PCs] /\ view' \in [Workers -> Ledger]
    BY <1>3, TypeReturn DEF Get, TypeOK, PCs, RecoverPC
  <2> QED
    BY <1>3, <2>1, <2>2 DEF Get, TypeOK
<1>4. CASE Read(r)
  BY <1>4 DEF Read, TypeOK, PCs, RecoverPC
<1>5. CASE MarkUnknown(r)
  <2>1. PICK x \in SeenRunning(r) :
          /\ ledger' = [ledger EXCEPT ![x[1]][x[2]] = "UNKNOWN_OUTCOME"]
          /\ view' = [view EXCEPT ![r][x[1]][x[2]] = "UNKNOWN_OUTCOME"]
    BY <1>5 DEF MarkUnknown
  <2>2. ledger \in Ledger /\ view \in [Workers -> Ledger]
    BY DEF TypeOK
  <2>3. ASSUME NEW l \in Ledger
        PROVE  [l EXCEPT ![x[1]][x[2]] = "UNKNOWN_OUTCOME"] \in Ledger
    BY DEF Ledger, RowStatus
  <2>4. ledger' \in Ledger /\ view' \in [Workers -> Ledger]
    <3>1. [view[r] EXCEPT ![x[1]][x[2]] = "UNKNOWN_OUTCOME"] \in Ledger
      BY <2>2, <2>3
    <3>2. view' = [view EXCEPT ![r] = [view[r] EXCEPT ![x[1]][x[2]] = "UNKNOWN_OUTCOME"]]
      BY <2>1
    <3> QED
      BY <2>1, <2>2, <2>3, <3>1, <3>2
  <2> QED
    BY <1>5, <2>4 DEF MarkUnknown, TypeOK
<1>6. CASE Plan(r)
  <2>1. pc' \in [Workers -> PCs] /\ me' \in [Workers -> Local]
    <3>1. CASE NextStep(r, "persist")
      BY <3>1, TypeNextStep DEF PCs, RecoverPC
    <3>2. CASE Goto(r, "persist") /\ UNCHANGED me
      BY <3>2 DEF TypeOK, PCs, RecoverPC
    <3>3. ASSUME NEW a \in Attempts, PlanFrom(r, a)
          PROVE  pc' \in [Workers -> PCs] /\ me' \in [Workers -> Local]
      <4>1. a \in Nat \ {0} /\ a + 1 \in Nat \ {0}
        BY BoundsAssumption DEF Attempts
      <4>2. CASE NextStep(r, "persist")
        BY <4>2, TypeNextStep DEF PCs, RecoverPC
      <4>3. CASE \E p \in {"persist", "query", "fail", "manual"} : Goto(r, p)
        <5>1. pc' \in [Workers -> PCs]
          BY <4>3 DEF TypeOK, PCs, RunPC, RecoverPC
        <5>2. \/ NextStep(r, "persist")
              \/ me' = me
              \/ me' = [me EXCEPT ![r].attempt = a, ![r].resuming = TRUE]
              \/ me' = [me EXCEPT ![r].attempt = a]
              \/ me' = [me EXCEPT ![r].attempt = a + 1]
          BY <3>3, Zenon DEF PlanFrom
        <5>3. me[r].resuming \in BOOLEAN
          BY LocalTypes
        <5> QED
          BY <4>1, <4>2, <5>1, <5>2, <5>3, Constants, SetAttempt DEF TypeOK
      <4> QED
        BY <3>3, <4>2, <4>3, Zenon DEF PlanFrom
    <3> QED
      BY <1>6, <3>1, <3>2, <3>3 DEF Plan
  <2> QED
    BY <1>6, <2>1 DEF Plan, TypeOK
<1>7. CASE Resume(r)
  <2>1. exec' \in Exec
    BY <1>7, TypePersist DEF Resume, ExecStatus
  <2> QED
    BY <1>7, <2>1 DEF Resume, TypeOK, PCs, RunPC
<1>8. CASE Query(r)
  <2>1. me' \in [Workers -> Local]
    <3>1. me' = me \/ me' = [me EXCEPT ![r].attempt = me[r].attempt + 1]
      BY <1>8, Zenon DEF Query
    <3>2. me[r].attempt + 1 \in Nat \ {0} /\ me[r].resuming \in BOOLEAN
      BY LocalTypes
    <3> QED
      BY <3>1, <3>2, SetAttempt, Zenon DEF TypeOK
  <2> QED
    BY <1>8, <2>1 DEF Query, TypeOK, PCs, RecoverPC, RunPC
<1>9. CASE RecordApplied(r)
  <2>1. ledger' \in Ledger
    BY <1>9, TypeWriteRow DEF RecordApplied, RowStatus
  <2> QED
    BY <1>9, <2>1, TypeNextStep DEF RecordApplied, TypeOK, PCs, RecoverPC
<1> QED
  BY <1>1, <1>2, <1>3, <1>4, <1>5, <1>6, <1>7, <1>8, <1>9 DEF RecoverStep

LEMMA TypeStep == TypeOK /\ [Next]_vars => TypeOK'
<1> SUFFICES ASSUME TypeOK, [Next]_vars PROVE TypeOK'
  OBVIOUS
<1>1. ASSUME NEW w \in Workers, Lookup(w) PROVE TypeOK'
  BY <1>1, TypeReturn DEF Lookup, Goto, TypeOK, PCs, RunnerPC
<1>2. ASSUME NEW w \in Workers, Insert(w) PROVE TypeOK'
  <2>1. exec' \in Exec
    <3>1. exec' = exec \/ exec' = [exec EXCEPT !.status = "PENDING", !.epoch = 1]
      BY <1>2, Zenon DEF Insert
    <3>2. ASSUME NEW n \in Nat PROVE [exec EXCEPT !.status = "PENDING", !.epoch = n] \in Exec
      BY ExecTypes DEF Exec, ExecStatus
    <3> QED
      BY <3>1, <3>2, Constants, ExecTypes
  <2>2. me' \in [Workers -> Local]
    <3>1. \/ me' = [me EXCEPT ![w].epoch = 1]
          \/ me' = [me EXCEPT ![w].epoch = exec.epoch, ![w].cursor = exec.cursor]
          \/ Return(w)
      BY <1>2, Zenon DEF Insert
    <3>2. me' = [me EXCEPT ![w].epoch = 1] => me' \in [Workers -> Local]
      BY LocalTypes DEF Local
    <3> QED
      BY <3>1, <3>2, TypeReturn, ExecTypes, SetCursor
  <2>3. pc' \in [Workers -> PCs] /\ view' \in [Workers -> Ledger]
    BY <1>2, TypeReturn DEF Insert, Goto, TypeOK, PCs, RunPC
  <2> QED
    BY <1>2, <2>1, <2>2, <2>3 DEF Insert, TypeOK
<1>3. ASSUME NEW w \in Workers, Heartbeat(w) PROVE TypeOK'
  BY <1>3 DEF Heartbeat, TypeOK, Exec
<1>4. ASSUME NEW w \in Workers, Abandon(w) PROVE TypeOK'
  BY <1>4, TypeReturn, BoundsAssumption DEF Abandon, TypeOK
<1>5. ASSUME NEW s \in Steps, NEW a \in Attempts, NEW w \in Workers, ToolStep(s, a, w)
      PROVE  TypeOK'
  <2>1. request' \in [Steps -> [Attempts -> [Workers -> Request]]]
    <3>1. request \in [Steps -> [Attempts -> [Workers -> Request]]]
      BY DEF TypeOK
    <3>2. PICK q \in Request : request' = [request EXCEPT ![s][a][w] = q]
      BY <1>5 DEF ToolStep, ToolApplies, ToolRefuses, RequestLost, Request
    <3> QED
      BY <3>1, <3>2
  <2> QED
    BY <1>5, <2>1 DEF ToolStep, ToolApplies, ToolRefuses, RequestLost, TypeOK
<1>6. CASE LeaseExpires
  <2>1. exec' \in Exec
    BY <1>6, ExecTypes DEF LeaseExpires, Exec
  <2>2. faults' \in 0..MaxFaults
    BY <1>6, BoundsAssumption DEF LeaseExpires, TypeOK
  <2> QED
    BY <1>6, <2>1, <2>2 DEF LeaseExpires, TypeOK
<1>7. CASE UNCHANGED vars
  BY <1>7 DEF vars, TypeOK
<1> QED
  BY <1>1, <1>2, <1>3, <1>4, <1>5, <1>6, <1>7, TypeRun, TypeRecover DEF Next, WorkerStep

\* Every variable keeps its type: no handler, recovery loop or tool writes anything else.
THEOREM TypeCorrect == Spec => []TypeOK
<1> QED
  BY TypeInit, TypeStep, PTL DEF Spec

-----------------------------------------------------------------------------
(* The end is final.  Each write of the store is fenced by a status that is not terminal. *)

LEMMA FencesAreOpen ==
  ASSUME NEW w \in Workers, FencedExec(w) \/ FencedStep(w)
  PROVE  exec.status \notin Terminal
BY DEF FencedExec, FencedStep, Terminal

LEMMA WritesAreFenced ==
  ASSUME Next, exec.status \in Terminal
  PROVE  UNCHANGED store
<1>1. ASSUME NEW w \in Workers, RunStep(w) PROVE UNCHANGED store
  BY <1>1, FencesAreOpen
  DEF RunStep, Start, Succeed, Skip, BadWhen, BadArgs, CreateAttempt, DuplicateAttempt,
      MarkRunning, Invoke, AnswerOK, AnswerFailed, AnswerUnknown, SaveOK, SaveFailed,
      SaveUnknown, Advance, Finish, StaleLease, Persist, WriteRow
<1>2. ASSUME NEW w \in Workers, RecoverStep(w) PROVE UNCHANGED store
  BY <1>2, FencesAreOpen
  DEF RecoverStep, List, Claim, Claimable, Terminal, Get, Read, MarkUnknown, Plan, Resume,
      Query, RecordApplied, Persist, WriteRow
<1>3. ASSUME NEW w \in Workers, Lookup(w) \/ Insert(w) \/ Heartbeat(w) \/ Abandon(w)
      PROVE  UNCHANGED store
  BY <1>3, FencesAreOpen DEF Lookup, Insert, Terminal, Heartbeat, Abandon
<1>4. CASE LeaseExpires
  BY <1>4 DEF LeaseExpires, Terminal
<1>5. ASSUME NEW s \in Steps, NEW a \in Attempts, NEW w \in Workers, ToolStep(s, a, w)
      PROVE  UNCHANGED store
  BY <1>5 DEF ToolStep, ToolApplies, ToolRefuses, RequestLost
<1> QED
  BY <1>1, <1>2, <1>3, <1>4, <1>5 DEF Next, WorkerStep

\* A terminal execution and its ledger never change, however many handlers and recovery
\* loops still hold a copy of it, at whatever epoch (the fences of runtime.go and of
\* skill_execution_repository.go).
THEOREM EndFinal == Spec => EndIsFinal
<1>1. [Next]_vars => [exec.status \in Terminal => UNCHANGED store]_vars
  BY WritesAreFenced
<1> QED
  BY <1>1, PTL DEF Spec, EndIsFinal

-----------------------------------------------------------------------------
(***************************************************************************)
(* Part 2.  Every step keeps Ownership.                                    *)
(***************************************************************************)

(* The frame of every step: one worker moves, rows appear and change.  What must be said
   of that worker and of the rows for Ownership to survive.  *)

\* Nobody but `w' moves, and nobody but `w' gains a lease.
OthersStay(w) ==
  /\ skill' = skill
  /\ \A x \in Workers \ {w} :
       /\ pc'[x] = pc[x] /\ me'[x] = me[x]
       /\ \A s \in Steps, a \in Attempts : request'[s][a][x] = request[s][a][x]
       /\ Inserting(x) \/ Before(x) => (Fenced(x)' => Fenced(x))

RowsGrow ==
  /\ \A s \in Steps, a \in Attempts : HasRow(ledger, s, a) => HasRow(ledger', s, a)
  /\ \A s \in Steps, a \in Attempts : HasRow(ledger', s, a) /\ ~HasRow(ledger, s, a) =>
       \A b \in Attempts : b < a =>
         /\ HasRow(ledger, s, b)
         /\ NonIdempotent(s) => \A x \in Workers : ~Hot(x, s, b)
  /\ \A s \in Steps, a \in Attempts :
       ledger'[s][a] = "PENDING" => ledger[s][a] \in {"NONE", "PENDING"}
  /\ \A s \in Steps, a \in Attempts : NonIdempotent(s) /\ ledger'[s][a] = "FAILED" =>
       ledger[s][a] = "FAILED" \/ \A x \in Workers : ~Hot(x, s, a)'

Moves(w) ==
  /\ \A s \in Steps, a \in Attempts :
       Owns(w, s, a)' => Owns(w, s, a) \/ \A x \in Workers : ~Owns(x, s, a)
  /\ \A s \in Steps, a \in Attempts : NonIdempotent(s) /\ Hot(w, s, a)' =>
       \/ Hot(w, s, a)
       \/ /\ \A b \in Attempts : a < b => ~HasRow(ledger', s, b)
          /\ ledger'[s][a] # "FAILED"
          /\ \A x \in Workers : ~Retrying(x, s, a)'
  /\ \A s \in Steps, b \in Attempts : Cur(w)' = s /\ b < Att(w)' => HasRow(ledger', s, b)
  /\ Holding(w)' =>
       Cur(w)' \in Steps /\ Att(w)' \in Attempts /\ HasRow(ledger', Cur(w)', Att(w)')
  /\ \A s \in Steps, a \in Attempts : request'[s][a][w] # "none" =>
       request[s][a][w] # "none" \/ (At(w, s, a) /\ Calling(w))
  /\ \A s \in Steps, a \in Attempts : At(w, s, a)' /\ Calling(w)' =>
       (At(w, s, a) /\ Calling(w)) \/ ledger'[s][a] # "PENDING"
  /\ \A s \in Steps, a \in Attempts : NonIdempotent(s) /\ Retrying(w, s, a)' =>
       Retrying(w, s, a) \/ \A x \in Workers : ~Hot(x, s, a)'

LEMMA Others ==
  ASSUME NEW w, OthersStay(w), NEW x \in Workers \ {w}, NEW s \in Steps, NEW a \in Attempts
  PROVE  /\ Cur(x)' = Cur(x) /\ Att(x)' = Att(x)
         /\ Calling(x)' <=> Calling(x)
         /\ Holding(x)' <=> Holding(x)
         /\ Owns(x, s, a)' => Owns(x, s, a)
         /\ Hot(x, s, a)' => Hot(x, s, a)
         /\ Retrying(x, s, a)' => Retrying(x, s, a)
BY DEF OthersStay, Cur, Att, At, Calling, Before, Holding, Inserting, Owns, Hot, Retrying, Fenced

LEMMA OwnershipStep ==
  ASSUME Ownership, NEW w \in Workers, OthersStay(w), RowsGrow, Moves(w)
  PROVE  Ownership'
<1>1. NoGaps'
  <2>1. ASSUME NEW s \in Steps, NEW a \in Attempts, NEW b \in Attempts,
               b < a, HasRow(ledger', s, a)
        PROVE  HasRow(ledger', s, b)
    BY <2>1 DEF RowsGrow, Ownership, NoGaps
  <2>2. ASSUME NEW x \in Workers, NEW s \in Steps, NEW b \in Attempts,
               Cur(x)' = s, b < Att(x)'
        PROVE  HasRow(ledger', s, b)
    BY <2>2, Others DEF Moves, RowsGrow, Ownership, NoGaps
  <2> QED
    BY <2>1, <2>2 DEF NoGaps, HasRow
<1>2. OwnersHaveRows'
  <2>1. ASSUME NEW x \in Workers, Holding(x)'
        PROVE  Cur(x)' \in Steps /\ Att(x)' \in Attempts /\ HasRow(ledger', Cur(x)', Att(x)')
    <3>1. CASE x = w
      BY <2>1, <3>1 DEF Moves
    <3>2. CASE x # w
      <4>1. Holding(x) /\ Cur(x)' = Cur(x) /\ Att(x)' = Att(x)
        BY <2>1, <3>2 DEF OthersStay, Cur, Att, Holding, Before, Calling
      <4>2. Cur(x) \in Steps /\ Att(x) \in Attempts /\ HasRow(ledger, Cur(x), Att(x))
        BY <4>1 DEF Ownership, OwnersHaveRows
      <4> QED
        BY <4>1, <4>2 DEF RowsGrow
    <3> QED
      BY <3>1, <3>2
  <2>2. ASSUME NEW s \in Steps, NEW a \in Attempts, NEW x \in Workers,
               request'[s][a][x] # "none"
        PROVE  HasRow(ledger', s, a)
    <3>1. request[s][a][x] # "none" \/ (At(x, s, a) /\ Calling(x))
      BY <2>2 DEF Moves, OthersStay
    <3>2. HasRow(ledger, s, a)
      BY <3>1 DEF Ownership, OwnersHaveRows, Holding, At
    <3> QED
      BY <3>2 DEF RowsGrow
  <2> QED
    BY <2>1, <2>2 DEF OwnersHaveRows, HasRow
<1>3. Unsent'
  <2>1. ASSUME NEW s \in Steps, NEW a \in Attempts, NEW x \in Workers,
               ledger'[s][a] = "PENDING"
        PROVE  request'[s][a][x] = "none" /\ ~(At(x, s, a)' /\ Calling(x)')
    <3>1. request[s][a][x] = "none" /\ ~(At(x, s, a) /\ Calling(x))
      <4>1. CASE ledger[s][a] = "PENDING"
        BY <4>1 DEF Ownership, Unsent
      <4>2. CASE ledger[s][a] = "NONE"
        BY <4>2 DEF Ownership, OwnersHaveRows, Holding, At, HasRow
      <4> QED
        BY <2>1, <4>1, <4>2 DEF RowsGrow
    <3>2. CASE x = w
      BY <2>1, <3>1, <3>2 DEF Moves
    <3>3. CASE x # w
      BY <3>1, <3>3 DEF OthersStay, At, Cur, Att, Calling
    <3> QED
      BY <3>2, <3>3
  <2> QED
    BY <2>1 DEF Unsent
<1>4. OneOwner'
  <2>1. ASSUME NEW s \in Steps, NEW a \in Attempts, NEW x \in Workers, NEW y \in Workers,
               Owns(x, s, a)', Owns(y, s, a)'
        PROVE  x = y
    <3>1. CASE x = w /\ y = w
      BY <3>1
    <3>2. CASE x # w /\ y # w
      BY <2>1, <3>2, Others DEF Ownership, OneOwner
    <3>3. CASE x = w /\ y # w
      BY <2>1, <3>3, Others DEF Ownership, OneOwner, Moves
    <3>4. CASE x # w /\ y = w
      BY <2>1, <3>4, Others DEF Ownership, OneOwner, Moves
    <3> QED
      BY <3>1, <3>2, <3>3, <3>4
  <2> QED
    BY <2>1 DEF OneOwner
<1> DEFINE Fresh(x, s, a) ==
      /\ \A b \in Attempts : a < b => ~HasRow(ledger', s, b)
      /\ ledger'[s][a] # "FAILED"
      /\ \A y \in Workers : ~Retrying(y, s, a)'
<1>5. ASSUME NEW s \in Steps, NEW a \in Attempts, NEW x \in Workers,
             NonIdempotent(s), Hot(x, s, a)'
      PROVE  Hot(x, s, a) \/ Fresh(x, s, a)
  BY <1>5, Others DEF Moves
<1>6. \A s \in Steps : NonIdempotent(s)' <=> NonIdempotent(s)
  BY DEF OthersStay, NonIdempotent
<1> HIDE DEF Fresh
<1>7. FailedIsCold'
  <2>1. ASSUME NEW s \in Steps, NEW a \in Attempts, NEW x \in Workers,
               NonIdempotent(s), ledger'[s][a] = "FAILED", Hot(x, s, a)'
        PROVE  FALSE
    <3>1. ledger[s][a] = "FAILED"
      BY <2>1 DEF RowsGrow
    <3>2. ~Hot(x, s, a)
      BY <2>1, <3>1 DEF Ownership, FailedIsCold
    <3> QED
      BY <2>1, <3>2, <1>5 DEF Fresh
  <2> QED
    BY <2>1, <1>6 DEF FailedIsCold
<1>8. LastIsHot'
  <2>1. ASSUME NEW s \in Steps, NEW a \in Attempts, NEW b \in Attempts, NEW x \in Workers,
               NonIdempotent(s), Hot(x, s, a)', a < b, HasRow(ledger', s, b)
        PROVE  FALSE
    <3>1. Hot(x, s, a)
      BY <2>1, <1>5 DEF Fresh
    <3>2. ~HasRow(ledger, s, b)
      BY <2>1, <3>1 DEF Ownership, LastIsHot
    <3> QED
      BY <2>1, <3>1, <3>2 DEF RowsGrow
  <2> QED
    BY <2>1, <1>6 DEF LastIsHot, HasRow
<1>9. RetriesAreCold'
  <2>1. ASSUME NEW s \in Steps, NEW a \in Attempts, NEW x \in Workers, NEW y \in Workers,
               NonIdempotent(s), Retrying(y, s, a)', Hot(x, s, a)'
        PROVE  FALSE
    <3>1. Hot(x, s, a)
      BY <2>1, <1>5 DEF Fresh
    <3>2. Retrying(y, s, a)
      BY <2>1, Others DEF Moves
    <3> QED
      BY <2>1, <3>1, <3>2 DEF Ownership, RetriesAreCold
  <2> QED
    BY <2>1, <1>6 DEF RetriesAreCold
<1> QED
  BY <1>1, <1>2, <1>3, <1>4, <1>7, <1>8, <1>9 DEF Ownership

-----------------------------------------------------------------------------
(* How rows change. *)

LEMMA RowsStay ==
  ASSUME UNCHANGED ledger
  PROVE  RowsGrow
BY DEF RowsGrow, HasRow

LEMMA RowWritten ==
  ASSUME TypeOK, NEW s0 \in Steps, NEW a0 \in Attempts, HasRow(ledger, s0, a0),
         NEW st \in RowStatus \ {"NONE", "PENDING"},
         ledger' = [ledger EXCEPT ![s0][a0] = st],
         st = "FAILED" /\ NonIdempotent(s0) => \A x \in Workers : ~Hot(x, s0, a0)'
  PROVE  /\ RowsGrow
         /\ \A s \in Steps, a \in Attempts : HasRow(ledger', s, a) <=> HasRow(ledger, s, a)
         /\ \A s \in Steps, a \in Attempts : ledger'[s][a] = "FAILED" =>
              ledger[s][a] = "FAILED" \/ (st = "FAILED" /\ s = s0 /\ a = a0)
         /\ ledger'[s0][a0] # "PENDING"
<1>1. ledger \in [Steps -> [Attempts -> RowStatus]]
  BY DEF TypeOK, Ledger
<1>2. /\ ledger'[s0][a0] = st
      /\ \A s \in Steps, a \in Attempts : s # s0 \/ a # a0 => ledger'[s][a] = ledger[s][a]
  BY <1>1
<1> QED
  BY <1>2 DEF RowsGrow, HasRow

LEMMA RowCreated ==
  ASSUME TypeOK, NoGaps, NEW s0 \in Steps, NEW a0 \in Attempts, ~HasRow(ledger, s0, a0),
         NEW st \in RowStatus \ {"NONE"},
         ledger' = [ledger EXCEPT ![s0][a0] = st],
         \A b \in Attempts : b < a0 =>
           /\ HasRow(ledger, s0, b)
           /\ NonIdempotent(s0) => \A x \in Workers : ~Hot(x, s0, b),
         st = "FAILED" /\ NonIdempotent(s0) => \A x \in Workers : ~Hot(x, s0, a0)'
  PROVE  /\ RowsGrow
         /\ HasRow(ledger', s0, a0) /\ ledger'[s0][a0] = st
         /\ \A b \in Attempts : b # a0 => ledger'[s0][b] = ledger[s0][b]
<1>1. ledger \in [Steps -> [Attempts -> RowStatus]]
  BY DEF TypeOK, Ledger
<1>2. /\ ledger'[s0][a0] = st
      /\ \A s \in Steps, a \in Attempts : s # s0 \/ a # a0 => ledger'[s][a] = ledger[s][a]
  BY <1>1
<1> QED
  BY <1>2 DEF RowsGrow, HasRow

-----------------------------------------------------------------------------
(* The ways a worker moves. *)

\* It returns.
LEMMA OwnershipReturn ==
  ASSUME IInv, NEW w \in Workers, Return(w), UNCHANGED <<skill, ledger, request>>,
         exec.epoch' = exec.epoch
  PROVE  Ownership'
<1>1. /\ me'[w] = NoLocal /\ pc'[w] \in {"idle", "done"}
      /\ \A x \in Workers \ {w} : pc'[x] = pc[x] /\ me'[x] = me[x]
  BY DEF Return, Goto, IInv, Control, TypeOK
<1>2. Cur(w)' = 1 /\ Att(w)' = 1
  BY <1>1 DEF NoLocal, Cur, Att
<1>3. OthersStay(w)
  BY <1>1 DEF OthersStay, Fenced
<1>4. ~Holding(w)' /\ ~Calling(w)' /\ ~Inserting(w)' /\ ~Before(w)'
  BY <1>1 DEF Holding, Calling, Inserting, Before
<1>5. Moves(w)
  BY <1>2, <1>4 DEF Moves, Owns, Hot, Holding, Calling, Before, Retrying, Attempts
<1> QED
  BY <1>3, <1>5, RowsStay, OwnershipStep DEF IInv

\* It goes on with the same step and attempt, and has no more of it than it had.
LEMMA OwnershipGoto ==
  ASSUME IInv, NEW w \in Workers, UNCHANGED <<skill, request, me>>, RowsGrow,
         exec.epoch' = exec.epoch,
         NEW p, Goto(w, p),
         Holding(w)' => Holding(w),
         Calling(w)' => Calling(w),
         Before(w)' => Before(w),
         p = "invoke" => pc[w] = "invoke",
         Inserting(w)' => Inserting(w) \/ Att(w) = 1
  PROVE  Ownership'
<1>1. pc'[w] = p /\ \A x \in Workers \ {w} : pc'[x] = pc[x]
  BY DEF Goto, IInv, Control, TypeOK
<1>2. OthersStay(w)
  BY <1>1 DEF OthersStay, Fenced
<1>3. Cur(w)' = Cur(w) /\ Att(w)' = Att(w) /\ (Fenced(w)' <=> Fenced(w))
  BY DEF Cur, Att, Fenced
<1>4. Moves(w)
  BY <1>1, <1>3
  DEF Moves, RowsGrow, Owns, Hot, At, Retrying, IInv, Ownership, NoGaps, OwnersHaveRows, Attempts
<1> QED
  BY <1>2, <1>4, OwnershipStep DEF IInv

\* It moves past a step.
LEMMA OwnershipNext ==
  ASSUME IInv, NEW w \in Workers, UNCHANGED <<skill, request>>, RowsGrow,
         exec.epoch' = exec.epoch, NEW p \in {"persist", "advance"}, NextStep(w, p)
  PROVE  Ownership'
<1>1. pc'[w] = p /\ \A x \in Workers \ {w} : pc'[x] = pc[x]
  BY DEF NextStep, Goto, IInv, Control, TypeOK
<1>2. /\ me'[w].attempt = 1 /\ me'[w].resuming = FALSE
      /\ \A x \in Workers \ {w} : me'[x] = me[x]
  BY NextStepEffect DEF IInv, Control
<1>3. OthersStay(w)
  BY <1>1, <1>2 DEF OthersStay, Fenced
<1>4. Att(w)' = 1 /\ ~Before(w)' /\ ~Calling(w)' /\ ~Holding(w)'
  BY <1>1, <1>2 DEF Att, Before, Calling, Holding
<1>5. Moves(w)
  BY <1>4 DEF Moves, Owns, Hot, Holding, Calling, Before, Retrying, Attempts
<1> QED
  BY <1>3, <1>5, OwnershipStep DEF IInv

\* It is about to insert a later attempt; the earlier ones are cold.
LEMMA OwnershipRetry ==
  ASSUME IInv, NEW w \in Workers, UNCHANGED <<skill, request>>, RowsGrow,
         exec.epoch' = exec.epoch, NEW p \in {"persist", "start", "step"}, Goto(w, p),
         me'[w].cursor = me[w].cursor, ~me'[w].resuming,
         \A x \in Workers \ {w} : me'[x] = me[x],
         Cur(w) \in Steps => \A b \in Attempts : b < Att(w)' => HasRow(ledger', Cur(w), b),
         Cur(w) \in Steps /\ NonIdempotent(Cur(w)) =>
           \A b \in Attempts, x \in Workers : b < Att(w)' => ~Hot(x, Cur(w), b)
  PROVE  Ownership'
<1>1. pc'[w] = p /\ \A x \in Workers \ {w} : pc'[x] = pc[x]
  BY DEF Goto, IInv, Control, TypeOK
<1>2. OthersStay(w)
  BY <1>1 DEF OthersStay, Fenced
<1>3. Cur(w)' = Cur(w) /\ ~Before(w)' /\ ~Calling(w)' /\ ~Holding(w)'
  BY <1>1 DEF Cur, Before, Calling, Holding
<1>4. \A s \in Steps, a \in Attempts : Hot(w, s, a)' => Hot(w, s, a)
  BY <1>1, <1>3 DEF Hot
<1>5. \A s \in Steps, a \in Attempts, x \in Workers : Hot(x, s, a)' => Hot(x, s, a)
  BY <1>2, <1>4, Others
<1>6. \A s \in Steps, a \in Attempts : Owns(w, s, a)' => Owns(w, s, a)
  BY <1>3 DEF Owns
<1>7. \A s \in Steps, a \in Attempts : NonIdempotent(s) /\ Retrying(w, s, a)' =>
        \A x \in Workers : ~Hot(x, s, a)'
  BY <1>3, <1>5 DEF Retrying
<1>8. Moves(w)
  BY <1>3, <1>4, <1>6, <1>7 DEF Moves
<1> QED
  BY <1>2, <1>8, OwnershipStep DEF IInv

\* It takes a fresh copy of the execution.
LEMMA OwnershipFresh ==
  ASSUME IInv, NEW w \in Workers, UNCHANGED <<skill, ledger, request>>,
         NEW p \in {"start", "get", "read"}, Goto(w, p),
         me'[w].attempt = 1,
         \A x \in Workers \ {w} :
           me'[x] = me[x] /\ (Inserting(x) \/ Before(x) => (Fenced(x)' => Fenced(x)))
  PROVE  Ownership'
<1>1. pc'[w] = p /\ \A x \in Workers \ {w} : pc'[x] = pc[x]
  BY DEF Goto, IInv, Control, TypeOK
<1>2. OthersStay(w)
  BY <1>1 DEF OthersStay
<1>3. Att(w)' = 1 /\ ~Before(w)' /\ ~Calling(w)' /\ ~Holding(w)'
  BY <1>1 DEF Att, Before, Calling, Holding
<1>4. Moves(w)
  BY <1>3 DEF Moves, Owns, Hot, Holding, Calling, Before, Retrying, Attempts
<1> QED
  BY <1>2, <1>4, RowsStay, OwnershipStep DEF IInv

\* Nobody moves.
LEMMA OwnershipStill ==
  ASSUME IInv, UNCHANGED <<skill, ledger, request, pc, me>>, exec.epoch' = exec.epoch
  PROVE  Ownership'
<1>1. NoGaps' /\ OwnersHaveRows' /\ Unsent'
  BY DEF IInv, Ownership, NoGaps, OwnersHaveRows, Unsent, HasRow, Cur, Att, At, Holding,
         Before, Calling
<1>2. \A s \in Steps, a \in Attempts, w \in Workers :
        /\ Owns(w, s, a)' <=> Owns(w, s, a)
        /\ Hot(w, s, a)' <=> Hot(w, s, a)
        /\ Retrying(w, s, a)' <=> Retrying(w, s, a)
  BY DEF Owns, Hot, Retrying, Inserting, Before, Calling, Fenced, At, Cur, Att
<1>3. OneOwner' /\ FailedIsCold' /\ LastIsHot' /\ RetriesAreCold'
  BY <1>2 DEF IInv, Ownership, OneOwner, FailedIsCold, LastIsHot, RetriesAreCold,
              NonIdempotent, HasRow
<1> QED
  BY <1>1, <1>3 DEF Ownership

-----------------------------------------------------------------------------
(* The handlers and the runtime. *)

LEMMA CurrentStep ==
  ASSUME TypeOK, NEW w \in Workers, me[w].cursor < skill.limit
  PROVE  Cur(w) \in Steps
<1>1. me[w].cursor \in Nat
  BY LocalTypes
<1>2. skill.limit \in 0..NSteps
  BY DEF TypeOK, SkillSpec
<1> QED
  BY <1>1, <1>2, BoundsAssumption DEF Cur, Steps

LEMMA HotOwns ==
  ASSUME NEW w, NEW s, NEW a, Hot(w, s, a)
  PROVE  Owns(w, s, a)
BY DEF Hot, Owns, Calling

LEMMA NoOwner ==
  ASSUME IInv, NEW s \in Steps, NEW a \in Attempts, ~HasRow(ledger, s, a), NEW x \in Workers
  PROVE  ~Owns(x, s, a)
BY DEF IInv, Ownership, OwnersHaveRows, Owns, At, Holding

LEMMA ColdBehind ==
  ASSUME IInv, NEW w \in Workers, Inserting(w), Fenced(w), Cur(w) \in Steps,
         NEW b \in Attempts, b < Att(w)
  PROVE  /\ HasRow(ledger, Cur(w), b)
         /\ NonIdempotent(Cur(w)) => \A x \in Workers : ~Hot(x, Cur(w), b)
BY DEF IInv, Ownership, NoGaps, RetriesAreCold, Retrying

\* CreateAttempt, and the resumption of a PENDING attempt: the worker comes to own an
\* attempt that nobody owns, the last one of its step.
LEMMA OwnershipTake ==
  ASSUME IInv, NEW w \in Workers, NEW s0 \in Steps, NEW a0 \in Attempts,
         OthersStay(w), RowsGrow, UNCHANGED request,
         Cur(w)' = s0, Att(w)' = a0, Before(w)', pc'[w] \in {"mark", "persist"},
         ~Calling(w)', ~Inserting(w)',
         HasRow(ledger', s0, a0), ledger'[s0][a0] # "FAILED",
         \A b \in Attempts : b < a0 => HasRow(ledger', s0, b),
         \A b \in Attempts : a0 < b => ~HasRow(ledger', s0, b),
         \A x \in Workers : ~Owns(x, s0, a0),
         \A x \in Workers \ {w} : ~Retrying(x, s0, a0)
  PROVE  Ownership'
<1>1. \A x \in Workers : ~Retrying(x, s0, a0)'
  BY Others DEF Retrying
<1>2. \A s \in Steps, a \in Attempts : Owns(w, s, a)' => Owns(w, s, a) \/ (s = s0 /\ a = a0)
  BY DEF Owns, At
<1>3. \A s \in Steps, a \in Attempts : Hot(w, s, a)' => Hot(w, s, a) \/ (s = s0 /\ a = a0)
  BY DEF Hot, At, Before
<1>4. Moves(w)
  BY <1>1, <1>2, <1>3 DEF Moves, Retrying
<1> QED
  BY <1>4, OwnershipStep DEF IInv

LEMMA OwnershipCreate ==
  ASSUME IInv, NEW w \in Workers, CreateAttempt(w)
  PROVE  Ownership'
<1> DEFINE s0 == Cur(w)
           a0 == Att(w)
<1>1. s0 \in Steps /\ a0 \in Attempts /\ ~HasRow(ledger, s0, a0)
  BY CurrentStep DEF CreateAttempt, AtStep, HasRow, IInv, Control
<1>2. Inserting(w) /\ Fenced(w)
  BY DEF CreateAttempt, AtStep, WriteRow, FencedStep, Inserting, Fenced
<1>3. RowsGrow /\ ledger'[s0][a0] = "PENDING" /\ HasRow(ledger', s0, a0)
      /\ \A b \in Attempts : b # a0 => ledger'[s0][b] = ledger[s0][b]
  <2>1. ledger' = [ledger EXCEPT ![s0][a0] = "PENDING"]
    BY DEF CreateAttempt, WriteRow
  <2>2. \A b \in Attempts : b < a0 =>
          /\ HasRow(ledger, s0, b)
          /\ NonIdempotent(s0) => \A x \in Workers : ~Hot(x, s0, b)
    BY <1>1, <1>2, ColdBehind
  <2>3. TypeOK /\ NoGaps /\ "PENDING" \in RowStatus \ {"NONE"}
    BY DEF IInv, Control, Ownership, RowStatus
  <2> HIDE DEF s0, a0
  <2> QED
    BY <1>1, <2>1, <2>2, <2>3, RowCreated DEF HasRow
<1>4. /\ pc'[w] = "mark" /\ UNCHANGED <<me, skill, request>> /\ exec' = exec
      /\ \A x \in Workers \ {w} : pc'[x] = pc[x]
  BY DEF CreateAttempt, Goto, IInv, Control, TypeOK
<1>5. OthersStay(w)
  BY <1>4 DEF OthersStay, Fenced
<1>6. /\ Cur(w)' = s0 /\ Att(w)' = a0 /\ Before(w)' /\ ~Calling(w)' /\ ~Inserting(w)'
  BY <1>4 DEF Cur, Att, Before, Calling, Inserting
<1>7. \A b \in Attempts : b < a0 => HasRow(ledger', s0, b)
  BY <1>1, <1>2, <1>3, ColdBehind DEF HasRow
<1>8. \A b \in Attempts : a0 < b => ~HasRow(ledger', s0, b)
  <2>1. \A b \in Attempts : a0 < b => ~HasRow(ledger, s0, b)
    BY <1>1 DEF IInv, Ownership, NoGaps
  <2>2. \A b \in Attempts : a0 < b => b # a0
    BY <1>1 DEF Attempts
  <2> QED
    BY <1>3, <2>1, <2>2 DEF HasRow
<1>9. \A x \in Workers : ~Retrying(x, s0, a0)
  BY <1>1 DEF IInv, Ownership, NoGaps, Retrying
<1> QED
  BY <1>1, <1>3, <1>4, <1>5, <1>6, <1>7, <1>8, <1>9, NoOwner, OwnershipTake

LEMMA OwnershipMark ==
  ASSUME IInv, NEW w \in Workers, MarkRunning(w)
  PROVE  Ownership'
<1> DEFINE s0 == Cur(w)
           a0 == Att(w)
<1>1. Before(w) /\ Fenced(w)
  BY DEF MarkRunning, Before, WriteRow, FencedStep, Fenced
<1>2. s0 \in Steps /\ a0 \in Attempts /\ HasRow(ledger, s0, a0)
  BY <1>1 DEF IInv, Ownership, OwnersHaveRows, Holding
<1>3. RowsGrow /\ ledger'[s0][a0] # "PENDING"
      /\ \A s \in Steps, a \in Attempts : HasRow(ledger', s, a) <=> HasRow(ledger, s, a)
  <2>1. ledger' = [ledger EXCEPT ![s0][a0] = "RUNNING"]
    BY DEF MarkRunning, WriteRow
  <2>2. TypeOK /\ "RUNNING" \in RowStatus \ {"NONE", "PENDING"}
    BY DEF IInv, Control, RowStatus
  <2> HIDE DEF s0, a0
  <2> QED
    BY <1>2, <2>1, <2>2, RowWritten
<1>4. /\ pc'[w] = "invoke" /\ UNCHANGED <<me, skill, request>> /\ exec' = exec
      /\ \A x \in Workers \ {w} : pc'[x] = pc[x]
  BY DEF MarkRunning, Goto, IInv, Control, TypeOK
<1>5. OthersStay(w)
  BY <1>4 DEF OthersStay, Fenced
<1>6. Cur(w)' = s0 /\ Att(w)' = a0 /\ ~Inserting(w)'
  BY <1>4 DEF Cur, Att, Inserting
<1>7. \A s \in Steps, b \in Attempts : s = s0 /\ b < a0 => HasRow(ledger', s, b)
  BY <1>3 DEF IInv, Ownership, NoGaps
<1>8. Moves(w)
  BY <1>1, <1>2, <1>3, <1>4, <1>6, <1>7 DEF Moves, Owns, Hot, At, Calling, Before, Retrying
<1> QED
  BY <1>3, <1>5, <1>8, OwnershipStep DEF IInv

LEMMA OwnershipInvoke ==
  ASSUME IInv, NEW w \in Workers, Invoke(w)
  PROVE  Ownership'
<1> DEFINE s0 == Cur(w)
           a0 == Att(w)
<1>1. s0 \in Steps /\ a0 \in Attempts /\ HasRow(ledger, s0, a0)
  BY DEF Invoke, Calling, IInv, Ownership, OwnersHaveRows, Holding
<1>2. request \in [Steps -> [Attempts -> [Workers -> Request]]] /\ pc \in [Workers -> PCs]
  BY DEF IInv, Control, TypeOK
<1>3. /\ request'[s0][a0][w] \in {request[s0][a0][w], "sent"}
      /\ \A s \in Steps, a \in Attempts, x \in Workers :
           s # s0 \/ a # a0 \/ x # w => request'[s][a][x] = request[s][a][x]
  BY <1>1, <1>2 DEF Invoke
<1>4. /\ pc'[w] = "await" /\ UNCHANGED <<me, skill, ledger>> /\ exec' = exec
      /\ \A x \in Workers \ {w} : pc'[x] = pc[x]
  BY <1>2 DEF Invoke, Goto
<1>5. OthersStay(w)
  BY <1>3, <1>4 DEF OthersStay, Fenced
<1>6. Cur(w)' = s0 /\ Att(w)' = a0 /\ ~Inserting(w)' /\ pc[w] = "invoke" /\ ~Before(w)'
  BY <1>4 DEF Cur, Att, Inserting, Invoke, Before
<1>7. Moves(w)
  BY <1>1, <1>3, <1>4, <1>6
  DEF Moves, Owns, Hot, At, Calling, Holding, Retrying, IInv, Ownership, NoGaps, OwnersHaveRows
<1> QED
  BY <1>4, <1>5, <1>7, RowsStay, OwnershipStep DEF IInv

LEMMA PersistKeepsEpoch ==
  ASSUME TypeOK, NEW w, NEW st, Persist(w, st)
  PROVE  exec.epoch' = exec.epoch
BY DEF TypeOK, Exec, Persist

\* A write of the row of the worker's own attempt.
LEMMA OwnRow ==
  ASSUME IInv, NEW w \in Workers, Holding(w), NEW s0, NEW a0, s0 = Cur(w), a0 = Att(w),
         NEW st \in RowStatus \ {"NONE", "PENDING"}, WriteRow(w, st),
         st = "FAILED" /\ NonIdempotent(s0) => \A x \in Workers : ~Hot(x, s0, a0)'
  PROVE  /\ RowsGrow
         /\ \A s \in Steps, a \in Attempts : HasRow(ledger', s, a) <=> HasRow(ledger, s, a)
<1>1. s0 \in Steps /\ a0 \in Attempts /\ HasRow(ledger, s0, a0)
  BY DEF IInv, Ownership, OwnersHaveRows
<1>2. ledger' = [ledger EXCEPT ![s0][a0] = st]
  BY DEF WriteRow
<1>3. TypeOK
  BY DEF IInv, Control
<1> QED
  BY <1>1, <1>2, <1>3, RowWritten

\* A failure that is being recorded is cold, before and after.
LEMMA SavedFailureIsCold ==
  ASSUME IInv, NEW w \in Workers, pc[w] = "saveFailed", NonIdempotent(Cur(w)),
         NEW x \in Workers
  PROVE  ~Hot(x, Cur(w), Att(w))
<1>1. Calling(w) /\ ~Before(w)
  BY DEF Calling, Before
<1>2. Cur(w) \in Steps /\ Att(w) \in Attempts
  BY <1>1 DEF IInv, Ownership, OwnersHaveRows, Holding
<1>3. CASE x = w
  BY <1>1, <1>3 DEF IInv, Control, FailureIsDefinite, Hot
<1>4. CASE x # w
  <2>1. Owns(w, Cur(w), Att(w))
    BY <1>1 DEF Owns, At
  <2> QED
    BY <1>2, <1>4, <2>1, HotOwns DEF IInv, Ownership, OneOwner
<1> QED
  BY <1>3, <1>4

LEMMA OwnershipSkip ==
  ASSUME IInv, NEW w \in Workers, Skip(w)
  PROVE  Ownership'
<1> DEFINE s0 == Cur(w)
<1>1. s0 \in Steps /\ ledger' = [ledger EXCEPT ![s0][1] = "SKIPPED"]
  BY CurrentStep DEF Skip, AtStep, IInv, Control
<1>2. TypeOK /\ NoGaps /\ "SKIPPED" \in RowStatus \ {"NONE", "PENDING"}
  BY DEF IInv, Control, Ownership, RowStatus
<1> HIDE DEF s0
<1>3. RowsGrow
  <2>1. CASE 1 \notin Attempts
    BY <2>1, BoundsAssumption DEF Attempts, RowsGrow
  <2>2. CASE 1 \in Attempts /\ HasRow(ledger, s0, 1)
    BY <1>1, <1>2, <2>2, RowWritten
  <2>3. CASE 1 \in Attempts /\ ~HasRow(ledger, s0, 1)
    <3>1. \A b \in Attempts : ~(b < 1)
      BY DEF Attempts
    <3> QED
      BY <1>1, <1>2, <2>3, <3>1, RowCreated
  <2> QED
    BY <2>1, <2>2, <2>3
<1> QED
  BY <1>3, OwnershipNext DEF Skip

LEMMA OwnershipBadArgs ==
  ASSUME IInv, NEW w \in Workers, BadArgs(w),
         NEW s0, NEW a0, s0 = Cur(w), a0 = Att(w)
  PROVE  Ownership'
<1>1. s0 \in Steps /\ a0 \in Attempts /\ ~HasRow(ledger, s0, a0)
  BY CurrentStep DEF BadArgs, AtStep, HasRow, IInv, Control
<1>2. Inserting(w) /\ Fenced(w)
  BY DEF BadArgs, AtStep, WriteRow, FencedStep, Inserting, Fenced
<1>3. ledger' = [ledger EXCEPT ![s0][a0] = "FAILED"]
  BY DEF BadArgs, WriteRow
<1>4. \A b \in Attempts : b < a0 =>
        /\ HasRow(ledger, s0, b)
        /\ NonIdempotent(s0) => \A x \in Workers : ~Hot(x, s0, b)
  BY <1>1, <1>2, ColdBehind
<1>5. TypeOK /\ NoGaps /\ "FAILED" \in RowStatus \ {"NONE"}
  BY DEF IInv, Control, Ownership, RowStatus
<1>6. \/ NextStep(w, "advance")
      \/ Goto(w, "fail") /\ UNCHANGED me
  BY DEF BadArgs
<1>7. /\ pc'[w] \in {"advance", "fail"} /\ UNCHANGED <<skill, request>> /\ exec' = exec
      /\ \A x \in Workers \ {w} : pc'[x] = pc[x]
  BY <1>6 DEF BadArgs, NextStep, Goto, IInv, Control, TypeOK
<1>8. \A x \in Workers \ {w} : me'[x] = me[x]
  BY <1>5, <1>6, NextStepEffect
<1>9. OthersStay(w)
  BY <1>7, <1>8 DEF OthersStay, Fenced
<1>10. \A x \in Workers : ~Hot(x, s0, a0)'
  <2>1. \A x \in Workers : ~Owns(x, s0, a0) /\ ~Hot(x, s0, a0)
    BY <1>1, NoOwner, HotOwns
  <2>2. ~Hot(w, s0, a0)'
    BY <1>7, <2>1 DEF Hot, Owns, Before
  <2> QED
    BY <1>1, <1>9, <2>1, <2>2, Others
<1>11. RowsGrow
  BY <1>1, <1>3, <1>4, <1>5, <1>10, RowCreated
<1>12. CASE NextStep(w, "advance")
  BY <1>7, <1>11, <1>12, OwnershipNext
<1>13. CASE Goto(w, "fail") /\ UNCHANGED me
  <2>1. pc'[w] = "fail"
    BY <1>13 DEF Goto, IInv, Control, TypeOK
  <2> QED
    BY <1>7, <1>11, <1>13, <2>1, OwnershipGoto DEF Holding, Before, Calling, Inserting
<1> QED
  BY <1>6, <1>12, <1>13

LEMMA OwnershipSaveFailed ==
  ASSUME IInv, NEW w \in Workers, SaveFailed(w),
         NEW s0, NEW a0, s0 = Cur(w), a0 = Att(w)
  PROVE  Ownership'
<1>1. pc[w] = "saveFailed" /\ Calling(w) /\ Holding(w) /\ WriteRow(w, "FAILED")
  BY DEF SaveFailed, Calling, Holding
<1>2. s0 \in Steps /\ a0 \in Attempts /\ HasRow(ledger, s0, a0)
  BY <1>1 DEF IInv, Ownership, OwnersHaveRows
<1>3. ledger' = [ledger EXCEPT ![s0][a0] = "FAILED"]
  BY DEF SaveFailed, WriteRow
<1>4. TypeOK /\ "FAILED" \in RowStatus \ {"NONE", "PENDING"}
  BY DEF IInv, Control, RowStatus
<1>5. \/ NextStep(w, "advance")
      \/ Goto(w, "fail") /\ UNCHANGED me
  BY DEF SaveFailed
<1>6. /\ pc'[w] \in {"advance", "fail"} /\ UNCHANGED <<skill, request>> /\ exec' = exec
      /\ \A x \in Workers \ {w} : pc'[x] = pc[x]
  BY <1>5 DEF SaveFailed, NextStep, Goto, IInv, Control, TypeOK
<1>7. \A x \in Workers \ {w} : me'[x] = me[x]
  BY <1>4, <1>5, NextStepEffect
<1>8. OthersStay(w)
  BY <1>6, <1>7 DEF OthersStay, Fenced
<1>9. NonIdempotent(s0) => \A x \in Workers : ~Hot(x, s0, a0)'
  <2>1. NonIdempotent(s0) => \A x \in Workers : ~Hot(x, s0, a0)
    BY <1>1, SavedFailureIsCold
  <2>2. Hot(w, s0, a0)' => Hot(w, s0, a0)
    BY <1>6 DEF Hot, Before
  <2> QED
    BY <1>2, <1>8, <2>1, <2>2, Others
<1>10. RowsGrow
  BY <1>2, <1>3, <1>4, <1>9, RowWritten
<1>11. CASE NextStep(w, "advance")
  BY <1>6, <1>10, <1>11, OwnershipNext
<1>12. CASE Goto(w, "fail") /\ UNCHANGED me
  <2>1. pc'[w] = "fail"
    BY <1>12 DEF Goto, IInv, Control, TypeOK
  <2> QED
    BY <1>6, <1>10, <1>12, <2>1, OwnershipGoto DEF Holding, Before, Calling, Inserting
<1> QED
  BY <1>5, <1>11, <1>12

LEMMA OwnershipSaveOK ==
  ASSUME IInv, NEW w \in Workers, SaveOK(w)
  PROVE  Ownership'
<1>1. Holding(w)
  BY DEF SaveOK, Holding, Calling
<1>2. PICK st \in {"SHADOWED", "SUCCEEDED"} : WriteRow(w, st)
  BY DEF SaveOK
<1>3. st \in RowStatus \ {"NONE", "PENDING"} /\ st # "FAILED"
  BY DEF RowStatus
<1>4. RowsGrow
  BY <1>1, <1>2, <1>3, OwnRow
<1>5. PICK p \in {"persist", "advance"} : NextStep(w, p)
  BY DEF SaveOK
<1> QED
  BY <1>4, <1>5, OwnershipNext DEF SaveOK

\* All the rows up to the attempt of a worker that holds one are there.
LEMMA RowsUpTo ==
  ASSUME IInv, NEW w \in Workers, Holding(w), NEW b \in Attempts, b < Att(w) + 1
  PROVE  Cur(w) \in Steps /\ Att(w) \in Attempts /\ HasRow(ledger, Cur(w), b)
<1>1. Cur(w) \in Steps /\ Att(w) \in Attempts /\ HasRow(ledger, Cur(w), Att(w))
  BY DEF IInv, Ownership, OwnersHaveRows
<1>2. b = Att(w) \/ b < Att(w)
  BY <1>1 DEF Attempts
<1> QED
  BY <1>1, <1>2 DEF IInv, Ownership, NoGaps

LEMMA OwnershipSaveUnknown ==
  ASSUME IInv, NEW w \in Workers, SaveUnknown(w)
  PROVE  Ownership'
<1>1. Holding(w) /\ pc[w] = "saveUnknown"
  BY DEF SaveUnknown, Holding, Calling
<1>2. "UNKNOWN_OUTCOME" \in RowStatus \ {"NONE", "PENDING"}
  BY DEF RowStatus
<1>3. RowsGrow
  BY <1>1, <1>2, OwnRow DEF SaveUnknown
<1>4. CASE Goto(w, "manual") /\ UNCHANGED me
  <2>1. pc'[w] = "manual"
    BY <1>4 DEF Goto, IInv, Control, TypeOK
  <2> QED
    BY <1>3, <1>4, <2>1, OwnershipGoto DEF SaveUnknown, Holding, Before, Calling, Inserting
<1>5. ASSUME MayResend(Step(w).cap), NEW p \in {"start", "step"}, Goto(w, p), Retry(w)
      PROVE  Ownership'
  <2>1. /\ me'[w].cursor = me[w].cursor /\ ~me'[w].resuming
        /\ Att(w)' = Att(w) + 1
        /\ \A x \in Workers \ {w} : me'[x] = me[x]
    BY <1>5, RetryEffect DEF Att, IInv, Control
  <2>2. \A b \in Attempts : b < Att(w)' => HasRow(ledger', Cur(w), b)
    BY <1>1, <1>3, <2>1, RowsUpTo DEF RowsGrow
  <2>3. ~NonIdempotent(Cur(w))
    BY <1>5 DEF MayResend, NonIdempotent, Step
  <2> QED
    BY <1>3, <1>5, <2>1, <2>2, <2>3, OwnershipRetry DEF SaveUnknown
<1>6. \/ Goto(w, "manual") /\ UNCHANGED me
      \/ MayResend(Step(w).cap) /\ (Goto(w, "start") \/ Goto(w, "step")) /\ Retry(w)
  BY Zenon DEF SaveUnknown, Retry
<1> QED
  BY <1>4, <1>5, <1>6

\* A call that failed for good is cold, and so are all the attempts before it.
LEMMA FailedCallIsCold ==
  ASSUME IInv, ProvidersReport, NEW w \in Workers, AnswerFailed(w),
         NonIdempotent(Cur(w)), NEW b \in Attempts, b < Att(w) + 1, NEW x \in Workers
  PROVE  ~Hot(x, Cur(w), b)
<1>1. Holding(w) /\ Calling(w) /\ pc[w] = "await" /\ ~Before(w)
  BY DEF AnswerFailed, Holding, Calling, Before
<1>2. Cur(w) \in Steps /\ Att(w) \in Attempts /\ HasRow(ledger, Cur(w), Att(w))
  BY <1>1 DEF IInv, Ownership, OwnersHaveRows
<1>3. CASE b < Att(w)
  BY <1>2, <1>3 DEF IInv, Ownership, LastIsHot
<1>4. CASE b = Att(w) /\ x # w
  <2>1. Owns(w, Cur(w), Att(w))
    BY <1>1 DEF Owns, At
  <2> QED
    BY <1>2, <1>4, <2>1, HotOwns DEF IInv, Ownership, OneOwner
<1>5. CASE b = Att(w) /\ x = w
  <2>1. Step(w).reports
    BY <1>2 DEF ProvidersReport, Step, NonIdempotent, IInv, Control
  <2>2. request[Cur(w)][Att(w)][w] \notin {"sent", "applied"}
    BY <1>2, <2>1 DEF AnswerFailed, MyRequest, IInv, Control, ShadowSendsNothing
  <2> QED
    BY <1>1, <1>5, <2>2 DEF Hot
<1>6. b = Att(w) \/ b < Att(w)
  BY <1>2 DEF Attempts
<1> QED
  BY <1>3, <1>4, <1>5, <1>6

LEMMA OwnershipAnswerFailed ==
  ASSUME IInv, ProvidersReport, NEW w \in Workers, AnswerFailed(w)
  PROVE  Ownership'
<1>1. Holding(w) /\ Calling(w) /\ pc[w] = "await"
  BY DEF AnswerFailed, Holding, Calling
<1>2. CASE Goto(w, "saveFailed") /\ UNCHANGED me
  <2>1. pc'[w] = "saveFailed"
    BY <1>2 DEF Goto, IInv, Control, TypeOK
  <2> QED
    BY <1>1, <1>2, <2>1, RowsStay, OwnershipGoto
    DEF AnswerFailed, Holding, Before, Calling, Inserting
<1>3. CASE Goto(w, "step") /\ Retry(w)
  <2>1. /\ me'[w].cursor = me[w].cursor /\ ~me'[w].resuming
        /\ Att(w)' = Att(w) + 1
        /\ \A x \in Workers \ {w} : me'[x] = me[x]
    BY <1>3, RetryEffect DEF Att, IInv, Control
  <2>2. RowsGrow /\ UNCHANGED <<skill, request>> /\ exec' = exec /\ UNCHANGED ledger
    BY RowsStay DEF AnswerFailed
  <2>3. \A b \in Attempts : b < Att(w)' => HasRow(ledger', Cur(w), b)
    BY <1>1, <2>1, <2>2, RowsUpTo
  <2>4. NonIdempotent(Cur(w)) =>
          \A b \in Attempts, x \in Workers : b < Att(w)' => ~Hot(x, Cur(w), b)
    BY <2>1, FailedCallIsCold
  <2> QED
    BY <1>3, <2>1, <2>2, <2>3, <2>4, OwnershipRetry
<1>4. \/ Goto(w, "saveFailed") /\ UNCHANGED me
      \/ Goto(w, "step") /\ Retry(w)
  BY Zenon DEF AnswerFailed, Retry
<1> QED
  BY <1>2, <1>3, <1>4

LEMMA OwnershipRun ==
  ASSUME IInv, ProvidersReport, NEW w \in Workers, RunStep(w)
  PROVE  Ownership'
<1> USE DEF Goto
<1>1. CASE Start(w)
  <2>1. exec.epoch' = exec.epoch
    BY <1>1, PersistKeepsEpoch DEF Start, IInv, Control
  <2>2. PICK p \in {"fail", "step"} : Goto(w, p)
    BY <1>1 DEF Start
  <2>3. pc[w] = "start" /\ pc'[w] = p /\ UNCHANGED <<skill, ledger, request, me>>
    BY <1>1, <2>2 DEF Start, IInv, Control, TypeOK
  <2> QED
    BY <2>1, <2>2, <2>3, RowsStay, OwnershipGoto DEF Holding, Before, Calling, Inserting
<1>2. CASE Succeed(w) \/ Finish(w)
  <2>1. exec.epoch' = exec.epoch
    BY <1>2, PersistKeepsEpoch DEF Succeed, Finish, IInv, Control
  <2> QED
    BY <1>2, <2>1, OwnershipReturn DEF Succeed, Finish
<1>3. CASE Skip(w)
  BY <1>3, OwnershipSkip
<1>4. CASE BadWhen(w)
  <2>1. pc[w] = "step" /\ pc'[w] = "fail"
    BY <1>4 DEF BadWhen, AtStep, IInv, Control, TypeOK
  <2> QED
    BY <1>4, <2>1, RowsStay, OwnershipGoto DEF BadWhen, Holding, Before, Calling, Inserting
<1>5. CASE BadArgs(w)
  BY <1>5, OwnershipBadArgs
<1>6. CASE CreateAttempt(w)
  BY <1>6, OwnershipCreate
<1>7. CASE DuplicateAttempt(w) \/ StaleLease(w)
  BY <1>7, OwnershipReturn DEF DuplicateAttempt, StaleLease
<1>8. CASE MarkRunning(w)
  BY <1>8, OwnershipMark
<1>9. CASE Invoke(w)
  BY <1>9, OwnershipInvoke
<1>10. CASE AnswerOK(w) \/ AnswerUnknown(w)
  <2>1. PICK p \in {"saveOK", "saveUnknown"} : Goto(w, p)
    BY <1>10 DEF AnswerOK, AnswerUnknown
  <2>2. pc[w] = "await" /\ pc'[w] = p /\ UNCHANGED <<skill, ledger, request, me>> /\ exec' = exec
    BY <1>10, <2>1 DEF AnswerOK, AnswerUnknown, IInv, Control, TypeOK
  <2> QED
    BY <2>1, <2>2, RowsStay, OwnershipGoto DEF Holding, Before, Calling, Inserting
<1>11. CASE AnswerFailed(w)
  BY <1>11, OwnershipAnswerFailed
<1>12. CASE SaveOK(w)
  BY <1>12, OwnershipSaveOK
<1>13. CASE SaveFailed(w)
  BY <1>13, OwnershipSaveFailed
<1>14. CASE SaveUnknown(w)
  BY <1>14, OwnershipSaveUnknown
<1>15. CASE Advance(w)
  <2>1. exec.epoch' = exec.epoch
    BY <1>15, PersistKeepsEpoch DEF Advance, IInv, Control
  <2>2. pc[w] = "advance" /\ pc'[w] = "step"
    BY <1>15 DEF Advance, IInv, Control, TypeOK
  <2> QED
    BY <1>15, <2>1, <2>2, RowsStay, OwnershipGoto DEF Advance, Holding, Before, Calling, Inserting
<1> QED
  BY <1>1, <1>2, <1>3, <1>4, <1>5, <1>6, <1>7, <1>8, <1>9, <1>10, <1>11, <1>12, <1>13,
     <1>14, <1>15 DEF RunStep

-----------------------------------------------------------------------------
(* The recovery loop. *)

\* Once the recovery loop has a copy of the execution, nobody else holds the lease.
LEMMA AloneInRecovery ==
  ASSUME IInv, OneRecoverer, NEW r \in Recoverers, pc[r] \notin {"idle", "claim"},
         NEW x \in Workers \ {r}
  PROVE  ~Fenced(x)
<1>1. x \in Runners
  BY DEF OneRecoverer, Workers
<1>2. me[x].epoch \in Nat /\ me[x].epoch <= 1 /\ exec.epoch \in Nat /\ exec.epoch >= 2
  BY <1>1, LocalTypes, ExecTypes DEF IInv, Control, Epochs
<1> QED
  BY <1>2 DEF Fenced

LEMMA OwnershipClaim ==
  ASSUME IInv, OneRecoverer, NEW r \in Recoverers, Claim(r)
  PROVE  Ownership'
<1> r \in Workers
  BY DEF Workers
<1>1. CASE Return(r) /\ UNCHANGED exec
  BY <1>1, OwnershipReturn DEF Claim
<1>2. CASE /\ Claimable /\ exec' = [exec EXCEPT !.epoch = exec.epoch + 1,
                                        !.owner = "server-recovery", !.live = TRUE]
           /\ Goto(r, "get") /\ UNCHANGED <<me, view>>
  <2>1. exec.epoch' = exec.epoch + 1
    <3>1. ASSUME NEW n \in Nat,
                 exec' = [exec EXCEPT !.epoch = n, !.owner = "server-recovery", !.live = TRUE]
          PROVE  exec.epoch' = n
      BY <3>1, ExecTypes DEF Exec, IInv, Control
    <3>2. exec.epoch + 1 \in Nat
      BY ExecTypes DEF IInv, Control
    <3> QED
      BY <1>2, <3>1, <3>2, Zenon
  <2>2. exec.epoch \in Nat /\ exec.epoch >= 1
    BY <1>2, ExecTypes DEF Claimable, IInv, Control, Epochs
  <2>3. ASSUME NEW x \in Workers \ {r}
        PROVE  ~Fenced(x)'
    <3>1. x \in Runners
      BY DEF OneRecoverer, Workers
    <3>2. me[x].epoch \in Nat /\ me[x].epoch <= 1 /\ me' = me
      BY <1>2, <3>1, LocalTypes DEF IInv, Control, Epochs
    <3> QED
      BY <2>1, <2>2, <3>2 DEF Fenced
  <2>4. pc[r] = "claim" /\ UNCHANGED <<skill, ledger, request>>
    BY DEF Claim
  <2>5. me'[r].attempt = 1
    BY <1>2, <2>4 DEF IInv, Control, Epochs, Unstarted, Att
  <2> QED
    BY <1>2, <2>3, <2>4, <2>5, OwnershipFresh
<1> QED
  BY <1>1, <1>2, Zenon DEF Claim

LEMMA OwnershipGet ==
  ASSUME IInv, NEW r \in Recoverers, Get(r)
  PROVE  Ownership'
<1> r \in Workers
  BY DEF Workers
<1>1. CASE Return(r)
  BY <1>1, OwnershipReturn DEF Get
<1>2. CASE /\ Goto(r, "read")
           /\ me' = [me EXCEPT ![r].epoch = exec.epoch, ![r].cursor = exec.cursor]
  <2>1. me'[r].attempt = me[r].attempt /\ \A x \in Workers \ {r} : me'[x] = me[x]
    BY <1>2, ExecTypes, SetCursor DEF IInv, Control
  <2>2. me[r].attempt = 1
    BY DEF Get, IInv, Control, Epochs, Unstarted, Att
  <2> QED
    BY <1>2, <2>1, <2>2, OwnershipFresh DEF Get, Fenced
<1> QED
  BY <1>1, <1>2, Zenon DEF Get

LEMMA OwnershipMarkUnknown ==
  ASSUME IInv, NEW r \in Recoverers, MarkUnknown(r)
  PROVE  Ownership'
<1> r \in Workers
  BY DEF Workers
<1>1. PICK x \in SeenRunning(r) : ledger' = [ledger EXCEPT ![x[1]][x[2]] = "UNKNOWN_OUTCOME"]
  BY DEF MarkUnknown
<1>2. x[1] \in Steps /\ x[2] \in Attempts /\ HasRow(ledger, x[1], x[2])
  BY DEF SeenRunning, MarkUnknown, IInv, Control, ViewIsCurrent, HasRow
<1>3. TypeOK /\ "UNKNOWN_OUTCOME" \in RowStatus \ {"NONE", "PENDING"}
  BY DEF IInv, Control, RowStatus
<1>4. RowsGrow
  BY <1>1, <1>2, <1>3, RowWritten
<1>5. Goto(r, pc[r]) /\ pc[r] = "sweep" /\ pc' = pc
  BY DEF MarkUnknown, Goto, IInv, Control, TypeOK
<1> QED
  BY <1>4, <1>5, OwnershipGoto DEF MarkUnknown, Holding, Before, Calling, Inserting

\* What the planner finds is what the ledger holds; `a' is the last attempt of the step.
LEMMA PlannedAttempt ==
  ASSUME IInv, NEW r \in Recoverers, Planning(r), me[r].cursor < NSteps,
         NEW a \in Attempts, IsLast(view[r], Cur(r), a)
  PROVE  /\ Cur(r) \in Steps /\ view[r] = ledger /\ HasRow(ledger, Cur(r), a)
         /\ \A b \in Attempts : b < a => HasRow(ledger, Cur(r), b)
         /\ \A b \in Attempts : a < b => ~HasRow(ledger, Cur(r), b)
<1>1. view[r] = ledger /\ r \in Workers
  BY DEF Planning, IInv, Control, ViewIsCurrent, Workers
<1>2. Cur(r) \in Steps
  BY <1>1, LocalTypes, BoundsAssumption DEF Cur, Steps, IInv, Control
<1>3. HasRow(ledger, Cur(r), a) /\ \A b \in Attempts : HasRow(ledger, Cur(r), b) => b <= a
  BY <1>1 DEF IsLast, Attempts
<1>4. \A b \in Attempts : a < b => ~HasRow(ledger, Cur(r), b)
  BY <1>3 DEF Attempts
<1> QED
  BY <1>1, <1>2, <1>3, <1>4 DEF IInv, Ownership, NoGaps

\* A PENDING attempt belongs to nobody once its lease is the recovery loop's.
LEMMA OwnershipPlanPending ==
  ASSUME IInv, OneRecoverer, NEW r \in Recoverers, Planning(r), me[r].cursor < NSteps,
         NEW s0, s0 = Cur(r), NEW a \in Attempts, IsLast(view[r], s0, a),
         view[r][s0][a] = "PENDING", UNCHANGED <<exec, ledger, request, skill>>,
         Goto(r, "persist"), me' = [me EXCEPT ![r].attempt = a, ![r].resuming = TRUE]
  PROVE  Ownership'
<1>1. /\ s0 \in Steps /\ ledger[s0][a] = "PENDING" /\ HasRow(ledger, s0, a)
      /\ \A b \in Attempts : b < a => HasRow(ledger, s0, b)
      /\ \A b \in Attempts : a < b => ~HasRow(ledger, s0, b)
  BY PlannedAttempt
<1>2. r \in Workers /\ a \in Nat \ {0}
  BY BoundsAssumption DEF Workers, Attempts
<1>3. /\ me'[r].cursor = me[r].cursor /\ me'[r].attempt = a /\ me'[r].resuming = TRUE
      /\ \A x \in Workers \ {r} : me'[x] = me[x]
  BY <1>2, Constants, SetAttempt DEF IInv, Control
<1>4. pc'[r] = "persist" /\ \A x \in Workers \ {r} : pc'[x] = pc[x]
  BY <1>2 DEF Goto, IInv, Control, TypeOK
<1>5. OthersStay(r)
  BY <1>3, <1>4 DEF OthersStay, Fenced
<1>6. Cur(r)' = s0 /\ Att(r)' = a /\ Before(r)' /\ ~Calling(r)' /\ ~Inserting(r)'
  BY <1>3, <1>4 DEF Cur, Att, Before, Calling, Inserting
<1>7. pc[r] = "sweep" /\ \A x \in Workers \ {r} : ~Fenced(x)
  BY AloneInRecovery DEF Planning
<1>8. \A x \in Workers : ~Owns(x, s0, a)
  <2>1. \A x \in Workers : request[s0][a][x] = "none" /\ ~(At(x, s0, a) /\ Calling(x))
    BY <1>1 DEF IInv, Ownership, Unsent
  <2>2. ~Before(r)
    BY <1>7 DEF Before
  <2> QED
    BY <1>7, <2>1, <2>2 DEF Owns
<1>9. \A x \in Workers \ {r} : ~Retrying(x, s0, a)
  BY <1>7 DEF Retrying
<1> QED
  BY <1>1, <1>2, <1>4, <1>5, <1>6, <1>8, <1>9, RowsStay, OwnershipTake

\* A failed attempt is tried again, or an ambiguous one of a tool that deduplicates.
LEMMA OwnershipPlanRetry ==
  ASSUME IInv, NEW r \in Recoverers, Planning(r), me[r].cursor < NSteps,
         NEW a \in Attempts, IsLast(view[r], Cur(r), a),
         \/ view[r][Cur(r)][a] = "FAILED"
         \/ MayResend(Step(r).cap),
         UNCHANGED <<exec, ledger, request, skill>>,
         Goto(r, "persist"), me' = [me EXCEPT ![r].attempt = a + 1]
  PROVE  Ownership'
<1>1. /\ Cur(r) \in Steps /\ view[r] = ledger /\ HasRow(ledger, Cur(r), a)
      /\ \A b \in Attempts : b < a => HasRow(ledger, Cur(r), b)
  BY PlannedAttempt
<1>2. r \in Workers /\ a + 1 \in Nat \ {0} /\ \A b \in Attempts : b < a + 1 => b = a \/ b < a
  BY BoundsAssumption DEF Workers, Attempts
<1>3. me[r].resuming = FALSE
  BY <1>2, LocalTypes DEF Planning, IInv, Control, Epochs, Unstarted
<1>4. /\ me'[r].cursor = me[r].cursor /\ ~me'[r].resuming /\ Att(r)' = a + 1
      /\ \A x \in Workers \ {r} : me'[x] = me[x]
  BY <1>2, <1>3, Constants, SetAttempt DEF Att, IInv, Control
<1>5. \A b \in Attempts : b < Att(r)' => HasRow(ledger', Cur(r), b)
  BY <1>1, <1>2, <1>4
<1>6. NonIdempotent(Cur(r)) => \A b \in Attempts, x \in Workers : b < Att(r)' => ~Hot(x, Cur(r), b)
  <2>1. ASSUME NonIdempotent(Cur(r)), NEW x \in Workers PROVE ~Hot(x, Cur(r), a)
    BY <1>1, <2>1 DEF MayResend, Step, NonIdempotent, IInv, Ownership, FailedIsCold
  <2>2. ASSUME NonIdempotent(Cur(r)), NEW x \in Workers, NEW b \in Attempts, b < a
        PROVE  ~Hot(x, Cur(r), b)
    BY <1>1, <2>2 DEF IInv, Ownership, LastIsHot
  <2> QED
    BY <1>2, <1>4, <2>1, <2>2
<1> QED
  BY <1>2, <1>4, <1>5, <1>6, RowsStay, OwnershipRetry

LEMMA MoveAttempt ==
  ASSUME TypeOK, NEW w \in Workers, NEW a \in Nat \ {0}, me' = [me EXCEPT ![w].attempt = a]
  PROVE  /\ me'[w].cursor = me[w].cursor /\ me'[w].attempt = a
         /\ \A x \in Workers \ {w} : me'[x] = me[x]
<1>1. me \in [Workers -> Local]
  BY DEF TypeOK
<1> QED
  BY <1>1 DEF Local

LEMMA OwnershipPlanQuery ==
  ASSUME IInv, NEW r \in Recoverers, Planning(r), me[r].cursor < NSteps,
         NEW a \in Attempts, IsLast(view[r], Cur(r), a),
         UNCHANGED <<exec, ledger, request, skill>>,
         Goto(r, "query"), me' = [me EXCEPT ![r].attempt = a]
  PROVE  Ownership'
<1>1. /\ Cur(r) \in Steps /\ view[r] = ledger /\ HasRow(ledger, Cur(r), a)
      /\ \A b \in Attempts : b < a => HasRow(ledger, Cur(r), b)
  BY PlannedAttempt
<1>2. r \in Workers /\ a \in Nat \ {0}
  BY BoundsAssumption DEF Workers, Attempts
<1>3. /\ me'[r].cursor = me[r].cursor /\ Att(r)' = a
      /\ \A x \in Workers \ {r} : me'[x] = me[x]
  <2>1. TypeOK
    BY DEF IInv, Control
  <2>2. /\ me'[r].cursor = me[r].cursor /\ me'[r].attempt = a
        /\ \A x \in Workers \ {r} : me'[x] = me[x]
    BY <1>2, <2>1, MoveAttempt
  <2> QED
    BY <2>2 DEF Att
<1>4. pc'[r] = "query" /\ \A x \in Workers \ {r} : pc'[x] = pc[x]
  BY <1>2 DEF Goto, IInv, Control, TypeOK
<1>5. OthersStay(r)
  BY <1>3, <1>4 DEF OthersStay, Fenced
<1>6. Cur(r)' = Cur(r) /\ ~Before(r)' /\ ~Calling(r)' /\ ~Inserting(r)'
  BY <1>3, <1>4 DEF Cur, Before, Calling, Inserting
<1>7. \A s \in Steps, b \in Attempts : Cur(r)' = s /\ b < Att(r)' => HasRow(ledger', s, b)
  BY <1>1, <1>3, <1>6
<1>8. Moves(r)
  BY <1>1, <1>3, <1>4, <1>6, <1>7 DEF Moves, Owns, Hot, Retrying, Holding
<1> QED
  BY <1>2, <1>5, <1>8, RowsStay, OwnershipStep DEF IInv

LEMMA OwnershipPlan ==
  ASSUME IInv, OneRecoverer, NEW r \in Recoverers, Plan(r)
  PROVE  Ownership'
<1>1. r \in Workers /\ pc[r] = "sweep" /\ UNCHANGED <<exec, ledger, request, skill>>
  BY DEF Plan, Planning, Workers
<1>2. CASE NextStep(r, "persist")
  BY <1>1, <1>2, RowsStay, OwnershipNext
<1>3. ASSUME NEW p \in {"persist", "fail", "manual"}, Goto(r, p), UNCHANGED me
      PROVE  Ownership'
  <2>1. pc'[r] = p
    BY <1>1, <1>3 DEF Goto, IInv, Control, TypeOK
  <2>2. Att(r) = 1 /\ ~me[r].resuming
    BY <1>1 DEF IInv, Control, Epochs, Unstarted
  <2> QED
    BY <1>1, <1>3, <2>1, <2>2, RowsStay, OwnershipGoto DEF Holding, Before, Calling, Inserting
<1>4. ASSUME me[r].cursor < NSteps, NEW a \in Attempts, IsLast(view[r], Cur(r), a),
             PlanFrom(r, a)
      PROVE  Ownership'
  <2>1. \/ NextStep(r, "persist")
        \/ /\ view[r][Cur(r)][a] = "PENDING"
           /\ Goto(r, "persist") /\ me' = [me EXCEPT ![r].attempt = a, ![r].resuming = TRUE]
        \/ /\ view[r][Cur(r)][a] = "FAILED" \/ MayResend(Step(r).cap)
           /\ Goto(r, "persist") /\ me' = [me EXCEPT ![r].attempt = a + 1]
        \/ Goto(r, "query") /\ me' = [me EXCEPT ![r].attempt = a]
        \/ (Goto(r, "fail") \/ Goto(r, "manual")) /\ UNCHANGED me
    BY <1>4, Zenon DEF PlanFrom
  <2>2. Planning(r)
    BY DEF Plan
  <2>3. CASE /\ view[r][Cur(r)][a] = "PENDING"
             /\ Goto(r, "persist") /\ me' = [me EXCEPT ![r].attempt = a, ![r].resuming = TRUE]
    BY <1>1, <1>4, <2>2, <2>3, OwnershipPlanPending, Zenon
  <2>4. CASE /\ view[r][Cur(r)][a] = "FAILED" \/ MayResend(Step(r).cap)
             /\ Goto(r, "persist") /\ me' = [me EXCEPT ![r].attempt = a + 1]
    BY <1>1, <1>4, <2>2, <2>4, OwnershipPlanRetry, Zenon
  <2>5. CASE Goto(r, "query") /\ me' = [me EXCEPT ![r].attempt = a]
    BY <1>1, <1>4, <2>2, <2>5, OwnershipPlanQuery, Zenon
  <2>6. CASE (Goto(r, "fail") \/ Goto(r, "manual")) /\ UNCHANGED me
    BY <1>3, <2>6
  <2> QED
    BY <1>2, <2>1, <2>3, <2>4, <2>5, <2>6, Zenon
<1> QED
  BY <1>2, <1>3, <1>4 DEF Plan

LEMMA OwnershipQuery ==
  ASSUME IInv, NEW r \in Recoverers, Query(r)
  PROVE  Ownership'
<1>1. r \in Workers /\ pc[r] = "query" /\ UNCHANGED <<exec, ledger, request, skill>>
  BY DEF Query, Workers
<1>2. Holding(r) /\ ~NonIdempotent(Cur(r)) /\ me[r].resuming = FALSE
  BY <1>1, LocalTypes DEF Holding, IInv, Control, QueriesAreAllowed
<1>3. ASSUME NEW p \in {"applied", "manual"}, Goto(r, p), UNCHANGED me
      PROVE  Ownership'
  <2>1. pc'[r] = p
    BY <1>1, <1>3 DEF Goto, IInv, Control, TypeOK
  <2> QED
    BY <1>1, <1>2, <1>3, <2>1, RowsStay, OwnershipGoto DEF Before, Calling, Inserting
<1>4. CASE Goto(r, "persist") /\ Retry(r)
  <2>1. /\ me'[r].cursor = me[r].cursor /\ ~me'[r].resuming
        /\ Att(r)' = Att(r) + 1
        /\ \A x \in Workers \ {r} : me'[x] = me[x]
    BY <1>1, <1>4, RetryEffect DEF Att, IInv, Control
  <2>2. \A b \in Attempts : b < Att(r)' => HasRow(ledger', Cur(r), b)
    BY <1>1, <1>2, <2>1, RowsUpTo
  <2> QED
    BY <1>1, <1>2, <1>4, <2>1, <2>2, RowsStay, OwnershipRetry
<1>5. \/ Goto(r, "applied") /\ UNCHANGED me
      \/ Goto(r, "manual") /\ UNCHANGED me
      \/ Goto(r, "persist") /\ Retry(r)
  BY <1>2, Zenon DEF Query, Retry
<1> QED
  BY <1>3, <1>4, <1>5

LEMMA OwnershipRecover ==
  ASSUME IInv, OneRecoverer, NEW r \in Recoverers, RecoverStep(r)
  PROVE  Ownership'
<1> USE DEF Goto
<1> r \in Workers
  BY DEF Workers
<1>1. CASE List(r)
  <2>1. pc[r] = "idle" /\ pc'[r] = "claim"
    BY <1>1 DEF List, IInv, Control, TypeOK
  <2> QED
    BY <1>1, <2>1, RowsStay, OwnershipGoto DEF List, Holding, Before, Calling, Inserting
<1>2. CASE Claim(r)
  BY <1>2, OwnershipClaim
<1>3. CASE Get(r)
  BY <1>3, OwnershipGet
<1>4. CASE Read(r)
  <2>1. pc[r] = "read" /\ pc'[r] = "sweep"
    BY <1>4 DEF Read, IInv, Control, TypeOK
  <2> QED
    BY <1>4, <2>1, RowsStay, OwnershipGoto DEF Read, Holding, Before, Calling, Inserting
<1>5. CASE MarkUnknown(r)
  BY <1>5, OwnershipMarkUnknown
<1>6. CASE Plan(r)
  BY <1>6, OwnershipPlan
<1>7. CASE Resume(r)
  <2>1. exec.epoch' = exec.epoch
    BY <1>7, PersistKeepsEpoch DEF Resume, IInv, Control
  <2>2. PICK p \in {"mark", "start"} : Goto(r, p) /\ (p = "mark" <=> me[r].resuming)
    BY <1>7, LocalTypes DEF Resume, IInv, Control
  <2>3. pc[r] = "persist" /\ pc'[r] = p /\ UNCHANGED <<skill, ledger, request, me>>
    BY <1>7, <2>2 DEF Resume, IInv, Control, TypeOK
  <2> QED
    BY <2>1, <2>2, <2>3, RowsStay, OwnershipGoto DEF Holding, Before, Calling, Inserting
<1>8. CASE Query(r)
  BY <1>8, OwnershipQuery
<1>9. CASE RecordApplied(r)
  <2>1. Holding(r) /\ "SUCCEEDED" \in RowStatus \ {"NONE", "PENDING"}
    BY <1>9 DEF RecordApplied, Holding, RowStatus
  <2>2. RowsGrow
    BY <1>9, <2>1, OwnRow DEF RecordApplied
  <2> QED
    BY <1>9, <2>2, OwnershipNext DEF RecordApplied
<1> QED
  BY <1>1, <1>2, <1>3, <1>4, <1>5, <1>6, <1>7, <1>8, <1>9 DEF RecoverStep

-----------------------------------------------------------------------------
(* The handlers' entry, the tools, time and faults. *)

LEMMA OwnershipLookup ==
  ASSUME IInv, NEW w \in Workers, Lookup(w)
  PROVE  Ownership'
<1>1. CASE Return(w)
  BY <1>1, OwnershipReturn DEF Lookup
<1>2. CASE Goto(w, "insert") /\ UNCHANGED me
  <2>1. pc'[w] = "insert" /\ pc[w] = "idle"
    BY <1>2 DEF Lookup, Goto, IInv, Control, TypeOK
  <2> QED
    BY <1>2, <2>1, RowsStay, OwnershipGoto DEF Lookup, Holding, Before, Calling, Inserting
<1> QED
  BY <1>1, <1>2 DEF Lookup

LEMMA OwnershipInsert ==
  ASSUME IInv, NEW w \in Workers, Insert(w)
  PROVE  Ownership'
<1>1. pc[w] = "insert" /\ me[w].attempt = 1 /\ UNCHANGED <<skill, ledger, request>>
  BY DEF Insert, IInv, Control, Epochs, Unstarted, Att
<1>2. CASE Return(w) /\ UNCHANGED exec
  BY <1>1, <1>2, OwnershipReturn
<1>3. CASE /\ exec.status = "ABSENT" /\ Goto(w, "start")
           /\ me' = [me EXCEPT ![w].epoch = 1]
  <2>1. me'[w].attempt = 1 /\ \A x \in Workers \ {w} : me'[x] = me[x]
    BY <1>1, <1>3, LocalTypes DEF Local, IInv, Control
  <2>2. \A x \in Workers : ~Inserting(x) /\ ~Before(x)
    BY <1>3 DEF IInv, Control, NothingYet, Inserting, Before
  <2> QED
    BY <1>1, <1>3, <2>1, <2>2, OwnershipFresh
<1>4. CASE /\ UNCHANGED exec /\ Goto(w, "start")
           /\ me' = [me EXCEPT ![w].epoch = exec.epoch, ![w].cursor = exec.cursor]
  <2>1. me'[w].attempt = 1 /\ \A x \in Workers \ {w} : me'[x] = me[x]
    BY <1>1, <1>4, ExecTypes, SetCursor DEF IInv, Control
  <2> QED
    BY <1>1, <1>4, <2>1, OwnershipFresh DEF Fenced
<1> QED
  BY <1>2, <1>3, <1>4, Zenon DEF Insert

LEMMA OwnershipTool ==
  ASSUME IInv, NEW s0 \in Steps, NEW a0 \in Attempts, NEW w \in Workers, ToolStep(s0, a0, w)
  PROVE  Ownership'
<1>1. request \in [Steps -> [Attempts -> [Workers -> Request]]]
  BY DEF IInv, Control, TypeOK
<1>2. /\ request[s0][a0][w] = "sent" /\ UNCHANGED <<exec, ledger, pc, me, skill>>
      /\ \E q \in Request : request' = [request EXCEPT ![s0][a0][w] = q]
  BY DEF ToolStep, ToolApplies, ToolRefuses, RequestLost, Request
<1>3. /\ \A s \in Steps, a \in Attempts, x \in Workers :
           s # s0 \/ a # a0 \/ x # w => request'[s][a][x] = request[s][a][x]
  BY <1>1, <1>2
<1>4. OthersStay(w)
  BY <1>2, <1>3 DEF OthersStay, Fenced
<1>5. \A s \in Steps, a \in Attempts :
        /\ Owns(w, s, a)' => Owns(w, s, a)
        /\ Hot(w, s, a)' => Hot(w, s, a)
        /\ request'[s][a][w] # "none" => request[s][a][w] # "none"
  BY <1>2, <1>3 DEF Owns, Hot, At, Cur, Att, Calling, Before, Fenced
<1>6. /\ Cur(w)' = Cur(w) /\ Att(w)' = Att(w)
      /\ Calling(w)' <=> Calling(w)
      /\ Holding(w)' <=> Holding(w)
      /\ \A s \in Steps, a \in Attempts : Retrying(w, s, a)' <=> Retrying(w, s, a)
  BY <1>2 DEF Cur, Att, Calling, Holding, Before, Retrying, Inserting, Fenced
<1>7. Moves(w)
  BY <1>2, <1>5, <1>6 DEF Moves, At, IInv, Ownership, NoGaps, OwnersHaveRows
<1> QED
  BY <1>2, <1>4, <1>7, RowsStay, OwnershipStep DEF IInv

LEMMA OwnershipNextStep ==
  ASSUME IInv, OneRecoverer, ProvidersReport, [Next]_vars
  PROVE  Ownership'
<1>1. ASSUME NEW w \in Workers, WorkerStep(w)
      PROVE  Ownership'
  <2>1. CASE w \in Recoverers /\ RecoverStep(w)
    BY <2>1, OwnershipRecover
  <2>2. CASE w \notin Recoverers /\ RecoverStep(w)
    <3>1. w \in Runners
      BY <2>2 DEF Workers
    <3>2. pc[w] \notin {"claim", "get", "read", "sweep", "persist", "query", "applied"}
      BY <3>1 DEF IInv, Control, Epochs, RecoverOnlyPC, RecoverPC
    <3> QED
      BY <2>2, <3>2 DEF RecoverStep, List, Claim, Get, Read, MarkUnknown, Plan, Planning,
                        Resume, Query, RecordApplied
  <2> QED
    BY <1>1, <2>1, <2>2, OwnershipLookup, OwnershipInsert, OwnershipRun DEF WorkerStep
<1>2. ASSUME NEW w \in Workers, Heartbeat(w)
      PROVE  Ownership'
  <2>1. exec.epoch' = exec.epoch
    BY <1>2, ExecTypes DEF Heartbeat, Exec, IInv, Control
  <2> QED
    BY <1>2, <2>1, OwnershipStill DEF Heartbeat
<1>3. ASSUME NEW w \in Workers, Abandon(w)
      PROVE  Ownership'
  BY <1>3, OwnershipReturn DEF Abandon
<1>4. CASE LeaseExpires
  <2>1. exec.epoch' = exec.epoch
    BY <1>4, ExecTypes DEF LeaseExpires, Exec, IInv, Control
  <2> QED
    BY <1>4, <2>1, OwnershipStill DEF LeaseExpires
<1>5. CASE UNCHANGED vars
  BY <1>5, OwnershipStill DEF vars
<1> QED
  BY <1>1, <1>2, <1>3, <1>4, <1>5, OwnershipTool DEF Next

-----------------------------------------------------------------------------
(***************************************************************************)
(* Part 3.  Every step keeps Control; at most once.                        *)
(***************************************************************************)

(* Control: what must be said of the worker that moves. *)

ControlMoves(w) ==
  /\ skill' = skill
  /\ \A x \in Workers \ {w} :
       /\ pc'[x] = pc[x] /\ me'[x] = me[x] /\ view'[x] = view[x]
       /\ \A s \in Steps, a \in Attempts : request'[s][a][x] = request[s][a][x]
  /\ \A x \in Recoverers \ {w} : pc[x] \notin {"idle", "claim"} => exec.epoch' = exec.epoch
  /\ exec.status' = "PENDING" => exec.epoch' = 1
  /\ exec.status' # "ABSENT" => exec.epoch' >= 1
  /\ exec.status' = "ABSENT" => exec.status = "ABSENT" /\ pc'[w] \in {"idle", "insert", "done"}
  /\ pc'[w] \in Unstarted => Att(w)' = 1 /\ ~me'[w].resuming
  /\ w \in Runners => me'[w].epoch <= 1 /\ ~me'[w].resuming /\ pc'[w] \notin RecoverOnlyPC
  /\ w \in Recoverers =>
       /\ pc'[w] \notin {"insert", "done"}
       /\ pc'[w] \notin {"idle", "claim"} => exec.epoch' >= 2
       /\ pc'[w] \notin {"idle", "claim", "get"} => Fenced(w)'
  /\ ledger' = ledger \/ Fenced(w)
  /\ pc'[w] = "sweep" => view'[w] = ledger'
  /\ skill.mode = "SHADOW" => request' = request
  /\ pc'[w] = "query" => ~NonIdempotent(Cur(w)') /\ ~me'[w].resuming
  /\ pc'[w] = "saveFailed" /\ NonIdempotent(Cur(w)') =>
       request'[Cur(w)'][Att(w)'][w] \notin {"sent", "applied"}

LEMMA ControlStep ==
  ASSUME IInv, OneRecoverer, NEW w \in Workers, ControlMoves(w), TypeOK'
  PROVE  Control'
<1>1. Epochs'
  <2>1. ASSUME NEW x \in Workers, pc'[x] \in Unstarted
        PROVE  Att(x)' = 1 /\ ~me'[x].resuming
    BY <2>1 DEF ControlMoves, Att, IInv, Control, Epochs
  <2>2. ASSUME NEW x \in Runners
        PROVE  me'[x].epoch <= 1 /\ ~me'[x].resuming /\ pc'[x] \notin RecoverOnlyPC
    BY DEF ControlMoves, IInv, Control, Epochs, Workers
  <2>3. ASSUME NEW x \in Recoverers
        PROVE  /\ pc'[x] \notin {"insert", "done"}
               /\ pc'[x] \notin {"idle", "claim"} => exec.epoch' >= 2
               /\ pc'[x] \notin {"idle", "claim", "get"} => Fenced(x)'
    BY DEF ControlMoves, IInv, Control, Epochs, Workers, Fenced
  <2> QED
    BY <2>1, <2>2, <2>3 DEF ControlMoves, Epochs, RecoverOnlyPC
<1>2. NothingYet'
  BY DEF ControlMoves, IInv, Control, NothingYet
<1>3. ViewIsCurrent'
  <2>1. ASSUME NEW x \in Recoverers, pc'[x] = "sweep"
        PROVE  view'[x] = ledger'
    <3>1. CASE x = w
      BY <2>1, <3>1 DEF ControlMoves
    <3>2. CASE x # w
      <4>1. pc[x] = "sweep" /\ view'[x] = view[x]
        BY <2>1, <3>2 DEF ControlMoves, Workers
      <4>2. ~Fenced(w)
        BY <3>2, <4>1, AloneInRecovery
      <4> QED
        BY <4>1, <4>2 DEF ControlMoves, IInv, Control, ViewIsCurrent
    <3> QED
      BY <3>1, <3>2
  <2> QED
    BY <2>1 DEF ViewIsCurrent
<1>4. ShadowSendsNothing'
  BY DEF ControlMoves, IInv, Control, ShadowSendsNothing
<1>5. QueriesAreAllowed'
  BY DEF ControlMoves, IInv, Control, QueriesAreAllowed, NonIdempotent, Cur
<1>6. FailureIsDefinite'
  <2>1. ASSUME NEW x \in Workers, pc'[x] = "saveFailed", NonIdempotent(Cur(x))'
        PROVE  request'[Cur(x)'][Att(x)'][x] \notin {"sent", "applied"}
    <3>1. CASE x = w
      BY <2>1, <3>1 DEF ControlMoves, NonIdempotent
    <3>2. CASE x # w
      <4>1. pc[x] = "saveFailed" /\ Cur(x)' = Cur(x) /\ Att(x)' = Att(x) /\ NonIdempotent(Cur(x))
        BY <2>1, <3>2 DEF ControlMoves, Cur, Att, NonIdempotent
      <4>2. Cur(x) \in Steps /\ Att(x) \in Attempts
        BY <4>1 DEF IInv, Ownership, OwnersHaveRows, Holding, Calling
      <4>3. request'[Cur(x)][Att(x)][x] = request[Cur(x)][Att(x)][x]
        BY <3>2, <4>2 DEF ControlMoves
      <4> QED
        BY <4>1, <4>3 DEF IInv, Control, FailureIsDefinite
    <3> QED
      BY <3>1, <3>2
  <2> QED
    BY <2>1 DEF FailureIsDefinite
<1> QED
  BY <1>1, <1>2, <1>3, <1>4, <1>5, <1>6 DEF Control, ControlMoves, IInv

\* What the store's writes do to the status and the epoch.
StatusGoesOn ==
  /\ exec.epoch' = exec.epoch
  /\ \/ exec.status' = exec.status
     \/ exec.status # "ABSENT" /\ exec.status' \notin {"ABSENT", "PENDING"}

LEMMA PersistGoesOn ==
  ASSUME TypeOK, NEW w, NEW st \in Terminal \cup {"RUNNING"}, Persist(w, st)
  PROVE  StatusGoesOn
BY ExecTypes DEF Exec, Persist, FencedExec, StatusGoesOn, Terminal

LEMMA ControlReturn ==
  ASSUME IInv, OneRecoverer, TypeOK', NEW w \in Workers, Return(w), StatusGoesOn,
         UNCHANGED <<skill, ledger, request>>
  PROVE  Control'
<1>1. pc'[w] = (IF w \in Runners THEN "done" ELSE "idle") /\ me'[w] = NoLocal
  BY DEF Return, Goto, IInv, Control, TypeOK
<1>2. \A x \in Workers \ {w} : pc'[x] = pc[x] /\ me'[x] = me[x] /\ view'[x] = view[x]
  BY DEF Return, Goto, IInv, Control, TypeOK
<1>3. w \in Recoverers => w \notin Runners
  BY WorkersAssumption
<1>4. Att(w)' = 1 /\ me'[w].epoch = 0 /\ ~me'[w].resuming
  BY <1>1 DEF Att, NoLocal
<1>5. ControlMoves(w)
  BY <1>1, <1>2, <1>3, <1>4
  DEF ControlMoves, StatusGoesOn, IInv, Control, Epochs, Unstarted, RecoverOnlyPC, RecoverPC
<1> QED
  BY <1>5, ControlStep

\* A worker at work goes on with the copy it has.
LEMMA ControlGoesOn ==
  ASSUME IInv, OneRecoverer, TypeOK', NEW w \in Workers, StatusGoesOn,
         UNCHANGED <<skill, request>>, ledger' = ledger \/ Fenced(w),
         \A x \in Workers \ {w} : me'[x] = me[x] /\ view'[x] = view[x],
         me'[w].epoch = me[w].epoch, w \in Runners => ~me'[w].resuming,
         pc[w] \notin {"idle", "insert", "done", "claim", "get", "read"},
         NEW p, Goto(w, p),
         p \notin Unstarted \cup {"query"},
         w \in Runners => p \notin RecoverOnlyPC,
         p = "saveFailed" /\ NonIdempotent(Cur(w)') =>
           request'[Cur(w)'][Att(w)'][w] \notin {"sent", "applied"}
  PROVE  Control'
<1>1. pc'[w] = p /\ \A x \in Workers \ {w} : pc'[x] = pc[x]
  BY DEF Goto, IInv, Control, TypeOK
<1>2. exec.status # "ABSENT"
  BY DEF IInv, Control, NothingYet
<1>3. w \in Recoverers => Fenced(w)' /\ exec.epoch' >= 2
  BY DEF IInv, Control, Epochs, Fenced, StatusGoesOn
<1>4. ControlMoves(w)
  BY <1>1, <1>2, <1>3 DEF ControlMoves, StatusGoesOn, IInv, Control, Epochs, Unstarted
<1> QED
  BY <1>4, ControlStep

LEMMA UnchangedGoesOn ==
  ASSUME UNCHANGED exec
  PROVE  StatusGoesOn
BY DEF StatusGoesOn

\* The same, when the worker moves past a step.
LEMMA ControlNextStep ==
  ASSUME IInv, OneRecoverer, TypeOK', NEW w \in Workers, StatusGoesOn,
         UNCHANGED <<skill, request, view>>, ledger' = ledger \/ Fenced(w),
         pc[w] \notin {"idle", "insert", "done", "claim", "get", "read"},
         NEW p, NextStep(w, p),
         p \in {"advance", "persist"}, w \in Runners => p = "advance"
  PROVE  Control'
<1>1. /\ me'[w].epoch = me[w].epoch /\ ~me'[w].resuming
      /\ \A x \in Workers \ {w} : me'[x] = me[x]
  BY NextStepEffect DEF IInv, Control
<1>2. Goto(w, p) /\ p \notin Unstarted \cup {"query"} /\ p # "saveFailed"
  BY DEF NextStep, Unstarted
<1>3. w \in Runners => p \notin RecoverOnlyPC
  BY DEF RecoverOnlyPC, RecoverPC
<1> QED
  BY <1>1, <1>2, <1>3, ControlGoesOn

\* The same, when it tries the step again.
LEMMA ControlRetry ==
  ASSUME IInv, OneRecoverer, TypeOK', NEW w \in Workers, StatusGoesOn,
         UNCHANGED <<skill, request, view>>, ledger' = ledger \/ Fenced(w),
         pc[w] \notin {"idle", "insert", "done", "claim", "get", "read"},
         NEW p, Goto(w, p), Retry(w),
         p \in {"step", "start", "persist"}, w \in Runners => p # "persist"
  PROVE  Control'
<1>1. /\ me'[w].epoch = me[w].epoch /\ ~me'[w].resuming
      /\ \A x \in Workers \ {w} : me'[x] = me[x]
  BY RetryEffect DEF IInv, Control
<1>2. p \notin Unstarted \cup {"query"} /\ p # "saveFailed"
  BY DEF Unstarted
<1>3. w \in Runners => p \notin RecoverOnlyPC
  BY DEF RecoverOnlyPC, RecoverPC
<1> QED
  BY <1>1, <1>2, <1>3, ControlGoesOn

\* The same, when its copy stays as it is.
LEMMA ControlGoto ==
  ASSUME IInv, OneRecoverer, TypeOK', NEW w \in Workers, StatusGoesOn,
         UNCHANGED <<skill, request, me, view>>, ledger' = ledger \/ Fenced(w),
         pc[w] \notin {"idle", "insert", "done", "claim", "get", "read"},
         NEW p, Goto(w, p),
         p \in RunPC \cup {"persist", "applied"}, w \in Runners => p \in RunPC,
         p = "saveFailed" /\ NonIdempotent(Cur(w)) =>
           request[Cur(w)][Att(w)][w] \notin {"sent", "applied"}
  PROVE  Control'
<1>1. me'[w].epoch = me[w].epoch /\ (w \in Runners => ~me'[w].resuming)
  BY DEF IInv, Control, Epochs
<1>2. p \notin Unstarted \cup {"query"} /\ (w \in Runners => p \notin RecoverOnlyPC)
  BY DEF Unstarted, RunPC, RecoverOnlyPC, RecoverPC
<1>3. p = "saveFailed" /\ NonIdempotent(Cur(w)') =>
        request'[Cur(w)'][Att(w)'][w] \notin {"sent", "applied"}
  BY DEF Cur, Att, NonIdempotent
<1> QED
  BY <1>1, <1>2, <1>3, ControlGoesOn

-----------------------------------------------------------------------------
(* Control: the runtime. *)

LEMMA ControlInvoke ==
  ASSUME IInv, OneRecoverer, TypeOK', NEW w \in Workers, Invoke(w)
  PROVE  Control'
<1>1. pc'[w] = "await" /\ \A x \in Workers \ {w} : pc'[x] = pc[x]
  BY DEF Invoke, Goto, IInv, Control, TypeOK
<1>2. \A s \in Steps, a \in Attempts : \A x \in Workers \ {w} :
        request'[s][a][x] = request[s][a][x]
  BY DEF Invoke, IInv, Control, TypeOK
<1>3. exec.status # "ABSENT"
  BY DEF Invoke, IInv, Control, NothingYet
<1>4. w \in Recoverers => Fenced(w)' /\ exec.epoch' >= 2
  BY DEF Invoke, IInv, Control, Epochs, Fenced
<1>5. ControlMoves(w)
  BY <1>1, <1>2, <1>3, <1>4
  DEF Invoke, ControlMoves, IInv, Control, Epochs, Unstarted, RecoverOnlyPC, RecoverPC
<1> QED
  BY <1>5, ControlStep

LEMMA ControlAnswerFailed ==
  ASSUME IInv, OneRecoverer, ProvidersReport, TypeOK', NEW w \in Workers, AnswerFailed(w)
  PROVE  Control'
<1>1. pc[w] = "await" /\ StatusGoesOn /\ UNCHANGED <<skill, ledger, request, view>>
  BY UnchangedGoesOn DEF AnswerFailed
<1>2. CASE Goto(w, "step") /\ Retry(w)
  BY <1>1, <1>2, ControlRetry
<1>3. CASE Goto(w, "saveFailed") /\ UNCHANGED me
  <2>1. Cur(w) \in Steps /\ Att(w) \in Attempts /\ Att(w) < Att(w) + 1
    BY <1>1 DEF IInv, Ownership, OwnersHaveRows, Holding, Calling, Attempts
  <2>2. NonIdempotent(Cur(w)) => request[Cur(w)][Att(w)][w] \notin {"sent", "applied"}
    BY <2>1, FailedCallIsCold DEF Hot
  <2>3. "saveFailed" \in RunPC
    BY DEF RunPC
  <2> QED
    BY <1>1, <1>3, <2>2, <2>3, ControlGoto
<1>4. \/ Goto(w, "saveFailed") /\ UNCHANGED me
      \/ Goto(w, "step") /\ Retry(w)
  BY Zenon DEF AnswerFailed, Retry
<1> QED
  BY <1>2, <1>3, <1>4

LEMMA ControlRun ==
  ASSUME IInv, OneRecoverer, ProvidersReport, TypeOK', NEW w \in Workers, RunStep(w)
  PROVE  Control'
<1> DEFINE Ready == /\ StatusGoesOn /\ UNCHANGED <<skill, request, view>>
                    /\ ledger' = ledger \/ Fenced(w)
                    /\ pc[w] \notin {"idle", "insert", "done", "claim", "get", "read"}
<1>1. CASE Start(w)
  <2>1. StatusGoesOn
    BY <1>1, PersistGoesOn DEF Start, IInv, Control
  <2>2. Ready /\ UNCHANGED me /\ (Goto(w, "fail") \/ Goto(w, "step"))
    BY <1>1, <2>1 DEF Start
  <2> QED
    BY <2>2, ControlGoto DEF RunPC
<1>2. CASE Succeed(w) \/ Finish(w)
  <2>1. StatusGoesOn
    BY <1>2, PersistGoesOn DEF Succeed, Finish, Terminal, IInv, Control
  <2> QED
    BY <1>2, <2>1, ControlReturn DEF Succeed, Finish
<1>3. CASE Skip(w)
  <2>1. Ready /\ NextStep(w, "advance")
    BY <1>3, UnchangedGoesOn DEF Skip, AtStep, FencedStep, Fenced
  <2> QED
    BY <2>1, ControlNextStep
<1>4. CASE BadWhen(w)
  <2>1. Ready /\ UNCHANGED me /\ Goto(w, "fail")
    BY <1>4, UnchangedGoesOn DEF BadWhen, AtStep
  <2> QED
    BY <2>1, ControlGoto DEF RunPC
<1>5. CASE BadArgs(w)
  <2>1. Ready /\ (NextStep(w, "advance") \/ (Goto(w, "fail") /\ UNCHANGED me))
    BY <1>5, UnchangedGoesOn DEF BadArgs, AtStep, WriteRow, FencedStep, Fenced
  <2> QED
    BY <2>1, ControlNextStep, ControlGoto DEF RunPC
<1>6. CASE CreateAttempt(w)
  <2>1. Ready /\ UNCHANGED me /\ Goto(w, "mark")
    BY <1>6, UnchangedGoesOn DEF CreateAttempt, AtStep, WriteRow, FencedStep, Fenced
  <2> QED
    BY <2>1, ControlGoto DEF RunPC
<1>7. CASE DuplicateAttempt(w) \/ StaleLease(w)
  BY <1>7, UnchangedGoesOn, ControlReturn DEF DuplicateAttempt, StaleLease
<1>8. CASE MarkRunning(w)
  <2>1. Ready /\ UNCHANGED me /\ Goto(w, "invoke")
    BY <1>8, UnchangedGoesOn DEF MarkRunning, WriteRow, FencedStep, Fenced
  <2> QED
    BY <2>1, ControlGoto DEF RunPC
<1>9. CASE Invoke(w)
  BY <1>9, ControlInvoke
<1>10. CASE AnswerOK(w) \/ AnswerUnknown(w)
  <2>1. Ready /\ UNCHANGED me /\ (Goto(w, "saveOK") \/ Goto(w, "saveUnknown"))
    BY <1>10, UnchangedGoesOn DEF AnswerOK, AnswerUnknown
  <2> QED
    BY <2>1, ControlGoto DEF RunPC
<1>11. CASE AnswerFailed(w)
  BY <1>11, ControlAnswerFailed
<1>12. CASE SaveOK(w)
  <2>1. Ready
    BY <1>12, UnchangedGoesOn DEF SaveOK, WriteRow, FencedStep, Fenced
  <2>2. PICK p \in {"persist", "advance"} : NextStep(w, p) /\ (w \in Runners => p = "advance")
    BY <1>12 DEF SaveOK, IInv, Control, Epochs
  <2> QED
    BY <2>1, <2>2, ControlNextStep
<1>13. CASE SaveFailed(w)
  <2>1. Ready /\ (NextStep(w, "advance") \/ (Goto(w, "fail") /\ UNCHANGED me))
    BY <1>13, UnchangedGoesOn DEF SaveFailed, WriteRow, FencedStep, Fenced
  <2> QED
    BY <2>1, ControlNextStep, ControlGoto DEF RunPC
<1>14. CASE SaveUnknown(w)
  <2>1. Ready
    BY <1>14, UnchangedGoesOn DEF SaveUnknown, WriteRow, FencedStep, Fenced
  <2>2. \/ Goto(w, "manual") /\ UNCHANGED me
        \/ (Goto(w, "start") \/ Goto(w, "step")) /\ Retry(w)
    BY <1>14, Zenon DEF SaveUnknown, Retry
  <2> QED
    BY <2>1, <2>2, ControlRetry, ControlGoto DEF RunPC
<1>15. CASE Advance(w)
  <2>1. StatusGoesOn
    BY <1>15, PersistGoesOn DEF Advance, IInv, Control
  <2>2. Ready /\ UNCHANGED me /\ Goto(w, "step")
    BY <1>15, <2>1 DEF Advance
  <2> QED
    BY <2>2, ControlGoto DEF RunPC
<1> QED
  BY <1>1, <1>2, <1>3, <1>4, <1>5, <1>6, <1>7, <1>8, <1>9, <1>10, <1>11, <1>12, <1>13,
     <1>14, <1>15 DEF RunStep

-----------------------------------------------------------------------------
(* Control: the recovery loop. *)

LEMMA ControlList ==
  ASSUME IInv, OneRecoverer, TypeOK', NEW r \in Recoverers, List(r)
  PROVE  Control'
<1>1. r \in Workers /\ r \notin Runners
  BY WorkersAssumption DEF Workers
<1>2. /\ pc[r] = "idle" /\ pc'[r] = "claim" /\ exec.status = "RUNNING"
      /\ \A x \in Workers \ {r} : pc'[x] = pc[x]
      /\ UNCHANGED <<skill, exec, ledger, request, me, view>>
  BY <1>1 DEF List, Goto, IInv, Control, TypeOK
<1>3. Att(r)' = 1 /\ ~me'[r].resuming
  BY <1>1, <1>2 DEF Att, IInv, Control, Epochs, Unstarted
<1>4. ControlMoves(r)
  BY <1>1, <1>2, <1>3 DEF ControlMoves, IInv, Control, Epochs
<1> QED
  BY <1>1, <1>4, ControlStep

LEMMA ControlClaim ==
  ASSUME IInv, OneRecoverer, TypeOK', NEW r \in Recoverers, Claim(r)
  PROVE  Control'
<1>1. r \in Workers /\ r \notin Runners
  BY WorkersAssumption DEF Workers
<1>2. CASE Return(r) /\ UNCHANGED exec
  BY <1>1, <1>2, UnchangedGoesOn, ControlReturn DEF Claim
<1>3. CASE /\ Claimable /\ exec' = [exec EXCEPT !.epoch = exec.epoch + 1,
                                        !.owner = "server-recovery", !.live = TRUE]
           /\ Goto(r, "get") /\ UNCHANGED <<me, view>>
  <2>1. exec.epoch' = exec.epoch + 1 /\ exec.status' = exec.status
    <3>1. ASSUME NEW n \in Nat,
                 exec' = [exec EXCEPT !.epoch = n, !.owner = "server-recovery", !.live = TRUE]
          PROVE  exec.epoch' = n /\ exec.status' = exec.status
      BY <3>1, ExecTypes DEF Exec, IInv, Control
    <3>2. exec.epoch + 1 \in Nat
      BY ExecTypes DEF IInv, Control
    <3> QED
      BY <1>3, <3>1, <3>2, Zenon
  <2>2. exec.status = "RUNNING" /\ exec.epoch \in Nat /\ exec.epoch >= 1
    BY <1>3, ExecTypes DEF Claimable, IInv, Control, Epochs
  <2>3. exec.epoch' >= 2
    BY <2>1, <2>2
  <2>4. /\ pc[r] = "claim" /\ pc'[r] = "get" /\ UNCHANGED <<skill, ledger, request>>
        /\ \A x \in Workers \ {r} : pc'[x] = pc[x]
    BY <1>1, <1>3 DEF Claim, Goto, IInv, Control, TypeOK
  <2>5. Att(r)' = 1 /\ ~me'[r].resuming
    BY <1>1, <1>3, <2>4 DEF Att, IInv, Control, Epochs, Unstarted
  <2>6. \A x \in Recoverers : x = r
    BY DEF OneRecoverer
  <2>7. ControlMoves(r)
    BY <1>1, <1>3, <2>1, <2>2, <2>3, <2>4, <2>5, <2>6 DEF ControlMoves
  <2> QED
    BY <1>1, <2>7, ControlStep
<1> QED
  BY <1>2, <1>3, Zenon DEF Claim

LEMMA ControlGet ==
  ASSUME IInv, OneRecoverer, TypeOK', NEW r \in Recoverers, Get(r)
  PROVE  Control'
<1>1. r \in Workers /\ r \notin Runners
  BY WorkersAssumption DEF Workers
<1>2. CASE Return(r)
  BY <1>1, <1>2, UnchangedGoesOn, ControlReturn DEF Get
<1>3. CASE /\ Goto(r, "read") /\ UNCHANGED view
           /\ me' = [me EXCEPT ![r].epoch = exec.epoch, ![r].cursor = exec.cursor]
  <2>1. /\ pc[r] = "get" /\ pc'[r] = "read" /\ \A x \in Workers \ {r} : pc'[x] = pc[x]
        /\ UNCHANGED <<skill, exec, ledger, request>>
    BY <1>1, <1>3 DEF Get, Goto, IInv, Control, TypeOK
  <2>2. /\ me'[r].epoch = exec.epoch /\ me'[r].attempt = me[r].attempt
        /\ me'[r].resuming = me[r].resuming
        /\ \A x \in Workers \ {r} : me'[x] = me[x]
    BY <1>1, <1>3, ExecTypes, SetCursor DEF IInv, Control
  <2>3. Att(r)' = 1 /\ ~me'[r].resuming /\ Fenced(r)'
    BY <1>1, <2>1, <2>2 DEF Att, Fenced, IInv, Control, Epochs, Unstarted
  <2>4. exec.status # "ABSENT" /\ exec.epoch >= 2
    BY <1>1, <2>1 DEF IInv, Control, NothingYet, Epochs
  <2>5. ControlMoves(r)
    BY <1>1, <1>3, <2>1, <2>2, <2>3, <2>4 DEF ControlMoves, IInv, Control, Epochs
  <2> QED
    BY <1>1, <2>5, ControlStep
<1> QED
  BY <1>2, <1>3, Zenon DEF Get

\* The planner and the sweep: the loop stays at work with the lease and the copy it has.
LEMMA ControlPlanned ==
  ASSUME IInv, OneRecoverer, TypeOK', NEW r \in Recoverers,
         pc[r] \in {"read", "sweep"}, UNCHANGED <<skill, exec, request>>,
         \A x \in Workers \ {r} : pc'[x] = pc[x] /\ me'[x] = me[x] /\ view'[x] = view[x],
         me'[r].epoch = me[r].epoch,
         pc'[r] \notin {"idle", "insert", "done", "saveFailed"},
         pc'[r] = "sweep" => view'[r] = ledger',
         pc'[r] \in Unstarted => UNCHANGED me,
         pc'[r] = "query" => ~NonIdempotent(Cur(r)') /\ ~me'[r].resuming
  PROVE  Control'
<1>1. r \in Workers /\ r \notin Runners
  BY WorkersAssumption DEF Workers
<1>2. Fenced(r) /\ Fenced(r)' /\ exec.status # "ABSENT" /\ exec.epoch >= 2
  BY <1>1 DEF Fenced, IInv, Control, NothingYet, Epochs
<1>3. pc'[r] \in Unstarted => Att(r)' = 1 /\ ~me'[r].resuming
  BY <1>1 DEF Att, IInv, Control, Epochs, Unstarted
<1>4. ControlMoves(r)
  BY <1>1, <1>2, <1>3 DEF ControlMoves, IInv, Control, Epochs
<1> QED
  BY <1>1, <1>4, ControlStep

LEMMA ControlMarkUnknown ==
  ASSUME IInv, OneRecoverer, TypeOK', NEW r \in Recoverers, MarkUnknown(r)
  PROVE  Control'
<1>1. PICK y \in SeenRunning(r) :
        /\ ledger' = [ledger EXCEPT ![y[1]][y[2]] = "UNKNOWN_OUTCOME"]
        /\ view' = [view EXCEPT ![r][y[1]][y[2]] = "UNKNOWN_OUTCOME"]
  BY DEF MarkUnknown
<1>2. /\ pc[r] = "sweep" /\ UNCHANGED <<skill, exec, request, pc, me>>
      /\ r \in Workers /\ view \in [Workers -> Ledger]
  BY DEF MarkUnknown, Workers, IInv, Control, TypeOK
<1>3. view[r] = ledger
  BY <1>2 DEF IInv, Control, ViewIsCurrent
<1>4. /\ view'[r] = [view[r] EXCEPT ![y[1]][y[2]] = "UNKNOWN_OUTCOME"]
      /\ \A x \in Workers \ {r} : view'[x] = view[x]
  BY <1>1, <1>2
<1> QED
  BY <1>1, <1>2, <1>3, <1>4, ControlPlanned

LEMMA ControlPlan ==
  ASSUME IInv, OneRecoverer, TypeOK', NEW r \in Recoverers, Plan(r)
  PROVE  Control'
<1>1. /\ r \in Workers /\ pc[r] = "sweep" /\ UNCHANGED <<skill, exec, ledger, request, view>>
      /\ TypeOK
  BY DEF Plan, Planning, Workers, IInv, Control
<1>2. me[r].resuming = FALSE
  BY <1>1, LocalTypes DEF IInv, Control, Epochs, Unstarted
<1>3. ASSUME NEW p \in {"persist", "fail", "manual", "query"}, Goto(r, p),
             me'[r].epoch = me[r].epoch, \A x \in Workers \ {r} : me'[x] = me[x],
             p = "query" => ~NonIdempotent(Cur(r)') /\ ~me'[r].resuming
      PROVE  Control'
  <2>1. pc'[r] = p /\ \A x \in Workers \ {r} : pc'[x] = pc[x]
    BY <1>1, <1>3 DEF Goto, TypeOK
  <2> QED
    BY <1>1, <1>3, <2>1, ControlPlanned DEF Unstarted
<1>4. CASE NextStep(r, "persist")
  <2>1. Goto(r, "persist") /\ me'[r].epoch = me[r].epoch /\ \A x \in Workers \ {r} : me'[x] = me[x]
    BY <1>1, <1>4, NextStepEffect DEF NextStep
  <2> QED
    BY <1>3, <2>1
<1>5. ASSUME NEW a \in Attempts, PlanFrom(r, a)
      PROVE  Control'
  <2>1. \/ NextStep(r, "persist")
        \/ /\ Goto(r, "persist")
           /\ \/ me' = [me EXCEPT ![r].attempt = a, ![r].resuming = TRUE]
              \/ me' = [me EXCEPT ![r].attempt = a + 1]
        \/ /\ Step(r).cap = "QUERY_RECONCILE" /\ Goto(r, "query")
           /\ me' = [me EXCEPT ![r].attempt = a]
        \/ (Goto(r, "fail") \/ Goto(r, "manual")) /\ UNCHANGED me
    BY <1>5, Zenon DEF PlanFrom
  <2>2. a \in Nat \ {0} /\ a + 1 \in Nat \ {0}
    BY BoundsAssumption DEF Attempts
  <2>3. CASE me' = [me EXCEPT ![r].attempt = a, ![r].resuming = TRUE] /\ Goto(r, "persist")
    <3>1. me'[r].epoch = me[r].epoch /\ \A x \in Workers \ {r} : me'[x] = me[x]
      BY <1>1, <2>2, <2>3, Constants, SetAttempt
    <3> QED
      BY <1>3, <2>3, <3>1
  <2>4. CASE me' = [me EXCEPT ![r].attempt = a + 1] /\ Goto(r, "persist")
    <3>1. me'[r].epoch = me[r].epoch /\ \A x \in Workers \ {r} : me'[x] = me[x]
      BY <1>1, <1>2, <2>2, <2>4, Constants, SetAttempt, Zenon
    <3> QED
      BY <1>3, <2>4, <3>1
  <2>5. CASE /\ Step(r).cap = "QUERY_RECONCILE" /\ Goto(r, "query")
             /\ me' = [me EXCEPT ![r].attempt = a]
    <3>1. /\ me'[r].epoch = me[r].epoch /\ me'[r].cursor = me[r].cursor
          /\ me'[r].resuming = FALSE /\ \A x \in Workers \ {r} : me'[x] = me[x]
      BY <1>1, <1>2, <2>2, <2>5, Constants, SetAttempt, Zenon
    <3>2. ~NonIdempotent(Cur(r)')
      BY <1>1, <2>5, <3>1 DEF NonIdempotent, Step, Cur
    <3> QED
      BY <1>3, <2>5, <3>1, <3>2
  <2> QED
    BY <1>3, <1>4, <2>1, <2>3, <2>4, <2>5
<1>6. \/ NextStep(r, "persist")
      \/ Goto(r, "persist") /\ UNCHANGED me
      \/ \E a \in Attempts : PlanFrom(r, a)
  BY Zenon DEF Plan
<1> QED
  BY <1>3, <1>4, <1>5, <1>6

LEMMA ControlRecover ==
  ASSUME IInv, OneRecoverer, TypeOK', NEW r \in Recoverers, RecoverStep(r)
  PROVE  Control'
<1>1. r \in Workers /\ r \notin Runners
  BY WorkersAssumption DEF Workers
<1> DEFINE Ready == /\ StatusGoesOn /\ UNCHANGED <<skill, request, view>>
                    /\ ledger' = ledger \/ Fenced(r)
                    /\ pc[r] \notin {"idle", "insert", "done", "claim", "get", "read"}
<1>2. CASE Read(r)
  <2>1. /\ pc[r] = "read" /\ pc'[r] = "sweep" /\ view'[r] = ledger
        /\ \A x \in Workers \ {r} : pc'[x] = pc[x] /\ view'[x] = view[x]
        /\ UNCHANGED <<skill, exec, ledger, request, me>>
    BY <1>1, <1>2 DEF Read, Goto, IInv, Control, TypeOK
  <2> QED
    BY <2>1, ControlPlanned
<1>3. CASE Resume(r)
  <2>1. StatusGoesOn
    BY <1>3, PersistGoesOn DEF Resume, IInv, Control
  <2>2. Ready /\ UNCHANGED me /\ (Goto(r, "mark") \/ Goto(r, "start"))
    BY <1>3, <2>1 DEF Resume
  <2> QED
    BY <1>1, <2>2, ControlGoto DEF RunPC
<1>4. CASE Query(r)
  <2>1. Ready
    BY <1>4, UnchangedGoesOn DEF Query
  <2>2. me[r].resuming = FALSE
    BY <1>1, <1>4, LocalTypes DEF Query, IInv, Control, QueriesAreAllowed
  <2>3. \/ (Goto(r, "applied") \/ Goto(r, "manual")) /\ UNCHANGED me
        \/ Goto(r, "persist") /\ Retry(r)
    BY <1>4, <2>2, Zenon DEF Query, Retry
  <2> QED
    BY <1>1, <2>1, <2>3, ControlGoto, ControlRetry DEF RunPC
<1>5. CASE RecordApplied(r)
  <2>1. Ready /\ NextStep(r, "persist")
    BY <1>5, UnchangedGoesOn DEF RecordApplied, WriteRow, FencedStep, Fenced
  <2> QED
    BY <1>1, <2>1, ControlNextStep
<1> QED
  BY <1>2, <1>3, <1>4, <1>5, ControlList, ControlClaim, ControlGet, ControlMarkUnknown,
     ControlPlan DEF RecoverStep

-----------------------------------------------------------------------------
(* Control: the handlers' entry, the tools, time and faults. *)

LEMMA ControlLookup ==
  ASSUME IInv, OneRecoverer, TypeOK', NEW w \in Workers, Lookup(w)
  PROVE  Control'
<1>1. CASE Return(w)
  BY <1>1, UnchangedGoesOn, ControlReturn DEF Lookup
<1>2. CASE Goto(w, "insert") /\ UNCHANGED <<me, view>>
  <2>1. /\ pc[w] = "idle" /\ pc'[w] = "insert" /\ \A x \in Workers \ {w} : pc'[x] = pc[x]
        /\ UNCHANGED <<skill, exec, ledger, request, me, view>>
        /\ w \notin Recoverers
    BY <1>2, WorkersAssumption DEF Lookup, Goto, IInv, Control, TypeOK
  <2>2. Att(w)' = 1 /\ ~me'[w].resuming
    BY <2>1 DEF Att, IInv, Control, Epochs, Unstarted
  <2>3. ControlMoves(w)
    BY <2>1, <2>2 DEF ControlMoves, IInv, Control, Epochs, RecoverOnlyPC, RecoverPC
  <2> QED
    BY <2>3, ControlStep
<1> QED
  BY <1>1, <1>2, Zenon DEF Lookup

LEMMA ControlInsert ==
  ASSUME IInv, OneRecoverer, TypeOK', NEW w \in Workers, Insert(w)
  PROVE  Control'
<1>1. /\ pc[w] = "insert" /\ UNCHANGED <<skill, ledger, request>> /\ TypeOK
      /\ Att(w) = 1 /\ ~me[w].resuming
  BY DEF Insert, IInv, Control, Epochs, Unstarted
<1>2. w \notin Recoverers
  BY <1>1 DEF IInv, Control, Epochs
<1>3. CASE Return(w) /\ UNCHANGED exec
  BY <1>1, <1>3, UnchangedGoesOn, ControlReturn
<1>4. ASSUME Goto(w, "start"), UNCHANGED view, exec'.epoch = 1,
             me'[w].epoch = 1, me'[w].attempt = me[w].attempt, me'[w].resuming = me[w].resuming,
             \A x \in Workers \ {w} : me'[x] = me[x],
             exec'.status # "ABSENT",
             exec.epoch = 1 \/ exec.status = "ABSENT"
      PROVE  Control'
  <2>1. pc'[w] = "start" /\ \A x \in Workers \ {w} : pc'[x] = pc[x]
    BY <1>1, <1>4 DEF Goto, TypeOK
  <2>2. \A x \in Recoverers : pc[x] \in {"idle", "claim"}
    BY <1>4, ExecTypes DEF IInv, Control, Epochs, NothingYet, Workers
  <2>3. ControlMoves(w)
    BY <1>1, <1>2, <1>4, <2>1, <2>2
    DEF ControlMoves, Unstarted, Att, RecoverOnlyPC, RecoverPC
  <2> QED
    BY <2>3, ControlStep
<1>5. CASE /\ exec.status = "ABSENT" /\ Goto(w, "start") /\ UNCHANGED view
           /\ exec' = [exec EXCEPT !.status = "PENDING", !.epoch = 1]
           /\ me' = [me EXCEPT ![w].epoch = 1]
  <2>1. exec'.epoch = 1 /\ exec'.status # "ABSENT"
    <3>1. ASSUME NEW n \in Nat, exec' = [exec EXCEPT !.status = "PENDING", !.epoch = n]
          PROVE  exec'.epoch = n /\ exec'.status = "PENDING"
      BY <1>1, <3>1, ExecTypes DEF Exec
    <3> QED
      BY <1>5, <3>1, Constants
  <2>2. /\ me'[w].epoch = 1 /\ me'[w].attempt = me[w].attempt
        /\ me'[w].resuming = me[w].resuming /\ \A x \in Workers \ {w} : me'[x] = me[x]
    <3>1. me[w] \in Local /\ me \in [Workers -> Local]
      BY <1>1, LocalTypes
    <3> QED
      BY <1>5, <3>1 DEF Local
  <2> QED
    BY <1>4, <1>5, <2>1, <2>2
<1>6. CASE /\ exec.status = "PENDING" /\ Goto(w, "start") /\ UNCHANGED <<exec, view>>
           /\ me' = [me EXCEPT ![w].epoch = exec.epoch, ![w].cursor = exec.cursor]
  <2>1. exec.epoch = 1
    BY <1>6 DEF IInv, Control, Epochs
  <2>2. /\ me'[w].epoch = exec.epoch /\ me'[w].attempt = me[w].attempt
        /\ me'[w].resuming = me[w].resuming /\ \A x \in Workers \ {w} : me'[x] = me[x]
    BY <1>1, <1>6, ExecTypes, SetCursor
  <2> QED
    BY <1>4, <1>6, <2>1, <2>2
<1> QED
  BY <1>3, <1>5, <1>6, Zenon DEF Insert

\* The workers stand still; requests of LIVE executions and the lease may change.
LEMMA ControlStill ==
  ASSUME IInv, TypeOK', UNCHANGED <<skill, ledger, pc, me, view>>,
         exec'.epoch = exec.epoch, exec'.status = exec.status,
         \A s \in Steps, a \in Attempts, w \in Workers :
           \/ request'[s][a][w] = request[s][a][w]
           \/ request[s][a][w] = "sent"
  PROVE  Control'
<1>1. Epochs' /\ NothingYet' /\ ViewIsCurrent' /\ QueriesAreAllowed'
  BY DEF IInv, Control, Epochs, NothingYet, ViewIsCurrent, QueriesAreAllowed, NonIdempotent,
         Cur, Att, Fenced
<1>2. ShadowSendsNothing'
  BY DEF IInv, Control, ShadowSendsNothing
<1>3. FailureIsDefinite'
  <2>1. ASSUME NEW x \in Workers, pc[x] = "saveFailed", NonIdempotent(Cur(x))
        PROVE  request'[Cur(x)][Att(x)][x] \notin {"sent", "applied"}
    <3>1. Cur(x) \in Steps /\ Att(x) \in Attempts
      BY <2>1 DEF IInv, Ownership, OwnersHaveRows, Holding, Calling
    <3>2. request[Cur(x)][Att(x)][x] \notin {"sent", "applied"}
      BY <2>1 DEF IInv, Control, FailureIsDefinite
    <3> QED
      BY <3>1, <3>2
  <2> QED
    BY <2>1 DEF FailureIsDefinite, NonIdempotent, Cur, Att
<1> QED
  BY <1>1, <1>2, <1>3 DEF IInv, Control

LEMMA ControlKept ==
  ASSUME IInv, OneRecoverer, ProvidersReport, TypeOK', [Next]_vars
  PROVE  Control'
<1>1. ASSUME NEW w \in Workers, WorkerStep(w)
      PROVE  Control'
  <2>1. CASE w \in Recoverers /\ RecoverStep(w)
    BY <2>1, ControlRecover
  <2>2. CASE w \notin Recoverers /\ RecoverStep(w)
    <3>1. w \in Runners
      BY <2>2 DEF Workers
    <3>2. pc[w] \notin {"claim", "get", "read", "sweep", "persist", "query", "applied"}
      BY <3>1 DEF IInv, Control, Epochs, RecoverOnlyPC, RecoverPC
    <3> QED
      BY <2>2, <3>2 DEF RecoverStep, List, Claim, Get, Read, MarkUnknown, Plan, Planning,
                        Resume, Query, RecordApplied
  <2> QED
    BY <1>1, <2>1, <2>2, ControlLookup, ControlInsert, ControlRun DEF WorkerStep
<1>2. ASSUME NEW w \in Workers, Heartbeat(w)
      PROVE  Control'
  <2>1. exec'.epoch = exec.epoch /\ exec'.status = exec.status
    BY <1>2, ExecTypes DEF Heartbeat, Exec, IInv, Control
  <2> QED
    BY <1>2, <2>1, ControlStill DEF Heartbeat
<1>3. ASSUME NEW w \in Workers, Abandon(w)
      PROVE  Control'
  BY <1>3, UnchangedGoesOn, ControlReturn DEF Abandon
<1>4. CASE LeaseExpires
  <2>1. exec'.epoch = exec.epoch /\ exec'.status = exec.status
    BY <1>4, ExecTypes DEF LeaseExpires, Exec, IInv, Control
  <2> QED
    BY <1>4, <2>1, ControlStill DEF LeaseExpires
<1>5. CASE UNCHANGED vars
  BY <1>5, ControlStill DEF vars
<1>6. ASSUME NEW s0 \in Steps, NEW a0 \in Attempts, NEW w \in Workers, ToolStep(s0, a0, w)
      PROVE  Control'
  <2>1. request \in [Steps -> [Attempts -> [Workers -> Request]]]
    BY DEF IInv, Control, TypeOK
  <2>2. /\ request[s0][a0][w] = "sent" /\ UNCHANGED <<exec, ledger, pc, me, view, skill>>
        /\ \E q \in Request : request' = [request EXCEPT ![s0][a0][w] = q]
    BY <1>6 DEF ToolStep, ToolApplies, ToolRefuses, RequestLost, Request
  <2>3. \A s \in Steps, a \in Attempts, x \in Workers :
          s # s0 \/ a # a0 \/ x # w => request'[s][a][x] = request[s][a][x]
    BY <2>1, <2>2
  <2> QED
    BY <2>2, <2>3, ControlStill
<1> QED
  BY <1>1, <1>2, <1>3, <1>4, <1>5, <1>6 DEF Next

-----------------------------------------------------------------------------
(* The theorem. *)

LEMMA IInvInit == Init => IInv
<1> SUFFICES ASSUME Init PROVE IInv
  OBVIOUS
<1>1. TypeOK /\ skill \in Skills
  BY TypeInit DEF Init
<1>2. /\ exec.status = "ABSENT"
      /\ \A w \in Workers : /\ pc[w] = "idle" /\ Att(w) = 1 /\ Cur(w) = 1
                            /\ me[w].epoch = 0 /\ ~me[w].resuming
      /\ \A s \in Steps, a \in Attempts : ledger[s][a] = "NONE"
      /\ \A s \in Steps, a \in Attempts, w \in Workers : request[s][a][w] = "none"
  <2>1. exec.status = "ABSENT"
    BY DEF Init
  <2>2. \A w \in Workers : pc[w] = "idle" /\ me[w] = NoLocal
    BY DEF Init
  <2>3. NoLocal.attempt = 1 /\ NoLocal.cursor = 0 /\ NoLocal.epoch = 0 /\ ~NoLocal.resuming
    BY DEF NoLocal
  <2>4. \A w \in Workers : Att(w) = 1 /\ Cur(w) = 1
    BY <2>2, <2>3 DEF Att, Cur
  <2>5. \A s \in Steps, a \in Attempts : ledger[s][a] = "NONE"
    BY DEF Init, NoRows
  <2>6. \A s \in Steps, a \in Attempts, w \in Workers : request[s][a][w] = "none"
    BY DEF Init
  <2> QED
    BY <2>1, <2>2, <2>3, <2>4, <2>5, <2>6
<1>3. \A w \in Workers : ~Holding(w) /\ ~Calling(w) /\ ~Before(w) /\ ~Inserting(w)
  BY <1>2 DEF Holding, Calling, Before, Inserting
<1>4. Epochs
  BY <1>2 DEF Epochs, Workers, RecoverOnlyPC
<1>5. NothingYet /\ ViewIsCurrent /\ ShadowSendsNothing /\ QueriesAreAllowed /\ FailureIsDefinite
  BY <1>2 DEF NothingYet, ViewIsCurrent, ShadowSendsNothing, QueriesAreAllowed,
              FailureIsDefinite, Workers
<1>6. NoGaps
  BY <1>2 DEF NoGaps, HasRow, Attempts
<1>7. OwnersHaveRows /\ Unsent
  BY <1>2, <1>3 DEF OwnersHaveRows, Unsent
<1>8. OneOwner /\ FailedIsCold /\ LastIsHot /\ RetriesAreCold
  BY <1>2, <1>3 DEF OneOwner, FailedIsCold, LastIsHot, RetriesAreCold, Owns, Hot, Retrying
<1> QED
  BY <1>1, <1>4, <1>5, <1>6, <1>7, <1>8 DEF IInv, Control, Ownership

LEMMA IInvStep ==
  ASSUME IInv, OneRecoverer, ProvidersReport, [Next]_vars
  PROVE  IInv'
<1>1. TypeOK'
  BY TypeStep DEF IInv, Control
<1> QED
  BY <1>1, ControlKept, OwnershipNextStep DEF IInv

LEMMA AtMostOneHot ==
  ASSUME IInv
  PROVE  NonIdempotentAtMostOnce
<1> SUFFICES ASSUME NEW s \in Steps, NonIdempotent(s), NEW x \in Effects(s), NEW y \in Effects(s)
             PROVE  x = y
  BY DEF NonIdempotentAtMostOnce, NonIdempotent
<1>1. PICK a \in Attempts, v \in Workers : x = <<a, v>> /\ request[s][a][v] = "applied"
  BY DEF Effects
<1>2. PICK b \in Attempts, w \in Workers : y = <<b, w>> /\ request[s][b][w] = "applied"
  BY DEF Effects
<1>3. Hot(v, s, a) /\ Hot(w, s, b)
  BY <1>1, <1>2 DEF Hot
<1>4. HasRow(ledger, s, a) /\ HasRow(ledger, s, b)
  BY <1>1, <1>2 DEF IInv, Ownership, OwnersHaveRows
<1>5. ~(a < b) /\ ~(b < a)
  BY <1>3, <1>4 DEF IInv, Ownership, LastIsHot
<1>6. a = b
  BY <1>5 DEF Attempts
<1>7. v = w
  BY <1>3, <1>6, HotOwns DEF IInv, Ownership, OneOwner
<1> QED
  BY <1>1, <1>2, <1>6, <1>7

\* With one recovery loop, and providers that report a timeout as what it is, a tool that can
\* neither deduplicate nor be queried acts at most once per step, for every number of
\* requests, steps, attempts, crashes and lapsed leases (runtime.go runSteps and Recover,
\* planner.go, the fences and the unique index of skill_execution_repository.go).
THEOREM AtMostOnce ==
  ASSUME OneRecoverer, ProvidersReport
  PROVE  Spec => []NonIdempotentAtMostOnce
<1>1. IInv /\ [Next]_vars => IInv'
  BY IInvStep
<1> QED
  BY <1>1, IInvInit, AtMostOneHot, PTL DEF Spec


-----------------------------------------------------------------------------
(***************************************************************************)
(* Part 4.  Every step keeps the progress.                                 *)
(***************************************************************************)

(* The ledger.  A step of the specification leaves it alone or writes one row. *)

OnlyRow(s0, a0, st) ==
  /\ s0 \in Steps /\ a0 \in Attempts /\ ledger'[s0][a0] = st
  /\ \A s \in Steps, a \in Attempts : s # s0 \/ a # a0 => ledger'[s][a] = ledger[s][a]

\* The worker records what became of its attempt.
Records(m, s0, a0, st) ==
  /\ Holding(m) /\ s0 = Cur(m) /\ a0 = Att(m)
  /\ \/ pc[m] = "mark" /\ st = "RUNNING"
     \/ pc[m] = "saveOK" /\ st = (IF Live THEN "SUCCEEDED" ELSE "SHADOWED")
     \/ pc[m] = "saveFailed" /\ st = "FAILED"
     \/ pc[m] = "saveUnknown" /\ st = "UNKNOWN_OUTCOME"
     \/ pc[m] = "applied" /\ st = "SUCCEEDED"

\* It inserts a row for an attempt, or for one whose arguments do not evaluate.
Creates(m, s0, a0, st) ==
  /\ pc[m] = "step" /\ s0 = Cur(m) /\ a0 = Att(m) /\ s0 <= skill.limit
  /\ ledger[s0][a0] = "NONE"
  /\ (Kind(s0) = "CALL" /\ st = "PENDING") \/ (Kind(s0) = "BAD_ARGS" /\ st = "FAILED")

Skips(m, s0, a0, st) ==
  /\ pc[m] = "step" /\ s0 = Cur(m) /\ a0 = 1 /\ s0 <= skill.limit
  /\ Kind(s0) = "SKIP" /\ st = "SKIPPED"

\* The recovery loop marks an attempt it found running.
Sweeps(m, s0, a0, st) ==
  m \in Recoverers /\ pc[m] = "sweep" /\ ledger[s0][a0] = "RUNNING" /\ st = "UNKNOWN_OUTCOME"

Writes(m, s0, a0, st) ==
  /\ Fenced(m) /\ OnlyRow(s0, a0, st)
  /\ \/ Records(m, s0, a0, st) \/ Creates(m, s0, a0, st)
     \/ Skips(m, s0, a0, st) \/ Sweeps(m, s0, a0, st)

\* What every write leaves as it is.
RowsKept(m) ==
  /\ \A s \in Steps : Over(s) => Over(s)'
  /\ \A s \in Steps, a \in Attempts : HasRow(ledger, s, a) => HasRow(ledger', s, a)
  /\ \A x \in Workers \ {m} : Engaged(x) =>
       \A a \in Attempts : ledger'[Cur(x)][a] = ledger[Cur(x)][a]
  /\ \A s \in Steps : Over(s)' /\ Kind(s) = "CALL" =>
       \/ Over(s)
       \/ /\ Fenced(m) /\ Holding(m) /\ s = Cur(m)
          /\ ledger'[s][Att(m)] \in {"SUCCEEDED", "SHADOWED", "FAILED"}

LEMMA StepOver ==
  ASSUME IInv, NEW s \in Steps, Over(s)
  PROVE  HasRow(ledger, s, 1) /\ 1 \in Attempts
<1>1. PICK a \in Attempts : HasRow(ledger, s, a)
  BY DEF Over, IsLast, Attempts
<1>2. 1 \in Attempts /\ (a = 1 \/ 1 < a)
  BY BoundsAssumption DEF Attempts
<1> QED
  BY <1>1, <1>2 DEF IInv, Ownership, NoGaps

\* Whoever is engaged in a step has its first row, unless it retries one without a row.
LEMMA EngagedHasRow ==
  ASSUME IInv, PInv, NEW x \in Workers, Engaged(x)
  PROVE  /\ Cur(x) \in Steps /\ 1 \in Attempts /\ HasRow(ledger, Cur(x), 1)
         /\ Kind(Cur(x)) \in {"CALL", "BAD_ARGS"}
<1>0. Att(x) \in Nat \ {0}
  BY LocalTypes DEF Att, IInv, Control
<1>1. CASE Holding(x)
  <2>1. Cur(x) \in Steps /\ Att(x) \in Attempts /\ HasRow(ledger, Cur(x), Att(x))
    BY <1>1 DEF IInv, Ownership, OwnersHaveRows
  <2>2. 1 \in Attempts /\ (Att(x) = 1 \/ 1 < Att(x))
    BY <2>1, BoundsAssumption DEF Attempts
  <2> QED
    BY <1>1, <2>1, <2>2 DEF IInv, Ownership, NoGaps, PInv, Rows, WorkerKinds
<1>2. CASE Inserting(x) /\ Att(x) > 1
  <2>1. Cur(x) \in Steps /\ Kind(Cur(x)) \in {"CALL", "BAD_ARGS"}
    BY <1>2 DEF PInv, Rows, WorkerKinds
  <2>2. 1 \in Attempts /\ 1 < Att(x)
    BY <1>0, <1>2, BoundsAssumption DEF Attempts, PInv, Rows
  <2> QED
    BY <2>1, <2>2 DEF IInv, Ownership, NoGaps
<1> QED
  BY <1>1, <1>2 DEF Engaged

LEMMA EngagedHolds ==
  ASSUME NEW x, Engaged(x) \/ Ending(x)
  PROVE  Holds(x)
BY DEF Engaged, Ending, Holds, Holding, Before, Calling, Inserting

LEMMA RecordsEngaged ==
  ASSUME IInv, PInv, NEW m \in Workers, Fenced(m), Holding(m)
  PROVE  /\ Engaged(m) /\ Kind(Cur(m)) = "CALL" /\ Cur(m) \in Steps /\ ~Over(Cur(m))
         /\ \A b \in Attempts : Att(m) < b => ~HasRow(ledger, Cur(m), b)
<1>1. Engaged(m) /\ Kind(Cur(m)) = "CALL" /\ Cur(m) \in Steps
  BY DEF Engaged, PInv, Rows, WorkerKinds, IInv, Ownership, OwnersHaveRows
<1>2. ~Over(Cur(m))
  BY <1>1 DEF PInv, Progress, OverIsLeft
<1>3. \A b \in Attempts : Att(m) < b => ~HasRow(ledger, Cur(m), b)
  BY <1>1 DEF PInv, Rows, HeldRows
<1> QED
  BY <1>1, <1>2, <1>3

\* A new attempt of a call: nobody has passed the step.
LEMMA CreatesAhead ==
  ASSUME IInv, PInv, NEW m \in Workers, Fenced(m), NEW s0 \in Steps, NEW a0 \in Attempts, NEW st,
         Creates(m, s0, a0, st)
  PROVE  /\ Kind(s0) = "CALL" => ~Over(s0)
         /\ \A b \in Attempts : a0 < b => ~HasRow(ledger, s0, b)
         /\ a0 > 1 => Engaged(m)
         /\ a0 = 1 => ~HasRow(ledger, s0, 1)
<1>1. a0 > 1 => Engaged(m)
  BY DEF Creates, Engaged, Inserting
<1>2. a0 = 1 => ~HasRow(ledger, s0, 1)
  BY DEF Creates, HasRow
<1>3. \A b \in Attempts : a0 < b => ~HasRow(ledger, s0, b)
  BY DEF Creates, HasRow, IInv, Ownership, NoGaps
<1>4. ASSUME Kind(s0) = "CALL", Over(s0) PROVE FALSE
  <2>1. HasRow(ledger, s0, 1)
    BY <1>4, StepOver
  <2>2. a0 > 1
    BY <1>2, <2>1, BoundsAssumption DEF Attempts
  <2> QED
    BY <1>1, <1>4, <2>2 DEF Creates, PInv, Progress, OverIsLeft
<1> QED
  BY <1>1, <1>2, <1>3, <1>4

LEMMA OverFrom ==
  ASSUME NEW s \in Steps, NEW a \in Attempts, IsLast(ledger, s, a)',
         ledger'[s][a] \in Done \/
           (/\ ledger'[s][a] = "FAILED" /\ skill.step[s].onError = "continue"
            /\ Kind(s) = "BAD_ARGS" \/ a >= skill.step[s].tries),
         skill' = skill
  PROVE  Over(s)'
BY DEF Over, Kind

LEMMA OverWritten ==
  ASSUME IInv, PInv, NEW m \in Workers, NEW s0, NEW a0, NEW st, Writes(m, s0, a0, st),
         skill' = skill, NEW s \in Steps, Over(s)
  PROVE  Over(s)'
<1> s0 \in Steps /\ a0 \in Attempts /\ OnlyRow(s0, a0, st) /\ Fenced(m)
  BY DEF Writes, OnlyRow
<1>1. PICK a \in Attempts :
        /\ IsLast(ledger, s, a)
        /\ \/ ledger[s][a] \in Done
           \/ /\ ledger[s][a] = "FAILED" /\ skill.step[s].onError = "continue"
              /\ Kind(s) = "BAD_ARGS" \/ a >= skill.step[s].tries
  BY DEF Over
<1>2. CASE s # s0
  <2>1. \A b \in Attempts : ledger'[s][b] = ledger[s][b]
    BY <1>2 DEF OnlyRow
  <2>2. IsLast(ledger, s, a)'
    BY <1>1, <2>1 DEF IsLast, HasRow
  <2> QED
    BY <1>1, <2>1, <2>2, OverFrom
<1>3. CASE s = s0 /\ Records(m, s0, a0, st)
  BY <1>3, RecordsEngaged DEF Records
<1>4. CASE s = s0 /\ Creates(m, s0, a0, st)
  <2>1. Kind(s) = "BAD_ARGS" /\ st = "FAILED"
    BY <1>4, CreatesAhead DEF Creates
  <2>2. skill.step[s].onError = "continue"
    BY <1>1, <2>1 DEF Done, PInv, Rows, RowKinds
  <2>3. IsLast(ledger, s, a0)'
    BY <1>4, CreatesAhead DEF IsLast, HasRow, OnlyRow, Creates, Attempts
  <2> QED
    BY <1>4, <2>1, <2>2, <2>3, OverFrom DEF OnlyRow
<1>5. CASE s = s0 /\ Skips(m, s0, a0, st)
  <2>1. \A b \in Attempts : b > 1 => ledger[s][b] = "NONE"
    BY <1>5 DEF Skips, PInv, Rows, RowKinds
  <2>2. IsLast(ledger, s, a0)' /\ ledger'[s][a0] = "SKIPPED"
    BY <1>5, <2>1 DEF IsLast, HasRow, OnlyRow, Skips, Attempts
  <2> QED
    BY <2>2, OverFrom DEF Done
<1>6. CASE s = s0 /\ Sweeps(m, s0, a0, st)
  <2>1. a # a0
    BY <1>1, <1>6 DEF Sweeps, Done
  <2>2. ledger'[s][a] = ledger[s][a] /\ IsLast(ledger, s, a)'
    BY <1>1, <1>6, <2>1 DEF IsLast, HasRow, OnlyRow, Sweeps
  <2> QED
    BY <1>1, <2>2, OverFrom
<1> QED
  BY <1>2, <1>3, <1>4, <1>5, <1>6 DEF Writes

\* A call comes to be over when its outcome is recorded.
LEMMA NewlyOver ==
  ASSUME IInv, PInv, NEW m \in Workers, NEW s0, NEW a0, NEW st, Writes(m, s0, a0, st),
         skill' = skill, NEW s \in Steps, Over(s)', Kind(s) = "CALL", ~Over(s)
  PROVE  Holding(m) /\ s = Cur(m) /\ ledger'[s][Att(m)] \in {"SUCCEEDED", "SHADOWED", "FAILED"}
<1> s0 \in Steps /\ a0 \in Attempts /\ OnlyRow(s0, a0, st) /\ Fenced(m)
  BY DEF Writes, OnlyRow
<1>1. PICK a \in Attempts :
        /\ IsLast(ledger, s, a)'
        /\ \/ ledger'[s][a] \in Done
           \/ /\ ledger'[s][a] = "FAILED" /\ skill.step[s].onError = "continue"
              /\ Kind(s) = "BAD_ARGS" \/ a >= skill.step[s].tries
  BY DEF Over, Kind
<1>2. CASE s # s0 \/ Sweeps(m, s0, a0, st)
  <2>1. \A b \in Attempts : HasRow(ledger', s, b) <=> HasRow(ledger, s, b)
    BY <1>2 DEF OnlyRow, Sweeps, HasRow
  <2>2. ledger'[s][a] = ledger[s][a]
    BY <1>1, <1>2 DEF OnlyRow, Sweeps, Done
  <2>3. IsLast(ledger, s, a)
    BY <1>1, <2>1 DEF IsLast, HasRow
  <2>4. Over(s)
    BY <1>1, <2>2, <2>3 DEF Over
  <2> QED
    BY <2>4
<1>3. CASE s = s0 /\ Skips(m, s0, a0, st)
  BY <1>3 DEF Skips
<1>4. CASE s = s0 /\ Creates(m, s0, a0, st)
  <2>1. IsLast(ledger, s, a0)' /\ ledger'[s][a0] = "PENDING"
    BY <1>4, CreatesAhead DEF IsLast, HasRow, OnlyRow, Creates, Attempts
  <2>2. a = a0
    BY <1>1, <2>1 DEF IsLast, Attempts
  <2> QED
    BY <1>1, <2>1, <2>2 DEF Done
<1>5. CASE s = s0 /\ Records(m, s0, a0, st)
  <2>1. IsLast(ledger, s, a0)'
    <3>1. \A b \in Attempts : a0 < b => ~HasRow(ledger', s, b)
      BY <1>5, RecordsEngaged DEF Records, OnlyRow, HasRow, Attempts
    <3>2. HasRow(ledger', s, a0)
      BY <1>5 DEF Records, OnlyRow, HasRow
    <3> QED
      BY <3>1, <3>2 DEF IsLast, HasRow, Attempts
  <2>2. a = a0
    BY <1>1, <2>1 DEF IsLast, Attempts
  <2> QED
    BY <1>1, <1>5, <2>2 DEF Done, Records, OnlyRow
<1> QED
  BY <1>2, <1>3, <1>4, <1>5 DEF Writes

\* The rows of a step that another worker is engaged in are left alone.
LEMMA OthersRows ==
  ASSUME IInv, PInv, OneRecoverer, NEW m \in Workers, NEW s0, NEW a0, NEW st,
         Writes(m, s0, a0, st), NEW x \in Workers \ {m}, Engaged(x), NEW a \in Attempts
  PROVE  ledger'[Cur(x)][a] = ledger[Cur(x)][a]
<1> s0 \in Steps /\ a0 \in Attempts /\ OnlyRow(s0, a0, st) /\ Fenced(m)
  BY DEF Writes, OnlyRow
<1>1. Cur(x) \in Steps /\ HasRow(ledger, Cur(x), 1) /\ Kind(Cur(x)) # "SKIP" /\ Fenced(x)
  BY EngagedHasRow DEF Engaged
<1>2. ~Engaged(m)
  BY EngagedHolds DEF PInv, Progress, OneEngaged
<1>3. CASE Records(m, s0, a0, st)
  BY <1>2, <1>3, RecordsEngaged DEF Records
<1>4. CASE Creates(m, s0, a0, st)
  <2>1. a0 = 1 /\ ~HasRow(ledger, s0, 1)
    BY <1>2, <1>4, CreatesAhead DEF Attempts
  <2> QED
    BY <1>1, <2>1 DEF OnlyRow
<1>5. CASE Skips(m, s0, a0, st)
  BY <1>1, <1>5 DEF Skips, OnlyRow
<1>6. CASE Sweeps(m, s0, a0, st)
  BY <1>1, <1>6, AloneInRecovery DEF Sweeps
<1> QED
  BY <1>3, <1>4, <1>5, <1>6 DEF Writes

LEMMA RowsKeptBy ==
  ASSUME IInv, PInv, OneRecoverer, NEW m \in Workers, skill' = skill,
         ledger' = ledger \/ \E s0, a0, st : Writes(m, s0, a0, st)
  PROVE  RowsKept(m)
<1>1. CASE ledger' = ledger
  <2>1. \A s \in Steps : Over(s)' <=> Over(s)
    BY <1>1 DEF Over, IsLast, HasRow, Kind
  <2> QED
    BY <1>1, <2>1 DEF RowsKept
<1>2. ASSUME NEW s0, NEW a0, NEW st, Writes(m, s0, a0, st)
      PROVE  RowsKept(m)
  <2>1. \A s \in Steps, a \in Attempts : HasRow(ledger, s, a) => HasRow(ledger', s, a)
    BY <1>2 DEF Writes, OnlyRow, Records, Creates, Skips, Sweeps, HasRow
  <2>2. Fenced(m)
    BY <1>2 DEF Writes
  <2> QED
    BY <1>2, <2>1, <2>2, OverWritten, NewlyOver, OthersRows DEF RowsKept
<1> QED
  BY <1>1, <1>2

LEMMA RowKindsKept ==
  ASSUME IInv, PInv, NEW m \in Workers, skill' = skill,
         ledger' = ledger \/ \E s0, a0, st : Writes(m, s0, a0, st)
  PROVE  RowKinds'
<1>1. CASE ledger' = ledger
  BY <1>1 DEF RowKinds, HasRow, Kind, Live, PInv, Rows
<1>2. ASSUME NEW s0, NEW a0, NEW st, Writes(m, s0, a0, st)
      PROVE  RowKinds'
  <2> s0 \in Steps /\ a0 \in Attempts /\ OnlyRow(s0, a0, st) /\ Fenced(m)
    BY <1>2 DEF Writes, OnlyRow
  <2>1. /\ s0 <= skill.limit /\ Kind(s0) # "BAD_WHEN"
        /\ Kind(s0) = "SKIP" => st = "SKIPPED" /\ a0 = 1
        /\ Kind(s0) = "BAD_ARGS" => st = "FAILED"
        /\ Kind(s0) = "CALL" => st # "SKIPPED"
        /\ Live => st # "SHADOWED"
    <3>1. CASE Records(m, s0, a0, st)
      <4>1. Kind(s0) = "CALL" /\ HasRow(ledger, s0, a0)
        BY <3>1, RecordsEngaged DEF Records, IInv, Ownership, OwnersHaveRows
      <4> QED
        BY <3>1, <4>1 DEF Records, PInv, Rows, RowKinds
    <3>2. CASE Creates(m, s0, a0, st) \/ Skips(m, s0, a0, st)
      BY <3>2 DEF Creates, Skips
    <3>3. CASE Sweeps(m, s0, a0, st)
      BY <3>3 DEF Sweeps, PInv, Rows, RowKinds, HasRow
    <3> QED
      BY <1>2, <3>1, <3>2, <3>3 DEF Writes
  <2>2. \A s \in Steps, a \in Attempts :
          /\ HasRow(ledger', s, a) => s <= skill.limit /\ Kind(s) # "BAD_WHEN"
          /\ Kind(s) = "SKIP" =>
               ledger'[s][a] \in {"NONE", "SKIPPED"} /\ (a > 1 => ledger'[s][a] = "NONE")
          /\ Kind(s) = "BAD_ARGS" => ledger'[s][a] \in {"NONE", "FAILED"}
          /\ Kind(s) = "CALL" => ledger'[s][a] # "SKIPPED"
          /\ Live => ledger'[s][a] # "SHADOWED"
    <3>1. TAKE s \in Steps, a \in Attempts
    <3>2. CASE s = s0 /\ a = a0
      BY <2>1, <3>2 DEF OnlyRow
    <3>3. CASE s # s0 \/ a # a0
      BY <3>3 DEF OnlyRow, PInv, Rows, RowKinds, HasRow
    <3> QED
      BY <3>2, <3>3
  <2> QED
    BY <2>2 DEF RowKinds, HasRow, Kind, Live
<1> QED
  BY <1>1, <1>2

\* A row appears only at the step of a worker, who has passed the steps before it.
LEMMA BeyondIsOverKept ==
  ASSUME IInv, PInv, OneRecoverer, NEW m \in Workers, skill' = skill,
         ledger' = ledger \/ \E s0, a0, st : Writes(m, s0, a0, st)
  PROVE  BeyondIsOver'
<1>1. ASSUME NEW s \in Steps, NEW t \in Steps, NEW a \in Attempts, s < t, HasRow(ledger', t, a)
      PROVE  Over(s)
  <2>1. CASE HasRow(ledger, t, a)
    BY <1>1, <2>1 DEF PInv, Progress, BeyondIsOver
  <2>2. ASSUME ~HasRow(ledger, t, a), NEW s0, NEW a0, NEW st, Writes(m, s0, a0, st)
        PROVE  Over(s)
    <3>1. t = s0 /\ a = a0
      BY <1>1, <2>2 DEF Writes, OnlyRow, HasRow
    <3>2. t = Cur(m)
      BY <2>2, <3>1 DEF Writes, Records, Creates, Skips, Sweeps, HasRow
    <3>3. s <= me[m].cursor
      BY <1>1, <3>2, LocalTypes DEF Cur, IInv, Control, Steps
    <3> QED
      BY <3>3 DEF PInv, Progress, Passed
  <2> QED
    BY <1>1, <2>1, <2>2
<1>2. \A s \in Steps : Over(s) => Over(s)'
  BY RowsKeptBy DEF RowsKept
<1> QED
  BY <1>1, <1>2 DEF BeyondIsOver, HasRow

LEMMA OnlyRowWritten ==
  ASSUME TypeOK, NEW s0 \in Steps, NEW a0 \in Attempts, NEW st,
         ledger' = [ledger EXCEPT ![s0][a0] = st]
  PROVE  OnlyRow(s0, a0, st)
BY DEF OnlyRow, TypeOK, Ledger

\* Each step of a worker writes one row or none.
LEMMA WorkerWrites ==
  ASSUME IInv, PInv, NEW m \in Workers, WorkerStep(m)
  PROVE  ledger' = ledger \/ \E s0, a0, st : Writes(m, s0, a0, st)
<1> TypeOK
  BY DEF IInv, Control
<1>1. ASSUME NEW st, Records(m, Cur(m), Att(m), st), WriteRow(m, st)
      PROVE  Writes(m, Cur(m), Att(m), st)
  <2>1. Cur(m) \in Steps /\ Att(m) \in Attempts
    BY <1>1 DEF Records, IInv, Ownership, OwnersHaveRows
  <2>2. OnlyRow(Cur(m), Att(m), st) /\ Fenced(m)
    BY <1>1, <2>1, OnlyRowWritten DEF WriteRow, FencedStep, Fenced
  <2> QED
    BY <1>1, <2>2 DEF Writes
<1>2. CASE CreateAttempt(m) \/ BadArgs(m)
  <2>1. PICK st \in {"PENDING", "FAILED"} :
          /\ WriteRow(m, st)
          /\ \/ Kind(Cur(m)) = "CALL" /\ st = "PENDING"
             \/ Kind(Cur(m)) = "BAD_ARGS" /\ st = "FAILED"
    BY <1>2 DEF CreateAttempt, BadArgs, AtStep, Kind, Step
  <2>2. /\ Cur(m) \in Steps /\ Att(m) \in Attempts /\ pc[m] = "step"
        /\ ledger[Cur(m)][Att(m)] = "NONE" /\ me[m].cursor < skill.limit
    BY <1>2, CurrentStep DEF CreateAttempt, BadArgs, AtStep
  <2>3. Cur(m) <= skill.limit
    BY <2>2, LocalTypes DEF Cur, TypeOK, SkillSpec
  <2>4. OnlyRow(Cur(m), Att(m), st) /\ Fenced(m)
    BY <2>1, <2>2, OnlyRowWritten DEF WriteRow, FencedStep, Fenced
  <2> QED
    BY <2>1, <2>2, <2>3, <2>4 DEF Writes, Creates
<1>3. CASE Skip(m)
  <2>1. Cur(m) \in Steps /\ pc[m] = "step" /\ me[m].cursor < skill.limit /\ Kind(Cur(m)) = "SKIP"
    BY <1>3, CurrentStep DEF Skip, AtStep, Kind, Step
  <2>2. Cur(m) <= skill.limit /\ 1 \in Attempts
    BY <2>1, LocalTypes, BoundsAssumption DEF Cur, TypeOK, SkillSpec, Attempts
  <2>3. OnlyRow(Cur(m), 1, "SKIPPED") /\ Fenced(m)
    BY <1>3, <2>1, <2>2, OnlyRowWritten DEF Skip, FencedStep, Fenced
  <2> QED
    BY <2>1, <2>2, <2>3 DEF Writes, Skips
<1>4. CASE MarkUnknown(m)
  <2>1. m \in Recoverers
    BY <1>4 DEF MarkUnknown, Workers, IInv, Control, Epochs, RecoverOnlyPC, RecoverPC
  <2>2. PICK x \in SeenRunning(m) : ledger' = [ledger EXCEPT ![x[1]][x[2]] = "UNKNOWN_OUTCOME"]
    BY <1>4 DEF MarkUnknown
  <2>3. x[1] \in Steps /\ x[2] \in Attempts /\ ledger[x[1]][x[2]] = "RUNNING"
    BY <1>4, <2>1 DEF SeenRunning, MarkUnknown, IInv, Control, ViewIsCurrent
  <2>4. OnlyRow(x[1], x[2], "UNKNOWN_OUTCOME") /\ Fenced(m)
    BY <1>4, <2>2, <2>3, OnlyRowWritten DEF MarkUnknown, FencedStep, Fenced
  <2> QED
    BY <1>4, <2>1, <2>3, <2>4 DEF Writes, Sweeps, MarkUnknown
<1>5. CASE MarkRunning(m) \/ SaveOK(m) \/ SaveFailed(m) \/ SaveUnknown(m) \/ RecordApplied(m)
  <2>1. Holding(m)
    BY <1>5
    DEF MarkRunning, SaveOK, SaveFailed, SaveUnknown, RecordApplied, Holding, Before, Calling
  <2>2. skill.mode \in {"LIVE", "SHADOW"}
    BY DEF TypeOK, SkillSpec
  <2>3. \E st : WriteRow(m, st) /\ Records(m, Cur(m), Att(m), st)
    BY <1>5, <2>1, <2>2
    DEF MarkRunning, SaveOK, SaveFailed, SaveUnknown, RecordApplied, Live, Records
  <2> QED
    BY <1>1, <2>3
<1>6. CASE Lookup(m) \/ Insert(m) \/ Start(m) \/ Succeed(m) \/ BadWhen(m) \/ DuplicateAttempt(m)
  BY <1>6 DEF Lookup, Insert, Start, Succeed, BadWhen, DuplicateAttempt
<1>7. CASE Invoke(m) \/ AnswerOK(m) \/ AnswerFailed(m) \/ AnswerUnknown(m) \/ Advance(m)
  BY <1>7 DEF Invoke, AnswerOK, AnswerFailed, AnswerUnknown, Advance
<1>8. CASE Finish(m) \/ StaleLease(m) \/ List(m) \/ Claim(m) \/ Get(m)
  BY <1>8 DEF Finish, StaleLease, List, Claim, Get
<1>9. CASE Read(m) \/ Plan(m) \/ Resume(m) \/ Query(m)
  BY <1>9 DEF Read, Plan, Resume, Query
<1> QED
  BY <1>2, <1>3, <1>4, <1>5, <1>6, <1>7, <1>8, <1>9 DEF WorkerStep, RunStep, RecoverStep

-----------------------------------------------------------------------------
(* The workers.  Only the one that steps moves, and each place is entered by few actions. *)

LEMMA WorkerFrame ==
  ASSUME IInv, NEW m \in Workers, WorkerStep(m)
  PROVE  /\ skill' = skill
         /\ \A x \in Workers \ {m} :
              /\ pc'[x] = pc[x] /\ me'[x] = me[x]
              /\ \A s \in Steps, a \in Attempts : request'[s][a][x] = request[s][a][x]
         /\ request' = request \/ Invoke(m)
<1> pc \in [Workers -> PCs] /\ me \in [Workers -> Local]
    /\ request \in [Steps -> [Attempts -> [Workers -> Request]]]
  BY DEF IInv, Control, TypeOK
<1> USE DEF Goto, NextStep, Return
<1>1. CASE Lookup(m) \/ Insert(m) \/ Start(m) \/ Succeed(m) \/ Skip(m) \/ BadWhen(m) \/ BadArgs(m)
  BY <1>1 DEF Lookup, Insert, Start, Succeed, Skip, BadWhen, BadArgs
<1>2. CASE CreateAttempt(m) \/ DuplicateAttempt(m) \/ MarkRunning(m) \/ AnswerOK(m)
  BY <1>2 DEF CreateAttempt, DuplicateAttempt, MarkRunning, AnswerOK
<1>3. CASE AnswerFailed(m) \/ AnswerUnknown(m) \/ SaveOK(m) \/ SaveFailed(m) \/ SaveUnknown(m)
  <2>1. me' = me \/ Retry(m) \/ \E p : NextStep(m, p)
    BY <1>3, Zenon DEF AnswerFailed, AnswerUnknown, SaveOK, SaveFailed, SaveUnknown, Retry
  <2>2. \A x \in Workers \ {m} : me'[x] = me[x]
    BY <2>1, RetryEffect, NextStepEffect DEF IInv, Control
  <2>3. \A x \in Workers \ {m} : pc'[x] = pc[x]
    BY <1>3 DEF AnswerFailed, AnswerUnknown, SaveOK, SaveFailed, SaveUnknown
  <2> QED
    BY <1>3, <2>2, <2>3 DEF AnswerFailed, AnswerUnknown, SaveOK, SaveFailed, SaveUnknown
<1>4. CASE Advance(m) \/ Finish(m) \/ StaleLease(m) \/ List(m) \/ Claim(m) \/ Get(m)
  BY <1>4 DEF Advance, Finish, StaleLease, List, Claim, Get
<1>5. CASE Read(m) \/ MarkUnknown(m) \/ Resume(m) \/ Query(m) \/ RecordApplied(m)
  BY <1>5 DEF Read, MarkUnknown, Resume, Query, RecordApplied
<1>6. CASE Invoke(m)
  <2>1. \A x \in Workers \ {m}, s \in Steps, a \in Attempts : request'[s][a][x] = request[s][a][x]
    BY <1>6 DEF Invoke
  <2> QED
    BY <1>6, <2>1 DEF Invoke
<1>7. CASE Plan(m)
  <2>1. \E p : Goto(m, p)
    BY <1>7 DEF Plan, PlanFrom
  <2>2. \A x \in Workers \ {m} : me'[x] = me[x]
    <3>1. CASE \E p : NextStep(m, p)
      BY <3>1, NextStepEffect DEF IInv, Control
    <3>2. CASE me' = me
      BY <3>2
    <3>3. ASSUME NEW a \in Attempts, PlanFrom(m, a)
          PROVE  \A x \in Workers \ {m} : me'[x] = me[x]
      BY <3>1, <3>3 DEF PlanFrom
    <3> QED
      BY <1>7, <3>1, <3>2, <3>3 DEF Plan
  <2> QED
    BY <1>7, <2>1, <2>2 DEF Plan
<1> QED
  BY <1>1, <1>2, <1>3, <1>4, <1>5, <1>6, <1>7 DEF WorkerStep, RunStep, RecoverStep

\* The actions by the place they lead to.
LEMMA WhereFrom ==
  ASSUME IInv, NEW m \in Workers, WorkerStep(m)
  PROVE  /\ pc'[m] = "step" => Start(m) \/ AnswerFailed(m) \/ SaveUnknown(m) \/ Advance(m)
         /\ pc'[m] = "advance" => Skip(m) \/ BadArgs(m) \/ SaveOK(m) \/ SaveFailed(m)
         /\ pc'[m] = "start" => Insert(m) \/ SaveUnknown(m) \/ Resume(m)
         /\ pc'[m] = "mark" => CreateAttempt(m) \/ Resume(m)
         /\ pc'[m] = "invoke" => MarkRunning(m)
         /\ pc'[m] = "await" => Invoke(m)
         /\ pc'[m] = "saveOK" => AnswerOK(m)
         /\ pc'[m] = "saveFailed" => AnswerFailed(m)
         /\ pc'[m] = "saveUnknown" => AnswerUnknown(m)
         /\ pc'[m] = "fail" =>
              Start(m) \/ BadWhen(m) \/ BadArgs(m) \/ SaveFailed(m) \/ Plan(m)
         /\ pc'[m] = "manual" => SaveUnknown(m) \/ Plan(m) \/ Query(m)
         /\ pc'[m] = "persist" => SaveOK(m) \/ Plan(m) \/ Query(m) \/ RecordApplied(m)
         /\ pc'[m] = "query" => Plan(m)
         /\ pc'[m] = "applied" => Query(m)
         /\ pc'[m] = "read" => Get(m)
         /\ pc'[m] = "sweep" => Read(m) \/ MarkUnknown(m)
<1> pc \in [Workers -> PCs]
  BY DEF IInv, Control, TypeOK
<1> USE DEF Goto, NextStep, Return
<1>1. CASE Lookup(m) \/ Insert(m) \/ Start(m) \/ Succeed(m) \/ Skip(m) \/ BadWhen(m) \/ BadArgs(m)
  BY <1>1 DEF Lookup, Insert, Start, Succeed, Skip, BadWhen, BadArgs
<1>2. CASE CreateAttempt(m) \/ DuplicateAttempt(m) \/ MarkRunning(m) \/ Invoke(m) \/ AnswerOK(m)
  BY <1>2 DEF CreateAttempt, DuplicateAttempt, MarkRunning, Invoke, AnswerOK
<1>3. CASE AnswerFailed(m) \/ AnswerUnknown(m) \/ SaveOK(m) \/ SaveFailed(m) \/ SaveUnknown(m)
  BY <1>3 DEF AnswerFailed, AnswerUnknown, SaveOK, SaveFailed, SaveUnknown
<1>4. CASE Advance(m) \/ Finish(m) \/ StaleLease(m) \/ List(m) \/ Claim(m) \/ Get(m)
  BY <1>4 DEF Advance, Finish, StaleLease, List, Claim, Get
<1>5. CASE Read(m) \/ MarkUnknown(m) \/ Resume(m) \/ Query(m) \/ RecordApplied(m)
  BY <1>5 DEF Read, MarkUnknown, Resume, Query, RecordApplied
<1>6. CASE Plan(m)
  BY <1>6 DEF Plan, PlanFrom
<1> QED
  BY <1>1, <1>2, <1>3, <1>4, <1>5, <1>6 DEF WorkerStep, RunStep, RecoverStep

\* How a step of a worker changes the row of the execution.
LEMMA ExecFrom ==
  ASSUME IInv, NEW m \in Workers, WorkerStep(m)
  PROVE  \/ exec' = exec
         \/ /\ Insert(m) /\ exec.status = "ABSENT"
            /\ exec.status' = "PENDING" /\ exec.cursor' = exec.cursor
         \/ /\ Claim(m) /\ exec.status = "RUNNING" /\ exec.epoch' = exec.epoch + 1
            /\ exec.status' = "RUNNING" /\ exec.cursor' = exec.cursor
         \/ /\ exec.epoch' = exec.epoch /\ exec.cursor' = me[m].cursor
            /\ Fenced(m) /\ exec.status \in {"PENDING", "RUNNING"}
            /\ \/ Start(m) \/ Advance(m) \/ Resume(m)
               \/ Succeed(m) \/ Finish(m)
            /\ Start(m) \/ Advance(m) \/ Resume(m) => exec.status' = "RUNNING"
            /\ Succeed(m) => exec.status' = "SUCCEEDED"
            /\ Finish(m) =>
                 exec.status' = (IF pc[m] = "fail" THEN "FAILED" ELSE "NEEDS_RECONCILIATION")
<1> TypeOK /\ exec \in Exec
  BY DEF IInv, Control, TypeOK
<1>1. ASSUME NEW st, Persist(m, st)
      PROVE  /\ exec.epoch' = exec.epoch /\ exec.cursor' = me[m].cursor /\ exec.status' = st
             /\ Fenced(m) /\ exec.status \in {"PENDING", "RUNNING"}
  BY <1>1 DEF Persist, FencedExec, Fenced, Exec
<1>2. CASE Start(m) \/ Advance(m) \/ Resume(m)
  BY <1>1, <1>2 DEF Start, Advance, Resume, Succeed, Finish
<1>3. CASE Succeed(m) \/ Finish(m)
  BY <1>1, <1>3 DEF Start, Advance, Resume, Succeed, Finish
<1>4. CASE Insert(m)
  BY <1>4 DEF Insert, Exec
<1>5. CASE Claim(m)
  BY <1>5 DEF Claim, Claimable, Exec
<1>6. CASE \/ Lookup(m) \/ Skip(m) \/ BadWhen(m) \/ BadArgs(m)
           \/ CreateAttempt(m) \/ DuplicateAttempt(m)
  BY <1>6 DEF Lookup, Skip, BadWhen, BadArgs, CreateAttempt, DuplicateAttempt
<1>7. CASE MarkRunning(m) \/ Invoke(m) \/ AnswerOK(m) \/ AnswerFailed(m) \/ AnswerUnknown(m)
  BY <1>7 DEF MarkRunning, Invoke, AnswerOK, AnswerFailed, AnswerUnknown
<1>8. CASE SaveOK(m) \/ SaveFailed(m) \/ SaveUnknown(m) \/ StaleLease(m) \/ List(m) \/ Get(m)
  BY <1>8 DEF SaveOK, SaveFailed, SaveUnknown, StaleLease, List, Get
<1>9. CASE Read(m) \/ MarkUnknown(m) \/ Plan(m) \/ Query(m) \/ RecordApplied(m)
  BY <1>9 DEF Read, MarkUnknown, Plan, Query, RecordApplied
<1> QED
  BY <1>2, <1>3, <1>4, <1>5, <1>6, <1>7, <1>8, <1>9 DEF WorkerStep, RunStep, RecoverStep

\* Nobody but the worker that steps comes to hold the lease.
LEMMA HoldsFrame ==
  ASSUME IInv, OneRecoverer, NEW m \in Workers, WorkerStep(m),
         NEW x \in Workers \ {m}, Holds(x)'
  PROVE  Holds(x)
<1>1. pc'[x] = pc[x] /\ me'[x] = me[x]
  BY WorkerFrame
<1>2. CASE exec' = exec \/ exec.epoch' = exec.epoch
  BY <1>1, <1>2 DEF Holds, Fenced
<1>3. CASE exec.status = "ABSENT"
  BY <1>1, <1>3 DEF Holds, IInv, Control, NothingYet
<1>4. CASE Claim(m) /\ exec.epoch' = exec.epoch + 1 /\ exec.status = "RUNNING"
  <2>1. m \in Recoverers
    BY <1>4 DEF Claim, Workers, IInv, Control, Epochs, RecoverOnlyPC, RecoverPC
  <2>2. x \in Runners
    BY <2>1 DEF OneRecoverer, Workers
  <2>3. me[x].epoch <= 1 /\ me[x].epoch \in Nat /\ exec.epoch \in Nat /\ exec.epoch >= 1
    BY <1>4, <2>2, LocalTypes, ExecTypes DEF IInv, Control, Epochs
  <2> QED
    BY <1>1, <1>4, <2>3 DEF Holds, Fenced
<1> QED
  BY <1>2, <1>3, <1>4, ExecFrom

LEMMA WorkerRows ==
  ASSUME IInv, PInv, OneRecoverer, NEW m \in Workers, WorkerStep(m)
  PROVE  RowsKept(m) /\ RowKinds' /\ BeyondIsOver'
BY WorkerFrame, WorkerWrites, RowsKeptBy, RowKindsKept, BeyondIsOverKept

\* A worker in the middle of an attempt is where it was: the attempt exists.
LEMMA OwnAttempt ==
  ASSUME IInv, NEW w \in Workers, Holding(w)
  PROVE  Cur(w) \in Steps /\ Att(w) \in Attempts
BY DEF IInv, Ownership, OwnersHaveRows

-----------------------------------------------------------------------------
(* Truth. *)

\* What tools did stays done.
LEMMA AppliedKept ==
  ASSUME IInv, PInv, Evidence, NEW m \in Workers, WorkerStep(m), NEW s \in Steps, Applied(s)
  PROVE  Applied(s)'
<1>1. CASE request' = request
  BY <1>1 DEF Applied
<1>2. CASE Invoke(m)
  <2>1. Cur(m) \in Steps /\ Att(m) \in Attempts /\ MyRequest(m) = "none"
    BY <1>2, OwnAttempt DEF Invoke, Holding, Calling, Evidence, SendingIsFresh
  <2>2. request \in [Steps -> [Attempts -> [Workers -> Request]]]
    BY DEF IInv, Control, TypeOK
  <2>3. \A t \in Steps, a \in Attempts, w \in Workers :
          request[t][a][w] \in {"applied", "replayed"} => request'[t][a][w] = request[t][a][w]
    BY <1>2, <2>1, <2>2 DEF Invoke, MyRequest
  <2> QED
    BY <2>3 DEF Applied
<1> QED
  BY <1>1, <1>2, WorkerFrame

\* A worker that does not step keeps its place, its attempt and its request.
LEMMA Unmoved ==
  ASSUME IInv, NEW m \in Workers, WorkerStep(m), NEW x \in Workers \ {m}
  PROVE  /\ pc'[x] = pc[x] /\ Cur(x)' = Cur(x) /\ Att(x)' = Att(x)
         /\ me'[x] = me[x] /\ (Holding(x)' <=> Holding(x))
         /\ (Inserting(x)' <=> Inserting(x))
         /\ Holding(x) => MyRequest(x)' = MyRequest(x)
<1>1. pc'[x] = pc[x] /\ me'[x] = me[x]
  BY WorkerFrame
<1>2. /\ Cur(x)' = Cur(x) /\ Att(x)' = Att(x) /\ (Holding(x)' <=> Holding(x))
      /\ (Inserting(x)' <=> Inserting(x))
  BY <1>1 DEF Cur, Att, Holding, Before, Calling, Inserting
<1>3. Holding(x) => MyRequest(x)' = MyRequest(x)
  BY <1>2, WorkerFrame, OwnAttempt DEF MyRequest
<1> QED
  BY <1>1, <1>2, <1>3

LEMMA SendingIsFreshKept ==
  ASSUME IInv, PInv, Evidence, NEW m \in Workers, WorkerStep(m)
  PROVE  SendingIsFresh'
<1> SUFFICES ASSUME NEW x \in Workers, pc'[x] = "invoke"
             PROVE  MyRequest(x)' = "none"
  BY DEF SendingIsFresh
<1>1. CASE x # m
  BY <1>1, Unmoved DEF Evidence, SendingIsFresh, Holding, Calling
<1>2. CASE x = m
  <2>1. MarkRunning(m)
    BY <1>2, WhereFrom
  <2>2. Before(m) /\ Fenced(m) /\ Holding(m)
    BY <2>1 DEF MarkRunning, WriteRow, FencedStep, Fenced, Before, Holding
  <2>3. ledger[Cur(m)][Att(m)] = "PENDING"
    BY <2>2 DEF PInv, Rows, HeldRows
  <2>4. MyRequest(m) = "none"
    BY <2>2, <2>3, OwnAttempt DEF IInv, Ownership, Unsent, MyRequest
  <2>5. me' = me /\ request' = request
    BY <2>1 DEF MarkRunning
  <2> QED
    BY <1>2, <2>4, <2>5 DEF MyRequest, Cur, Att
<1> QED
  BY <1>1, <1>2

LEMMA AnswersAreTrueKept ==
  ASSUME IInv, PInv, Evidence, NEW m \in Workers, WorkerStep(m)
  PROVE  AnswersAreTrue'
<1> SUFFICES ASSUME NEW x \in Workers
             PROVE  /\ pc'[x] = "saveOK" /\ Live => MyRequest(x)' \in {"applied", "replayed"}
                    /\ pc'[x] = "applied" => Applied(Cur(x))'
  BY WorkerFrame DEF AnswersAreTrue, Live
<1>1. CASE x # m
  <2>1. pc[x] \in {"saveOK", "applied"} => Holding(x) /\ Cur(x) \in Steps
    BY OwnAttempt DEF Holding, Calling
  <2> QED
    BY <1>1, <2>1, Unmoved, AppliedKept DEF Evidence, AnswersAreTrue
<1>2. CASE x = m
  <2>1. CASE pc'[m] = "saveOK" /\ Live
    <3>1. AnswerOK(m)
      BY <2>1, WhereFrom
    <3>2. me' = me /\ request' = request
      BY <3>1 DEF AnswerOK
    <3> QED
      BY <1>2, <2>1, <3>1, <3>2 DEF AnswerOK, MyRequest, Cur, Att, Live
  <2>2. CASE pc'[m] = "applied"
    <3>1. Query(m) /\ Holding(m)
      BY <2>2, WhereFrom DEF Query, Holding
    <3>2. me' = me /\ request' = request /\ Applied(Cur(m))
      BY <2>2, <3>1 DEF Query, Goto, IInv, Control, TypeOK
    <3> QED
      BY <1>2, <2>2, <3>2 DEF Applied, Cur
  <2> QED
    BY <1>2, <2>1, <2>2
<1> QED
  BY <1>1, <1>2

LEMMA RefusalsAreTrueKept ==
  ASSUME IInv, PInv, Truth, EveryProviderReports, NEW m \in Workers, WorkerStep(m)
  PROVE  RefusalsAreTrue'
<1> SUFFICES ASSUME NEW x \in Workers, pc'[x] = "saveFailed"
             PROVE  MyRequest(x)' \in {"none", "refused"}
  BY DEF RefusalsAreTrue
<1>1. CASE x # m
  <2>1. pc[x] = "saveFailed" /\ Holding(x)
    BY <1>1, Unmoved DEF Holding, Calling
  <2> QED
    BY <1>1, <2>1, Unmoved DEF Truth, RefusalsAreTrue
<1>2. CASE x = m
  <2>1. AnswerFailed(m) /\ Holding(m)
    BY <1>2, WhereFrom DEF AnswerFailed, Holding, Calling
  <2>2. me' = me /\ request' = request
    BY <1>2, <2>1 DEF AnswerFailed, Goto, IInv, Control, TypeOK
  <2>3. Step(m).reports
    BY <2>1, OwnAttempt DEF EveryProviderReports, Step, IInv, Control
  <2>4. MyRequest(m) \in {"none", "refused"}
    BY <2>1, <2>3, OwnAttempt DEF AnswerFailed, MyRequest, IInv, Control, ShadowSendsNothing
  <2> QED
    BY <1>2, <2>2, <2>4 DEF MyRequest, Cur, Att
<1> QED
  BY <1>1, <1>2

LEMMA SuccessIsAppliedKept ==
  ASSUME IInv, PInv, Evidence, NEW m \in Workers, WorkerStep(m)
  PROVE  SuccessIsApplied'
<1> SUFFICES ASSUME NEW s \in Steps, NEW a \in Attempts, ledger'[s][a] = "SUCCEEDED", Live
             PROVE  Applied(s)'
  BY WorkerFrame DEF SuccessIsApplied, Live
<1>1. CASE ledger[s][a] = "SUCCEEDED"
  BY <1>1, AppliedKept DEF Evidence, SuccessIsApplied
<1>2. CASE ledger[s][a] # "SUCCEEDED"
  <2>1. PICK s0, a0, st : Writes(m, s0, a0, st)
    BY <1>2, WorkerWrites
  <2>2. s = s0 /\ a = a0 /\ st = "SUCCEEDED"
    BY <1>2, <2>1 DEF Writes, OnlyRow
  <2>3. Records(m, s, a, "SUCCEEDED") /\ s = Cur(m) /\ a = Att(m)
    BY <2>1, <2>2 DEF Writes, Records, Creates, Skips, Sweeps
  <2>4. Applied(s)
    BY <2>3 DEF Records, Evidence, AnswersAreTrue, Applied, MyRequest
  <2> QED
    BY <2>4, AppliedKept
<1> QED
  BY <1>1, <1>2

\* The row of an attempt that fails is its owner's, whose request did not act.
LEMMA FailureIsFinalKept ==
  ASSUME IInv, PInv, Truth, NEW m \in Workers, WorkerStep(m)
  PROVE  FailureIsFinal'
<1> SUFFICES ASSUME NEW s \in Steps, NEW a \in Attempts, NEW x \in Workers,
                    ledger'[s][a] = "FAILED"
             PROVE  /\ request'[s][a][x] \in {"none", "refused", "lost"}
                    /\ ~(At(x, s, a)' /\ pc'[x] = "invoke")
  BY DEF FailureIsFinal
<1>1. /\ request[s][a][x] \in {"none", "refused", "lost"}
      /\ ~(At(x, s, a) /\ pc[x] = "invoke")
  <2>1. CASE ledger[s][a] = "FAILED"
    BY <2>1 DEF Truth, FailureIsFinal
  <2>2. CASE ledger[s][a] # "FAILED"
    <3>1. PICK s0, a0, st : Writes(m, s0, a0, st)
      BY <2>2, WorkerWrites
    <3>2. s = s0 /\ a = a0 /\ st = "FAILED"
      BY <2>2, <3>1 DEF Writes, OnlyRow
    <3>3. CASE Records(m, s, a, "FAILED")
      <4>1. pc[m] = "saveFailed" /\ At(m, s, a) /\ Calling(m)
        BY <3>3 DEF Records, At, Calling
      <4>2. Owns(m, s, a)
        BY <4>1 DEF Owns
      <4>3. CASE x = m
        BY <3>3, <4>1, <4>3 DEF Records, Truth, RefusalsAreTrue, MyRequest
      <4>4. CASE x # m
        <5>1. ~Owns(x, s, a)
          BY <4>2, <4>4 DEF IInv, Ownership, OneOwner
        <5> QED
          BY <5>1 DEF Owns, Calling
      <4> QED
        BY <4>3, <4>4
    <3>4. CASE Creates(m, s, a, "FAILED")
      <4>1. ~Owns(x, s, a)
        BY <3>4, NoOwner DEF Creates, HasRow
      <4> QED
        BY <4>1 DEF Owns, Calling
    <3> QED
      BY <3>1, <3>2, <3>3, <3>4 DEF Writes, Skips, Sweeps
  <2> QED
    BY <2>1, <2>2
<1>2. CASE x # m
  BY <1>1, <1>2, Unmoved, WorkerFrame DEF At
<1>3. CASE x = m
  <2>1. ~(At(m, s, a)' /\ pc'[m] = "invoke")
    <3>1. SUFFICES ASSUME MarkRunning(m), At(m, s, a)' PROVE FALSE
      BY WhereFrom
    <3>2. Cur(m) = s /\ Att(m) = a
      BY <3>1 DEF MarkRunning, At, Cur, Att
    <3>3. ledger'[s][a] = "RUNNING"
      BY <3>1, <3>2 DEF MarkRunning, WriteRow, IInv, Control, TypeOK, Ledger
    <3> QED
      BY <3>3
  <2>2. request'[s][a][m] = request[s][a][m]
    <3>1. CASE Invoke(m)
      <4>1. request \in [Steps -> [Attempts -> [Workers -> Request]]]
        BY DEF IInv, Control, TypeOK
      <4>2. ~(Cur(m) = s /\ Att(m) = a)
        BY <1>1, <1>3, <3>1 DEF Invoke, At
      <4> QED
        BY <3>1, <4>1, <4>2 DEF Invoke
    <3> QED
      BY <3>1, WorkerFrame
  <2> QED
    BY <1>1, <1>3, <2>1, <2>2
<1> QED
  BY <1>2, <1>3

LEMMA EvidenceKept ==
  ASSUME IInv, PInv, Evidence, NEW m \in Workers, WorkerStep(m)
  PROVE  Evidence'
BY SendingIsFreshKept, AnswersAreTrueKept, SuccessIsAppliedKept DEF Evidence

LEMMA TruthKept ==
  ASSUME IInv, PInv, Truth, EveryProviderReports, NEW m \in Workers, WorkerStep(m)
  PROVE  Truth'
BY EvidenceKept, RefusalsAreTrueKept, FailureIsFinalKept DEF Truth

-----------------------------------------------------------------------------
(* What the recovery planner does, said of the ledger. *)

\* It goes back to the last attempt of the step at the cursor.
Resumes(r, a, p, n, resuming) ==
  /\ pc'[r] = p /\ me'[r].epoch = me[r].epoch /\ me'[r].cursor = me[r].cursor
  /\ me'[r].attempt = n /\ me'[r].resuming = resuming

\* The last attempt of the step at the cursor, and its status.
Found(r, a, statuses) ==
  /\ Cur(r) \in Steps /\ a \in Attempts /\ IsLast(ledger, Cur(r), a)
  /\ ledger[Cur(r)][a] \in statuses

Planned(r) ==
  \/ NextStep(r, "persist") /\ Cur(r) \notin Steps
  \/ NextStep(r, "persist") /\ Cur(r) \in Steps /\ Over(Cur(r))
  \/ pc'[r] = "persist" /\ me' = me
  \/ \E a : Found(r, a, {"PENDING"}) /\ Resumes(r, a, "persist", a, TRUE)
  \/ \E a : /\ Found(r, a, {"FAILED", "UNKNOWN_OUTCOME"}) /\ Resumes(r, a, "persist", a + 1, FALSE)
            /\ ledger[Cur(r)][a] = "FAILED" => a < Step(r).tries
  \/ \E a : /\ Found(r, a, {"FAILED"}) /\ pc'[r] = "fail" /\ me' = me
            /\ a >= Step(r).tries /\ Step(r).onError = "fail"
  \/ \E a : Found(r, a, {"UNKNOWN_OUTCOME"}) /\ Resumes(r, a, "query", a, FALSE)
  \/ pc'[r] = "manual" /\ me' = me

LEMMA PlanIs ==
  ASSUME IInv, OneRecoverer, NEW r \in Workers, Plan(r)
  PROVE  /\ Planned(r) /\ r \in Recoverers /\ Fenced(r) /\ pc[r] = "sweep"
         /\ Att(r) = 1 /\ ~me[r].resuming
         /\ \A x \in Workers \ {r} : ~Fenced(x)
<1>1. pc[r] = "sweep" /\ Planning(r)
  BY DEF Plan, Planning
<1>2. r \in Recoverers
  BY <1>1 DEF Workers, IInv, Control, Epochs, RecoverOnlyPC, RecoverPC
<1>3. Fenced(r) /\ Att(r) = 1 /\ ~me[r].resuming /\ view[r] = ledger
  BY <1>1, <1>2 DEF IInv, Control, Epochs, Unstarted, ViewIsCurrent
<1>4. \A x \in Workers \ {r} : ~Fenced(x)
  BY <1>1, <1>2, AloneInRecovery
<1> TypeOK /\ pc \in [Workers -> PCs] /\ me[r].resuming \in BOOLEAN
  BY LocalTypes DEF IInv, Control, TypeOK
<1>5. ASSUME NextStep(r, "persist"), me[r].cursor >= NSteps
      PROVE  Planned(r)
  <2>1. Cur(r) \notin Steps
    BY <1>5, LocalTypes, BoundsAssumption DEF Cur, Steps
  <2> QED
    BY <1>5, <2>1, Zenon DEF Planned
<1>6. ASSUME Goto(r, "persist"), UNCHANGED me
      PROVE  Planned(r)
  <2>1. pc'[r] = "persist"
    BY <1>6 DEF Goto
  <2> QED
    BY <1>6, <2>1, Zenon DEF Planned
<1>7. ASSUME NEW a \in Attempts, me[r].cursor < NSteps, IsLast(ledger, Cur(r), a), PlanFrom(r, a)
      PROVE  Planned(r)
  <2> DEFINE status == ledger[Cur(r)][a]
  <2>1. Cur(r) \in Steps /\ a \in Nat \ {0} /\ a + 1 \in Nat \ {0}
    BY <1>7, LocalTypes, BoundsAssumption DEF Cur, Steps, Attempts
  <2>2. ASSUME NEW n \in Nat \ {0}, NEW p, NEW b \in BOOLEAN, Goto(r, p),
               \/ me' = [me EXCEPT ![r].attempt = n, ![r].resuming = b]
               \/ me' = [me EXCEPT ![r].attempt = n] /\ me[r].resuming = b
        PROVE  Resumes(r, a, p, n, b)
    <3>1. pc'[r] = p
      BY <2>2 DEF Goto
    <3> QED
      BY <2>2, <3>1, SetAttempt, Zenon DEF Resumes
  <2>3. me[r].resuming = FALSE
    BY <1>3
  <2>4. CASE /\ \/ status \in Done
                \/ status = "FAILED" /\ a >= Step(r).tries /\ Step(r).onError = "continue"
             /\ NextStep(r, "persist")
    BY <1>7, <2>1, <2>4 DEF Planned, Over, Step
  <2>5. CASE /\ status = "PENDING" /\ Goto(r, "persist")
             /\ me' = [me EXCEPT ![r].attempt = a, ![r].resuming = TRUE]
    <3>1. Resumes(r, a, "persist", a, TRUE)
      BY <2>1, <2>2, <2>5, Constants, Zenon
    <3>2. Found(r, a, {"PENDING"})
      BY <1>7, <2>1, <2>5 DEF Found
    <3> QED
      BY <3>1, <3>2 DEF Planned
  <2>6. CASE /\ \/ status = "FAILED" /\ a < Step(r).tries
                \/ status = "UNKNOWN_OUTCOME" /\ MayResend(Step(r).cap)
             /\ Goto(r, "persist") /\ me' = [me EXCEPT ![r].attempt = a + 1]
    <3>1. Resumes(r, a, "persist", a + 1, FALSE)
      BY <2>1, <2>2, <2>3, <2>6, Constants, Zenon
    <3>2. Found(r, a, {"FAILED", "UNKNOWN_OUTCOME"}) /\ (status = "FAILED" => a < Step(r).tries)
      BY <1>7, <2>1, <2>6 DEF Found
    <3> QED
      BY <3>1, <3>2 DEF Planned
  <2>7. CASE /\ status = "FAILED" /\ a >= Step(r).tries /\ Step(r).onError = "fail"
             /\ Goto(r, "fail") /\ UNCHANGED me
    BY <1>7, <2>1, <2>7 DEF Planned, Found, Goto
  <2>8. CASE /\ status = "UNKNOWN_OUTCOME" /\ Goto(r, "query")
             /\ me' = [me EXCEPT ![r].attempt = a]
    <3>1. Resumes(r, a, "query", a, FALSE)
      BY <2>1, <2>2, <2>3, <2>8, Constants, Zenon
    <3>2. Found(r, a, {"UNKNOWN_OUTCOME"})
      BY <1>7, <2>1, <2>8 DEF Found
    <3> QED
      BY <3>1, <3>2 DEF Planned
  <2>9. CASE Goto(r, "manual") /\ UNCHANGED me
    BY <2>9 DEF Planned, Goto
  <2>10. view[r][Cur(r)][a] = status
    BY <1>3
  <2> QED
    BY <1>7, <2>4, <2>5, <2>6, <2>7, <2>8, <2>9, <2>10, Zenon DEF PlanFrom
<1>8. Planned(r)
  BY <1>3, <1>5, <1>6, <1>7 DEF Plan
<1> QED
  BY <1>1, <1>2, <1>3, <1>4, <1>8


\* How the worker that steps moves, by where its local copy is afterwards.
Returned(m) == pc'[m] \in {"idle", "done"} /\ me'[m].cursor = 0

Begun(m) ==
  /\ me'[m].cursor = me[m].cursor \/ me'[m].cursor = exec.cursor
  /\ me'[m].attempt = 1 /\ ~me'[m].resuming
  /\ \/ Insert(m) /\ pc[m] = "insert" /\ pc'[m] = "start"
     \/ Get(m) /\ pc[m] = "get" /\ pc'[m] = "read" /\ m \in Recoverers

PassedOn(m) ==
  /\ NextStep(m, "advance") \/ NextStep(m, "persist")
  /\ Skip(m) \/ BadArgs(m) \/ SaveOK(m) \/ SaveFailed(m) \/ RecordApplied(m) \/ Plan(m)

Retried(m) ==
  /\ AnswerFailed(m) \/ SaveUnknown(m) \/ Query(m)
  /\ me'[m].epoch = me[m].epoch /\ me'[m].cursor = me[m].cursor /\ ~me'[m].resuming
  /\ me'[m].attempt = me[m].attempt + 1 /\ pc'[m] \in {"step", "start", "persist"}
  /\ Holding(m)

Resumed(m) == Plan(m) /\ \E a, p, n, b : Resumes(m, a, p, n, b)

LEMMA Moved ==
  ASSUME IInv, OneRecoverer, NEW m \in Workers, WorkerStep(m)
  PROVE  Returned(m) \/ me' = me \/ Begun(m) \/ PassedOn(m) \/ Retried(m) \/ Resumed(m)
<1> pc \in [Workers -> PCs] /\ me \in [Workers -> Local] /\ TypeOK
  BY DEF IInv, Control, TypeOK
<1>1. ASSUME Return(m) PROVE Returned(m)
  BY <1>1 DEF Return, Goto, Returned, NoLocal
<1>2. CASE Lookup(m) \/ Succeed(m) \/ DuplicateAttempt(m) \/ Finish(m) \/ StaleLease(m)
  BY <1>1, <1>2 DEF Lookup, Succeed, DuplicateAttempt, Finish, StaleLease
<1>3. CASE Start(m) \/ BadWhen(m) \/ CreateAttempt(m) \/ MarkRunning(m) \/ Invoke(m) \/ AnswerOK(m)
  BY <1>3 DEF Start, BadWhen, CreateAttempt, MarkRunning, Invoke, AnswerOK
<1>4. CASE AnswerUnknown(m) \/ Advance(m) \/ List(m) \/ Read(m) \/ MarkUnknown(m) \/ Resume(m)
  BY <1>4 DEF AnswerUnknown, Advance, List, Read, MarkUnknown, Resume
<1>5. CASE Claim(m)
  BY <1>1, <1>5 DEF Claim
<1>6. CASE Insert(m) \/ Get(m)
  <2>1. CASE Return(m)
    BY <1>1, <2>1
  <2>2. CASE ~Return(m)
    <3>1. pc[m] \in {"insert", "get"} /\ Att(m) = 1 /\ ~me[m].resuming
      BY <1>6 DEF Insert, Get, IInv, Control, Epochs, Unstarted
    <3>2. pc[m] = "get" => m \in Recoverers
      BY DEF Workers, IInv, Control, Epochs, RecoverOnlyPC, RecoverPC
    <3> QED
      BY <1>6, <2>2, <3>1, <3>2 DEF Insert, Get, Begun, Goto, Att, Local
  <2> QED
    BY <2>1, <2>2
<1>7. CASE Skip(m) \/ BadArgs(m) \/ SaveOK(m) \/ SaveFailed(m) \/ RecordApplied(m)
  BY <1>7 DEF Skip, BadArgs, SaveOK, SaveFailed, RecordApplied, PassedOn
<1>8. ASSUME Retry(m), AnswerFailed(m) \/ SaveUnknown(m) \/ Query(m),
             pc'[m] \in {"step", "start", "persist"}
      PROVE  Retried(m)
  <2>1. Holding(m)
    BY <1>8 DEF AnswerFailed, SaveUnknown, Query, Holding, Calling
  <2> QED
    BY <1>8, <2>1, RetryEffect DEF Retried
<1>9. CASE AnswerFailed(m) \/ SaveUnknown(m) \/ Query(m)
  <2>1. CASE me' = me
    BY <2>1
  <2>2. CASE me' # me
    <3>0. pc[m] = "query" => ~me[m].resuming
      BY DEF IInv, Control, QueriesAreAllowed
    <3>1. Retry(m)
      BY <1>9, <2>2, <3>0, Zenon DEF AnswerFailed, SaveUnknown, Query, Retry
    <3>2. pc'[m] \in {"step", "start", "persist"}
      BY <1>9, <2>2 DEF AnswerFailed, SaveUnknown, Query, Goto
    <3> QED
      BY <1>8, <1>9, <3>1, <3>2
  <2> QED
    BY <2>1, <2>2
<1>10. CASE Plan(m)
  <2>1. Planned(m)
    BY <1>10, PlanIs
  <2> QED
    BY <1>10, <2>1, Zenon DEF Planned, PassedOn, Resumed
<1> QED
  BY <1>2, <1>3, <1>4, <1>5, <1>6, <1>7, <1>9, <1>10 DEF WorkerStep, RunStep, RecoverStep


\* Where a worker's attempt comes from.
ResumesPending(m) ==
  Plan(m) /\ \E a : Found(m, a, {"PENDING"}) /\ Resumes(m, a, "persist", a, TRUE)
ResumesUnknown(m) ==
  Plan(m) /\ \E a : Found(m, a, {"UNKNOWN_OUTCOME"}) /\ Resumes(m, a, "query", a, FALSE)
ResumesNext(m) ==
  /\ Plan(m)
  /\ \E a : /\ Found(m, a, {"FAILED", "UNKNOWN_OUTCOME"})
            /\ Resumes(m, a, "persist", a + 1, FALSE)
            /\ ledger[Cur(m)][a] = "FAILED" => a < Step(m).tries

LEMMA HoldingFrom ==
  ASSUME IInv, OneRecoverer, NEW m \in Workers, WorkerStep(m), Holding(m)'
  PROVE  \/ Holding(m) /\ me' = me /\ pc'[m] # "persist"
         \/ CreateAttempt(m) /\ me' = me
         \/ ResumesPending(m) \/ ResumesUnknown(m)
<1> TypeOK
  BY DEF IInv, Control
<1>1. ASSUME \E p : NextStep(m, p) PROVE ~me'[m].resuming
  BY <1>1, NextStepEffect
<1>2. CASE Plan(m)
  <2>1. Planned(m) /\ ~me[m].resuming
    BY <1>2, PlanIs
  <2>2. CASE \E p : NextStep(m, p) /\ p = "persist"
    <3>1. pc'[m] = "persist" /\ ~me'[m].resuming
      BY <1>1, <2>2 DEF NextStep, Goto, TypeOK
    <3> QED
      BY <3>1 DEF Holding, Before, Calling
  <2>3. CASE pc'[m] \in {"persist", "fail", "manual"} /\ me' = me
    BY <2>1, <2>3 DEF Holding, Before, Calling
  <2>4. ASSUME NEW a, Resumes(m, a, "persist", a + 1, FALSE) PROVE FALSE
    BY <2>4 DEF Resumes, Holding, Before, Calling
  <2> QED
    BY <1>2, <2>1, <2>2, <2>3, <2>4, Zenon DEF Planned, ResumesPending, ResumesUnknown
<1>3. CASE CreateAttempt(m)
  BY <1>3 DEF CreateAttempt
<1>4. CASE ~Plan(m) /\ ~CreateAttempt(m)
  <2>1. CASE pc'[m] = "persist" /\ me'[m].resuming
    <3>1. SaveOK(m) \/ Query(m) \/ RecordApplied(m)
      BY <1>4, <2>1, WhereFrom
    <3>2. CASE Query(m)
      <4>1. ~(pc[m] = "query" /\ me[m].resuming)
        BY DEF IInv, Control, QueriesAreAllowed
      <4>2. Retry(m)
        BY <2>1, <3>2, <4>1, Zenon DEF Query, Retry, Goto, TypeOK
      <4> QED
        BY <2>1, <4>2, RetryEffect
    <3> QED
      BY <1>1, <2>1, <3>1, <3>2 DEF SaveOK, RecordApplied
  <2>2. CASE pc'[m] = "mark"
    BY <1>4, <2>2, WhereFrom DEF Resume, Goto, TypeOK, Holding, Before
  <2>3. CASE pc'[m] = "invoke"
    BY <2>3, WhereFrom DEF MarkRunning, Holding, Before
  <2>4. CASE pc'[m] \in {"await", "saveUnknown", "applied"}
    BY <2>4, WhereFrom DEF Invoke, AnswerUnknown, Query, Goto, TypeOK, Holding, Calling
  <2>5. CASE pc'[m] \in {"saveOK", "saveFailed"}
    BY <2>5, WhereFrom DEF AnswerOK, AnswerFailed, Goto, TypeOK, Holding, Calling
  <2>6. pc'[m] # "query"
    BY <1>4, WhereFrom
  <2> QED
    BY <2>1, <2>2, <2>3, <2>4, <2>5, <2>6 DEF Holding, Before, Calling
<1> QED
  BY <1>2, <1>3, <1>4

LEMMA InsertingFrom ==
  ASSUME IInv, OneRecoverer, NEW m \in Workers, WorkerStep(m), Inserting(m)'
  PROVE  \/ Inserting(m) /\ me' = me
         \/ Att(m)' = 1
         \/ Retried(m) \/ ResumesNext(m)
<1> TypeOK /\ pc \in [Workers -> PCs]
  BY DEF IInv, Control, TypeOK
<1>1. ASSUME \E p : NextStep(m, p) PROVE Att(m)' = 1
  BY <1>1, NextStepEffect DEF Att
<1>2. CASE Plan(m)
  <2>1. Planned(m) /\ Att(m) = 1
    BY <1>2, PlanIs
  <2>2. CASE me' = me
    BY <2>1, <2>2 DEF Att
  <2>3. ASSUME NEW a, Resumes(m, a, "persist", a, TRUE) \/ Resumes(m, a, "query", a, FALSE)
        PROVE  FALSE
    BY <2>3 DEF Resumes, Inserting
  <2> QED
    BY <1>1, <1>2, <2>1, <2>2, <2>3, Zenon DEF Planned, ResumesNext
<1>3. CASE ~Plan(m)
  <2>1. CASE Retried(m) \/ PassedOn(m)
    BY <1>1, <2>1 DEF PassedOn
  <2>2. CASE Returned(m)
    BY <2>2 DEF Returned, Inserting
  <2>3. CASE Begun(m)
    BY <2>3 DEF Begun, Att
  <2>4. CASE me' = me
    <3>1. CASE Start(m) \/ Advance(m) \/ Resume(m)
      BY <2>4, <3>1 DEF Start, Advance, Resume, Inserting, Goto
    <3>2. CASE pc'[m] = "start" /\ Insert(m)
      <4>1. Att(m) = 1
        BY <3>2 DEF Insert, IInv, Control, Epochs, Unstarted
      <4> QED
        BY <2>4, <4>1 DEF Att
    <3>3. CASE AnswerFailed(m) \/ SaveUnknown(m) \/ Query(m)
      <4>1. me[m].attempt + 1 # me[m].attempt
        BY LocalTypes
      <4>2. CASE Retry(m)
        BY <2>4, <4>1, <4>2, RetryEffect
      <4>3. CASE ~Retry(m)
        <5>0. pc[m] = "query" => ~me[m].resuming
          BY DEF IInv, Control, QueriesAreAllowed
        <5>1. \E p \in {"saveFailed", "manual", "applied"} : pc' = [pc EXCEPT ![m] = p]
          BY <3>3, <4>3, <5>0, Zenon DEF AnswerFailed, SaveUnknown, Query, Goto, Retry
        <5> QED
          BY <5>1 DEF Inserting
      <4> QED
        BY <4>2, <4>3
    <3>4. pc'[m] \in {"step", "advance", "start", "persist"}
      BY DEF Inserting
    <3> QED
      BY <1>1, <1>3, <3>1, <3>2, <3>3, <3>4, WhereFrom
      DEF Skip, BadArgs, SaveOK, SaveFailed, RecordApplied, Goto
  <2> QED
    BY <1>3, <2>1, <2>2, <2>3, <2>4, Moved DEF Resumed
<1> QED
  BY <1>2, <1>3


-----------------------------------------------------------------------------
(* Rows. *)

LEMMA WorkerKindsKept ==
  ASSUME IInv, PInv, OneRecoverer, NEW m \in Workers, WorkerStep(m)
  PROVE  WorkerKinds'
<1> TypeOK
  BY DEF IInv, Control
<1>0. skill' = skill
  BY WorkerFrame
<1>1. ASSUME NEW x \in Workers, x # m
      PROVE  /\ Holding(x)' => Kind(Cur(x)') = "CALL"
             /\ Inserting(x)' /\ Att(x)' > 1 =>
                  Cur(x)' \in Steps /\ Kind(Cur(x)') \in {"CALL", "BAD_ARGS"}
             /\ pc'[x] = "saveFailed" => me'[x].resuming \/ Att(x)' >= Step(x).tries
             /\ Cur(x)' = Cur(x)
             /\ \A s \in Steps, a \in Attempts : request'[s][a][x] # "none" => Kind(s) = "CALL"
  <2>1. \A s \in Steps, a \in Attempts : request'[s][a][x] = request[s][a][x]
    BY <1>1, WorkerFrame
  <2> QED
    BY <1>1, <2>1, Unmoved DEF PInv, Rows, WorkerKinds
<1>2. Holding(m)' => Kind(Cur(m)') = "CALL"
  <2>1. ASSUME NEW a, Found(m, a, {"PENDING", "UNKNOWN_OUTCOME"}) PROVE Kind(Cur(m)) = "CALL"
    BY <2>1, TypeOK DEF Found, PInv, Rows, RowKinds, HasRow, TypeOK, SkillSpec, StepSpec, Kind
  <2>2. ASSUME ResumesPending(m) \/ ResumesUnknown(m)
        PROVE  Kind(Cur(m)) = "CALL" /\ Cur(m)' = Cur(m)
    BY <2>1, <2>2 DEF ResumesPending, ResumesUnknown, Found, Resumes, Cur
  <2>3. CreateAttempt(m) => Kind(Cur(m)) = "CALL"
    BY DEF CreateAttempt, AtStep, Kind, Step
  <2>4. me' = me => Cur(m)' = Cur(m)
    BY DEF Cur
  <2> QED
    BY <2>2, <2>3, <2>4, HoldingFrom DEF PInv, Rows, WorkerKinds
<1>3. Inserting(m)' /\ Att(m)' > 1 => Cur(m)' \in Steps /\ Kind(Cur(m)') \in {"CALL", "BAD_ARGS"}
  <2>1. CASE Inserting(m) /\ me' = me
    BY <2>1 DEF Cur, Att, PInv, Rows, WorkerKinds
  <2>2. CASE Retried(m)
    BY <2>2, OwnAttempt DEF Retried, Cur, PInv, Rows, WorkerKinds
  <2>3. CASE ResumesNext(m)
    <3>1. PICK a : /\ Found(m, a, {"FAILED", "UNKNOWN_OUTCOME"})
                   /\ Resumes(m, a, "persist", a + 1, FALSE)
      BY <2>3 DEF ResumesNext
    <3>2. Cur(m)' = Cur(m)
      BY <3>1 DEF Resumes, Cur
    <3> QED
      BY <3>1, <3>2 DEF Found, PInv, Rows, RowKinds, HasRow, TypeOK, SkillSpec, StepSpec, Kind
  <2>4. CASE Att(m)' = 1
    BY <2>4
  <2> QED
    BY <2>1, <2>2, <2>3, <2>4, InsertingFrom
<1>4. pc'[m] = "saveFailed" => me'[m].resuming \/ Att(m)' >= skill.step[Cur(m)'].tries
  <2>1. SUFFICES ASSUME AnswerFailed(m), pc'[m] = "saveFailed"
                 PROVE  me'[m].resuming \/ Att(m)' >= skill.step[Cur(m)'].tries
    BY WhereFrom
  <2>2. me' = me /\ (me[m].resuming \/ ~(Att(m) < Step(m).tries))
    BY <2>1 DEF AnswerFailed, Goto, TypeOK
  <2>3. Cur(m) \in Steps
    BY <2>1, OwnAttempt DEF AnswerFailed, Holding, Calling
  <2>4. Step(m).tries \in Nat /\ Att(m) \in Nat
    BY <2>3, LocalTypes DEF Step, Att, TypeOK, SkillSpec, StepSpec
  <2> QED
    BY <2>2, <2>4 DEF Cur, Att, Step
<1>5. \A s \in Steps, a \in Attempts : request'[s][a][m] # "none" => Kind(s) = "CALL"
  <2>1. CASE Invoke(m)
    <3>1. Holding(m)
      BY <2>1 DEF Invoke, Holding, Calling
    <3>2. Kind(Cur(m)) = "CALL"
      BY <3>1 DEF PInv, Rows, WorkerKinds
    <3>3. \A s \in Steps, a \in Attempts : s # Cur(m) => request'[s][a][m] = request[s][a][m]
      BY <2>1 DEF Invoke, TypeOK
    <3> QED
      BY <3>2, <3>3 DEF PInv, Rows, WorkerKinds
  <2> QED
    BY <2>1, WorkerFrame DEF PInv, Rows, WorkerKinds
<1>6. ASSUME NEW x \in Workers
      PROVE  /\ Holding(x)' => Kind(Cur(x)') = "CALL"
             /\ Inserting(x)' /\ Att(x)' > 1 =>
                  Cur(x)' \in Steps /\ Kind(Cur(x)') \in {"CALL", "BAD_ARGS"}
             /\ pc'[x] = "saveFailed" => me'[x].resuming \/ Att(x)' >= skill.step[Cur(x)'].tries
             /\ \A s \in Steps, a \in Attempts : request'[s][a][x] # "none" => Kind(s) = "CALL"
  BY <1>1, <1>2, <1>3, <1>4, <1>5 DEF Step
<1> QED
  BY <1>0, <1>6 DEF WorkerKinds, Kind, Step


\* A new row is that of the attempt the worker is at, or the first of a step.
LEMMA NewRow ==
  ASSUME IInv, PInv, NEW m \in Workers, WorkerStep(m), NEW s \in Steps, NEW b \in Attempts,
         HasRow(ledger', s, b), ~HasRow(ledger, s, b)
  PROVE  s = Cur(m) /\ b <= Att(m) /\ pc[m] = "step" /\ Fenced(m)
<1>1. PICK s0, a0, st : Writes(m, s0, a0, st)
  BY WorkerWrites DEF HasRow
<1>2. s = s0 /\ b = a0
  BY <1>1 DEF Writes, OnlyRow, HasRow
<1>3. HasRow(ledger, s, b) \/ Creates(m, s, b, st) \/ Skips(m, s, b, st)
  BY <1>1, <1>2 DEF Writes, Records, Sweeps, HasRow, IInv, Ownership, OwnersHaveRows
<1>4. Att(m) \in Nat \ {0}
  BY LocalTypes DEF Att, IInv, Control
<1> QED
  BY <1>1, <1>3, <1>4 DEF Creates, Skips, Writes

LEMMA StillFenced ==
  ASSUME IInv, NEW m \in Workers, WorkerStep(m), Fenced(m)', me'[m].epoch = me[m].epoch,
         pc[m] \notin {"insert", "claim"}
  PROVE  Fenced(m)
BY ExecFrom DEF Fenced, Insert, Claim

LEMMA RowOf ==
  ASSUME IInv, NEW w \in Workers, Holding(w)
  PROVE  HasRow(ledger, Cur(w), Att(w))
BY DEF IInv, Ownership, OwnersHaveRows

LEMMA HeldRowsOthers ==
  ASSUME IInv, PInv, OneRecoverer, NEW m \in Workers, WorkerStep(m), NEW x \in Workers \ {m}
  PROVE  /\ Fenced(x)' /\ Before(x)' => ledger'[Cur(x)'][Att(x)'] = "PENDING"
         /\ Fenced(x)' /\ Calling(x)' => ledger'[Cur(x)'][Att(x)'] = "RUNNING"
         /\ Fenced(x)' /\ pc'[x] \in {"query", "applied"} =>
              ledger'[Cur(x)'][Att(x)'] = "UNKNOWN_OUTCOME"
         /\ Engaged(x)' => \A b \in Attempts : Att(x)' < b => ~HasRow(ledger', Cur(x)', b)
<1>1. /\ pc'[x] = pc[x] /\ Cur(x)' = Cur(x) /\ Att(x)' = Att(x) /\ me'[x] = me[x]
      /\ (Before(x)' <=> Before(x)) /\ (Calling(x)' <=> Calling(x))
  BY Unmoved DEF Before, Calling
<1>2. Holding(x)' \/ Engaged(x)' => Holding(x) \/ (Inserting(x) /\ Att(x) > 1)
  BY <1>1, Unmoved DEF Engaged
<1>3. Fenced(x)' /\ (Holding(x)' \/ Engaged(x)') => Engaged(x)
  <2>1. SUFFICES ASSUME Fenced(x)', Holding(x)' \/ Engaged(x)' PROVE Fenced(x)
    BY <1>2 DEF Engaged
  <2>2. Holds(x)'
    BY <1>1, <1>2, <2>1 DEF Holds, Fenced, Holding, Before, Calling, Inserting
  <2> QED
    BY <2>2, HoldsFrame DEF Holds
<1>4. Engaged(x) => \A a \in Attempts : ledger'[Cur(x)][a] = ledger[Cur(x)][a]
  BY WorkerRows DEF RowsKept
<1>5. Before(x) \/ Calling(x) \/ pc[x] \in {"query", "applied"} => Holding(x) /\ Att(x) \in Attempts
  BY OwnAttempt DEF Holding
<1>6. Before(x)' \/ Calling(x)' \/ pc'[x] \in {"query", "applied"} => Holding(x)'
  BY DEF Holding
<1>7. Engaged(x)' => Fenced(x)'
  BY DEF Engaged
<1> QED
  BY <1>1, <1>3, <1>4, <1>5, <1>6, <1>7 DEF PInv, Rows, HeldRows, Engaged, HasRow


LEMMA HeldRowsOwn ==
  ASSUME IInv, PInv, OneRecoverer, NEW m \in Workers, WorkerStep(m), Fenced(m)'
  PROVE  /\ Before(m)' => ledger'[Cur(m)'][Att(m)'] = "PENDING"
         /\ Calling(m)' => ledger'[Cur(m)'][Att(m)'] = "RUNNING"
         /\ pc'[m] \in {"query", "applied"} => ledger'[Cur(m)'][Att(m)'] = "UNKNOWN_OUTCOME"
<1> TypeOK /\ ledger \in Ledger
  BY DEF IInv, Control, TypeOK
<1>1. CASE Holding(m) /\ me' = me /\ pc'[m] # "persist"
  <2>1. Fenced(m) /\ Cur(m)' = Cur(m) /\ Att(m)' = Att(m) /\ Cur(m) \in Steps /\ Att(m) \in Attempts
    BY <1>1, StillFenced, OwnAttempt DEF Holding, Before, Calling, Cur, Att
  <2>2. CASE pc'[m] \in {"mark", "query"}
    <3>1. Resume(m) /\ pc[m] = "persist"
      <4>1. Plan(m) => pc[m] = "sweep"
        BY DEF Plan, Planning
      <4> QED
        BY <1>1, <2>2, <4>1, WhereFrom DEF CreateAttempt, AtStep, Resume, Holding, Before, Calling
    <3>2. Before(m) /\ ledger' = ledger /\ pc'[m] # "query"
      BY <1>1, <3>1 DEF Resume, Goto, TypeOK, Holding, Before, Calling
    <3> QED
      BY <2>1, <2>2, <3>2 DEF PInv, Rows, HeldRows, Before, Calling
  <2>3. CASE pc'[m] = "invoke"
    <3>1. ledger'[Cur(m)][Att(m)] = "RUNNING"
      BY <2>1, <2>3, WhereFrom DEF MarkRunning, WriteRow, Ledger
    <3> QED
      BY <2>1, <2>3, <3>1 DEF Before, Calling
  <2>4. CASE pc'[m] \in {"await", "saveOK", "saveFailed", "saveUnknown"}
    <3>1. Calling(m) /\ ledger' = ledger
      BY <2>4, WhereFrom DEF Invoke, AnswerOK, AnswerFailed, AnswerUnknown, Calling
    <3> QED
      BY <2>1, <2>4, <3>1 DEF PInv, Rows, HeldRows, Before, Calling
  <2>5. CASE pc'[m] = "applied"
    <3>1. pc[m] = "query" /\ ledger' = ledger
      BY <2>5, WhereFrom DEF Query
    <3> QED
      BY <2>1, <2>5, <3>1 DEF PInv, Rows, HeldRows, Before, Calling
  <2> QED
    BY <1>1, <2>2, <2>3, <2>4, <2>5 DEF Before, Calling
<1>2. CASE CreateAttempt(m) /\ me' = me
  <2>1. pc'[m] = "mark" /\ Cur(m) \in Steps /\ Att(m) \in Attempts
    BY <1>2, CurrentStep DEF CreateAttempt, AtStep, Goto, TypeOK
  <2>2. ledger'[Cur(m)][Att(m)] = "PENDING"
    BY <1>2, <2>1 DEF CreateAttempt, WriteRow, Ledger
  <2> QED
    BY <1>2, <2>1, <2>2 DEF Before, Calling, Cur, Att
<1>3. CASE ResumesPending(m)
  <2>1. PICK a : Found(m, a, {"PENDING"}) /\ Resumes(m, a, "persist", a, TRUE)
    BY <1>3 DEF ResumesPending
  <2>2. Cur(m)' = Cur(m) /\ Att(m)' = a /\ pc'[m] = "persist" /\ ledger' = ledger
    BY <1>3, <2>1 DEF Resumes, Cur, Att, ResumesPending, Plan
  <2> QED
    BY <2>1, <2>2 DEF Found, Before, Calling
<1>4. CASE ResumesUnknown(m)
  <2>1. PICK a : Found(m, a, {"UNKNOWN_OUTCOME"}) /\ Resumes(m, a, "query", a, FALSE)
    BY <1>4 DEF ResumesUnknown
  <2>2. Cur(m)' = Cur(m) /\ Att(m)' = a /\ pc'[m] = "query" /\ ledger' = ledger
    BY <1>4, <2>1 DEF Resumes, Cur, Att, ResumesUnknown, Plan
  <2> QED
    BY <2>1, <2>2 DEF Found, Before, Calling
<1>5. CASE ~Holding(m)'
  BY <1>5 DEF Holding
<1> QED
  BY <1>1, <1>2, <1>3, <1>4, <1>5, HoldingFrom

\* Nor does a row appear beyond the attempt it comes to.
LEMMA NoneBeyondOwn ==
  ASSUME IInv, PInv, OneRecoverer, NEW m \in Workers, WorkerStep(m), Engaged(m)',
         NEW b \in Attempts, Att(m)' < b
  PROVE  ~HasRow(ledger', Cur(m)', b)
<1> TypeOK /\ Att(m) \in Nat
  BY LocalTypes DEF IInv, Control, Att
<1>1. ASSUME HasRow(ledger', Cur(m), b), Att(m) < b, Cur(m) \in Steps
      PROVE  HasRow(ledger, Cur(m), b)
  BY <1>1, NewRow DEF Attempts
<1>2. ASSUME Engaged(m), Cur(m)' = Cur(m), Att(m)' = Att(m) \/ Att(m)' = Att(m) + 1
      PROVE  ~HasRow(ledger', Cur(m)', b)
  <2>1. Att(m) < b /\ Cur(m) \in Steps
    BY <1>2, EngagedHasRow DEF Attempts
  <2> QED
    BY <1>1, <1>2, <2>1 DEF PInv, Rows, HeldRows
<1>3. ASSUME NEW a, Found(m, a, {"PENDING", "FAILED", "UNKNOWN_OUTCOME"}), Plan(m),
             Cur(m)' = Cur(m), Att(m)' = a \/ Att(m)' = a + 1
      PROVE  ~HasRow(ledger', Cur(m)', b)
  <2>1. ledger' = ledger /\ a < b
    BY <1>3 DEF Plan, Found, Attempts
  <2> QED
    BY <1>3, <2>1 DEF Found, IsLast, HasRow, Attempts
<1>4. CASE Holding(m)'
  <2>1. CASE Holding(m) /\ me' = me
    <3>1. Engaged(m)
      BY <2>1, StillFenced DEF Engaged, Holding, Before, Calling
    <3> QED
      BY <1>2, <2>1, <3>1 DEF Cur, Att
  <2>2. CASE CreateAttempt(m) /\ me' = me
    <3>1. ~HasRow(ledger, Cur(m), Att(m)) /\ Att(m) \in Attempts /\ Cur(m) \in Steps /\ Att(m) < b
      BY <2>2, CurrentStep DEF CreateAttempt, AtStep, HasRow, Att
    <3>2. ~HasRow(ledger, Cur(m), b)
      BY <3>1 DEF IInv, Ownership, NoGaps
    <3> QED
      BY <1>1, <2>2, <3>1, <3>2 DEF Cur
  <2>3. CASE ResumesPending(m) \/ ResumesUnknown(m)
    BY <1>3, <2>3 DEF ResumesPending, ResumesUnknown, Found, Resumes, Cur, Att
  <2> QED
    BY <2>1, <2>2, <2>3, <1>4, HoldingFrom
<1>5. CASE Inserting(m)' /\ Att(m)' > 1
  <2>1. CASE Inserting(m) /\ me' = me
    <3>1. Engaged(m)
      BY <1>5, <2>1, StillFenced DEF Engaged, Inserting, Att
    <3> QED
      BY <1>2, <2>1, <3>1 DEF Cur, Att
  <2>2. CASE Retried(m)
    <3>1. Engaged(m)
      BY <2>2, StillFenced DEF Engaged, Retried, Holding, Before, Calling
    <3> QED
      BY <1>2, <2>2, <3>1 DEF Retried, Cur, Att
  <2>3. CASE ResumesNext(m)
    BY <1>3, <2>3 DEF ResumesNext, Found, Resumes, Cur, Att
  <2> QED
    BY <1>5, <2>1, <2>2, <2>3, InsertingFrom
<1> QED
  BY <1>4, <1>5 DEF Engaged

LEMMA HeldRowsKept ==
  ASSUME IInv, PInv, OneRecoverer, NEW m \in Workers, WorkerStep(m)
  PROVE  HeldRows'
<1>1. ASSUME NEW w \in Workers
      PROVE  /\ Fenced(w)' /\ Before(w)' => ledger'[Cur(w)'][Att(w)'] = "PENDING"
             /\ Fenced(w)' /\ Calling(w)' => ledger'[Cur(w)'][Att(w)'] = "RUNNING"
             /\ Fenced(w)' /\ pc'[w] \in {"query", "applied"} =>
                  ledger'[Cur(w)'][Att(w)'] = "UNKNOWN_OUTCOME"
             /\ Engaged(w)' => \A b \in Attempts : Att(w)' < b => ~HasRow(ledger', Cur(w)', b)
  <2>1. CASE w = m
    BY <2>1, HeldRowsOwn, NoneBeyondOwn
  <2>2. CASE w # m
    BY <2>2, HeldRowsOthers, Unmoved
  <2> QED
    BY <2>1, <2>2
<1> QED
  BY <1>1 DEF HeldRows, HasRow


LEMMA UnmetKept ==
  ASSUME IInv, PInv, OneRecoverer, NEW m \in Workers, WorkerStep(m)
  PROVE  Unmet'
<1> TypeOK /\ skill' = skill
  BY WorkerFrame DEF IInv, Control
<1> SUFFICES ASSUME ~skill.precondition
             PROVE  /\ \A s \in Steps, a \in Attempts : ~HasRow(ledger', s, a)
                    /\ exec.cursor' > 0 => NSteps = 0
                    /\ \A w \in Workers : pc'[w] \in {"step", "advance"} \/ me'[w].cursor > 0
                                            => NSteps = 0
  BY DEF Unmet, HasRow
<1>1. /\ \A s \in Steps, a \in Attempts : ~HasRow(ledger, s, a)
      /\ exec.cursor > 0 => NSteps = 0
      /\ \A w \in Workers : pc[w] \in {"step", "advance"} \/ me[w].cursor > 0 => NSteps = 0
  BY DEF PInv, Rows, Unmet
<1>2. ~Holding(m)
  BY <1>1, OwnAttempt, RowOf
<1>3. \A s \in Steps, a \in Attempts : ~HasRow(ledger', s, a)
  BY <1>1, NewRow, BoundsAssumption DEF Steps
<1>4. exec.cursor' > 0 => NSteps = 0
  BY <1>1, ExecFrom
<1>5. \A w \in Workers \ {m} : pc'[w] \in {"step", "advance"} \/ me'[w].cursor > 0 => NSteps = 0
  BY <1>1, WorkerFrame
<1>6. pc[m] \notin {"await", "saveOK", "saveFailed", "saveUnknown", "query", "applied"}
  BY <1>2 DEF Holding, Calling
<1>7. ASSUME pc'[m] \in {"step", "advance"}
      PROVE  NSteps = 0
  <2>1. Start(m) \/ Advance(m) \/ Skip(m) \/ BadArgs(m)
    BY <1>6, <1>7, WhereFrom DEF AnswerFailed, SaveUnknown, SaveOK, SaveFailed
  <2>2. CASE Start(m)
    <3>1. me[m].cursor # 0
      BY <1>7, <2>2 DEF Start, Goto, TypeOK
    <3> QED
      BY <1>1, <3>1, LocalTypes
  <2>3. CASE Advance(m) \/ Skip(m) \/ BadArgs(m)
    BY <1>1, <2>3 DEF Advance, Skip, BadArgs, AtStep
  <2> QED
    BY <2>1, <2>2, <2>3
<1>8. ASSUME me'[m].cursor > 0
      PROVE  NSteps = 0
  <2>1. CASE PassedOn(m)
    <3>1. Skip(m) \/ BadArgs(m) \/ Plan(m)
      BY <1>6, <2>1 DEF PassedOn, SaveOK, SaveFailed, RecordApplied
    <3>2. CASE Skip(m) \/ BadArgs(m)
      BY <1>1, <3>2 DEF Skip, BadArgs, AtStep
    <3>3. CASE Plan(m)
      <4>0. me'[m].cursor = me[m].cursor + 1
        BY <2>1, NextStepEffect DEF PassedOn
      <4>1. me'[m].cursor # me[m].cursor
        BY <4>0, LocalTypes
      <4>2. Cur(m) \notin Steps \/ Over(Cur(m))
        BY <3>3, <4>1, PlanIs DEF Planned, Resumes
      <4>3. ~(Cur(m) \in Steps /\ Over(Cur(m)))
        BY <1>1, StepOver
      <4>4. me[m].cursor >= NSteps
        BY <4>2, <4>3, LocalTypes, BoundsAssumption DEF Cur, Steps
      <4> QED
        BY <1>1, <4>4, LocalTypes, BoundsAssumption
    <3> QED
      BY <3>1, <3>2, <3>3
  <2>2. CASE ~PassedOn(m)
    <3>1. me'[m].cursor \in {0, me[m].cursor, exec.cursor}
      BY <2>2, Moved DEF Returned, Begun, Retried, Resumed, Resumes
    <3> QED
      BY <1>1, <1>8, <3>1
  <2> QED
    BY <2>1, <2>2
<1> QED
  BY <1>3, <1>4, <1>5, <1>7, <1>8

\* What a worker does before it runs.
LEMMA EarlySteps ==
  ASSUME NEW m \in Workers, WorkerStep(m), pc[m] \in {"idle", "insert", "done", "start"}
  PROVE  Lookup(m) \/ Insert(m) \/ Start(m) \/ StaleLease(m) \/ List(m)
<1>1. /\ ~(Succeed(m) \/ Skip(m) \/ BadWhen(m) \/ BadArgs(m))
      /\ ~(CreateAttempt(m) \/ DuplicateAttempt(m))
  BY DEF Succeed, Skip, BadWhen, BadArgs, CreateAttempt, DuplicateAttempt, AtStep
<1>2. ~(MarkRunning(m) \/ Invoke(m) \/ AnswerOK(m) \/ AnswerFailed(m) \/ AnswerUnknown(m))
  BY DEF MarkRunning, Invoke, AnswerOK, AnswerFailed, AnswerUnknown
<1>3. ~(SaveOK(m) \/ SaveFailed(m) \/ SaveUnknown(m) \/ Advance(m) \/ Finish(m))
  BY DEF SaveOK, SaveFailed, SaveUnknown, Advance, Finish
<1>4. ~(Claim(m) \/ Get(m) \/ Read(m) \/ MarkUnknown(m) \/ Plan(m) \/ Resume(m))
  BY DEF Claim, Get, Read, MarkUnknown, Plan, Planning, Resume
<1>5. ~(Query(m) \/ RecordApplied(m))
  BY DEF Query, RecordApplied
<1> QED
  BY <1>1, <1>2, <1>3, <1>4, <1>5 DEF WorkerStep, RunStep, RecoverStep

LEMMA ClaimSteps ==
  ASSUME NEW m \in Workers, WorkerStep(m), pc[m] \in {"claim", "get"}
  PROVE  (pc[m] = "claim" /\ Claim(m)) \/ (pc[m] = "get" /\ Get(m))
<1>1. ~(Lookup(m) \/ Insert(m) \/ Read(m) \/ MarkUnknown(m) \/ Resume(m) \/ List(m))
  BY DEF Lookup, Insert, Read, MarkUnknown, Resume, List
<1>2. ~(Query(m) \/ RecordApplied(m) \/ Plan(m) \/ Start(m) \/ Succeed(m) \/ Skip(m))
  BY DEF Query, RecordApplied, Plan, Planning, Start, Succeed, Skip, AtStep
<1>3. ~(BadWhen(m) \/ BadArgs(m) \/ CreateAttempt(m) \/ DuplicateAttempt(m) \/ MarkRunning(m))
  BY DEF BadWhen, BadArgs, CreateAttempt, DuplicateAttempt, MarkRunning, AtStep
<1>4. ~(Invoke(m) \/ AnswerOK(m) \/ AnswerFailed(m) \/ AnswerUnknown(m) \/ SaveOK(m))
  BY DEF Invoke, AnswerOK, AnswerFailed, AnswerUnknown, SaveOK
<1>5. ~(SaveFailed(m) \/ SaveUnknown(m) \/ Advance(m) \/ Finish(m) \/ StaleLease(m))
  BY DEF SaveFailed, SaveUnknown, Advance, Finish, StaleLease, Refused, AtStep
<1>6. (Claim(m) => pc[m] = "claim") /\ (Get(m) => pc[m] = "get")
  BY DEF Claim, Get
<1> QED
  BY <1>1, <1>2, <1>3, <1>4, <1>5, <1>6 DEF WorkerStep, RunStep, RecoverStep

LEMMA PhasesKept ==
  ASSUME IInv, PInv, OneRecoverer, NEW m \in Workers, WorkerStep(m)
  PROVE  Phases'
<1> TypeOK /\ skill' = skill /\ pc \in [Workers -> PCs]
  BY WorkerFrame DEF IInv, Control, TypeOK
<1>1. ASSUME exec.status' \in {"ABSENT", "PENDING"}
      PROVE  /\ exec.cursor' = 0
             /\ \A s \in Steps, a \in Attempts : ~HasRow(ledger', s, a)
             /\ \A w \in Workers :
                  pc'[w] \in {"idle", "insert", "done", "start"} /\ me'[w].cursor = 0
  <2>1. exec' = exec \/ (Insert(m) /\ exec.status = "ABSENT" /\ exec.cursor' = exec.cursor)
    <3>1. exec.status' \notin {"SUCCEEDED", "FAILED", "RUNNING", "NEEDS_RECONCILIATION"}
      BY <1>1
    <3> QED
      BY <3>1, ExecFrom
  <2>2. exec.status \in {"ABSENT", "PENDING"}
    BY <1>1, <2>1
  <2>3. /\ exec.cursor = 0
        /\ \A s \in Steps, a \in Attempts : ~HasRow(ledger, s, a)
        /\ \A w \in Workers :
             pc[w] \in {"idle", "insert", "done", "start"} /\ me[w].cursor = 0
    BY <2>2 DEF PInv, Rows, Phases
  <2>4. pc'[m] \in {"idle", "insert", "done", "start"} /\ me'[m].cursor \in {0, me[m].cursor}
    <3>1. ASSUME Return(m) PROVE pc'[m] \in {"idle", "done"} /\ me'[m].cursor = 0
      BY <3>1 DEF Return, Goto, NoLocal, TypeOK
    <3>2. CASE Lookup(m) \/ StaleLease(m)
      BY <3>1, <3>2 DEF Lookup, StaleLease, Goto
    <3>3. CASE Insert(m)
      <4>1. me \in [Workers -> Local]
        BY DEF TypeOK
      <4> QED
        BY <2>3, <3>1, <3>3, <4>1 DEF Insert, Goto, Local
    <3>4. CASE Start(m)
      <4>1. exec.status' = "RUNNING"
        BY <3>4 DEF Start, Persist, TypeOK, Exec
      <4> QED
        BY <1>1, <4>1
    <3>5. CASE List(m)
      BY <2>2, <3>5 DEF List
    <3> QED
      BY <2>3, <3>2, <3>3, <3>4, <3>5, EarlySteps
  <2>5. ledger' = ledger
    <3>1. \A s, a, st : ~Writes(m, s, a, st)
      BY <2>3 DEF Writes, Records, Creates, Skips, Sweeps, Holding, Before, Calling
    <3> QED
      BY <3>1, WorkerWrites
  <2> QED
    BY <2>1, <2>3, <2>4, <2>5, WorkerFrame
<1>2. ASSUME NEW r \in Recoverers, pc'[r] \notin {"idle", "claim"}
      PROVE  exec.status' = "RUNNING"
  <2> r \in Workers
    BY DEF Workers
  <2>1. CASE r # m
    <3>1. pc[r] \notin {"idle", "claim"} /\ exec.status = "RUNNING" /\ ~Fenced(m)
      BY <1>2, <2>1, WorkerFrame, AloneInRecovery DEF PInv, Rows, Phases
    <3> QED
      BY <3>1, ExecFrom
  <2>2. CASE r = m
    <3>0. ASSUME Return(m) PROVE FALSE
      <4>1. m \notin Runners
        BY <2>2, WorkersAssumption
      <4> QED
        BY <1>2, <2>2, <3>0, <4>1 DEF Return, Goto
    <3>1. CASE Claim(m)
      BY <3>0, <3>1 DEF Claim, Claimable, TypeOK, Exec
    <3>2. CASE Succeed(m) \/ Finish(m)
      BY <3>0, <3>2 DEF Succeed, Finish
    <3>3. CASE pc[m] \in {"idle", "claim"} /\ ~Claim(m)
      <4>1. m \notin Runners
        BY <2>2, WorkersAssumption
      <4>2. CASE pc[m] = "idle"
        <5>1. ~Insert(m) /\ ~Start(m) /\ ~StaleLease(m)
          BY <4>2 DEF Insert, Start, StaleLease, Refused, AtStep
        <5>2. List(m)
          BY <4>1, <4>2, <5>1, EarlySteps DEF Lookup
        <5> QED
          BY <1>2, <2>2, <5>2 DEF List, Goto
      <4>3. CASE pc[m] = "claim"
        BY <3>3, <4>3, ClaimSteps
      <4> QED
        BY <3>3, <4>2, <4>3
    <3>4. CASE pc[m] \notin {"idle", "claim"} /\ ~Succeed(m) /\ ~Finish(m) /\ ~Claim(m)
      <4>1. exec.status = "RUNNING"
        BY <2>2, <3>4 DEF PInv, Rows, Phases
      <4> QED
        BY <3>4, <4>1, ExecFrom
    <3> QED
      BY <3>1, <3>2, <3>3, <3>4
  <2> QED
    BY <2>1, <2>2
<1>3. ASSUME exec.status' = "SUCCEEDED"
      PROVE  exec.cursor' >= skill.limit
  BY <1>3, ExecFrom DEF PInv, Rows, Phases, Succeed
<1> QED
  BY <1>1, <1>2, <1>3 DEF Phases, HasRow

-----------------------------------------------------------------------------
(* Progress. *)

\* A worker moves past a step when the step is over.
LEMMA PassedIsOver ==
  ASSUME IInv, PInv, OneRecoverer, NEW m \in Workers, WorkerStep(m), PassedOn(m),
         NEW s \in Steps, s = Cur(m)
  PROVE  Over(s)'
<1> TypeOK /\ ledger \in Ledger /\ skill' = skill
  BY WorkerFrame DEF IInv, Control, TypeOK
<1>0. PICK a \in Nat \ {0} : a = Att(m)
  BY LocalTypes DEF Att
<1>1. ASSUME Fenced(m), Holding(m), NEW st \in RowStatus \ {"NONE"}, WriteRow(m, st)
      PROVE  a \in Attempts /\ ledger'[s][a] = st /\ IsLast(ledger, s, a)'
  <2>1. a \in Attempts /\ \A b \in Attempts : a < b => ~HasRow(ledger, s, b)
    BY <1>0, <1>1, OwnAttempt, RecordsEngaged
  <2>2. ledger'[s][a] = st /\ \A b \in Attempts : b # a => ledger'[s][b] = ledger[s][b]
    BY <1>0, <1>1, <2>1 DEF WriteRow, Ledger
  <2> QED
    BY <1>1, <2>1, <2>2 DEF IsLast, HasRow, Attempts
<1>2. CASE SaveOK(m) \/ RecordApplied(m)
  <2>1. Holding(m) /\ \E st \in {"SUCCEEDED", "SHADOWED"} : WriteRow(m, st)
    BY <1>2 DEF SaveOK, RecordApplied, Holding, Calling
  <2>2. Fenced(m)
    BY <2>1 DEF WriteRow, FencedStep, Fenced
  <2>3. a \in Attempts /\ ledger'[s][a] \in Done /\ IsLast(ledger, s, a)'
    BY <1>1, <2>1, <2>2 DEF Done, RowStatus
  <2> QED
    BY <2>3, OverFrom
<1>3. CASE SaveFailed(m)
  <2>1. Holding(m) /\ WriteRow(m, "FAILED") /\ Fenced(m) /\ pc[m] = "saveFailed"
    BY <1>3 DEF SaveFailed, Holding, Calling, WriteRow, FencedStep, Fenced
  <2>2. a \in Attempts /\ ledger'[s][a] = "FAILED" /\ IsLast(ledger, s, a)'
    BY <1>1, <2>1 DEF RowStatus
  <2>3. ~me[m].resuming /\ Step(m).onError = "continue"
    BY <1>3 DEF SaveFailed, PassedOn, NextStep, Goto, TypeOK
  <2>4. a >= Step(m).tries
    BY <1>0, <2>1, <2>3 DEF PInv, Rows, WorkerKinds
  <2> QED
    BY <2>2, <2>3, <2>4, OverFrom DEF Step
<1>4. CASE Skip(m)
  <2>1. Kind(s) = "SKIP" /\ 1 \in Attempts
    BY <1>4, BoundsAssumption DEF Skip, AtStep, Kind, Step, Attempts
  <2>2. ledger'[s][1] = "SKIPPED" /\ \A b \in Attempts : b # 1 => ledger'[s][b] = "NONE"
    <3>1. \A b \in Attempts : b # 1 => ledger[s][b] = "NONE"
      BY <2>1, BoundsAssumption DEF PInv, Rows, RowKinds, Attempts
    <3>2. ledger' = [ledger EXCEPT ![s][1] = "SKIPPED"]
      BY <1>4 DEF Skip
    <3> QED
      BY <2>1, <3>1, <3>2 DEF Ledger
  <2>3. IsLast(ledger, s, 1)'
    BY <2>1, <2>2 DEF IsLast, HasRow, Attempts
  <2> QED
    BY <2>1, <2>2, <2>3, OverFrom DEF Done
<1>5. CASE BadArgs(m)
  <2>1. Kind(s) = "BAD_ARGS" /\ a \in Attempts /\ ledger[s][a] = "NONE"
    BY <1>0, <1>5 DEF BadArgs, AtStep, Kind, Step
  <2>2. /\ ledger'[s][a] = "FAILED"
        /\ \A b \in Attempts : b # a => ledger'[s][b] = ledger[s][b]
    BY <1>0, <1>5, <2>1 DEF BadArgs, WriteRow, Ledger
  <2>3. \A b \in Attempts : a < b => ~HasRow(ledger, s, b)
    BY <2>1 DEF HasRow, IInv, Ownership, NoGaps
  <2>4. IsLast(ledger, s, a)'
    BY <2>1, <2>2, <2>3 DEF IsLast, HasRow, Attempts
  <2>5. skill.step[s].onError = "continue"
    BY <1>5 DEF BadArgs, PassedOn, NextStep, Goto, TypeOK, Step
  <2> QED
    BY <2>1, <2>2, <2>4, <2>5, OverFrom
<1>6. CASE Plan(m)
  <2>1. me'[m].cursor = me[m].cursor + 1
    BY NextStepEffect DEF PassedOn
  <2>2. me'[m].cursor # me[m].cursor
    BY <2>1, LocalTypes
  <2>3. Over(s)
    BY <1>6, <2>2, PlanIs DEF Planned, Resumes
  <2> QED
    BY <2>3, WorkerRows DEF RowsKept
<1> QED
  BY <1>2, <1>3, <1>4, <1>5, <1>6 DEF PassedOn

LEMMA PassedKept ==
  ASSUME IInv, PInv, OneRecoverer, NEW m \in Workers, WorkerStep(m)
  PROVE  Passed'
<1> TypeOK
  BY DEF IInv, Control
<1> SUFFICES ASSUME NEW s \in Steps
             PROVE  /\ s <= exec.cursor' => Over(s)'
                    /\ \A w \in Workers : s <= me'[w].cursor => Over(s)'
  BY DEF Passed
<1>1. Over(s) => Over(s)'
  BY WorkerRows DEF RowsKept
<1>2. /\ s <= exec.cursor => Over(s)
      /\ \A w \in Workers : s <= me[w].cursor => Over(s)
  BY DEF PInv, Progress, Passed
<1>3. s <= exec.cursor' => Over(s)'
  BY <1>1, <1>2, ExecFrom
<1>4. s <= me'[m].cursor => Over(s)'
  <2>1. CASE PassedOn(m)
    <3>1. me'[m].cursor = me[m].cursor + 1
      BY <2>1, NextStepEffect DEF PassedOn
    <3>2. s <= me'[m].cursor => s <= me[m].cursor \/ s = Cur(m)
      BY <3>1, LocalTypes DEF Cur, Steps
    <3> QED
      BY <1>1, <1>2, <2>1, <3>2, PassedIsOver
  <2>2. CASE ~PassedOn(m)
    <3>1. me'[m].cursor \in {0, me[m].cursor, exec.cursor}
      BY <2>2, Moved DEF Returned, Begun, Retried, Resumed, Resumes
    <3> QED
      BY <1>1, <1>2, <3>1 DEF Steps
  <2> QED
    BY <2>1, <2>2
<1> QED
  BY <1>1, <1>2, <1>3, <1>4, WorkerFrame


\* Who is engaged was, or begins an attempt.
LEMMA EngagedOther ==
  ASSUME IInv, OneRecoverer, NEW m \in Workers, WorkerStep(m), NEW x \in Workers \ {m}
  PROVE  /\ Engaged(x)' => Engaged(x)
         /\ Ending(x)' => Ending(x)
         /\ Cur(x)' = Cur(x) /\ Att(x)' = Att(x)
<1>1. pc'[x] = pc[x] /\ Cur(x)' = Cur(x) /\ Att(x)' = Att(x) /\ me'[x] = me[x]
  BY Unmoved
<1>2. Engaged(x)' \/ Ending(x)' => Holds(x)'
  BY DEF Engaged, Ending, Holds, Holding, Before, Calling, Inserting
<1>3. Engaged(x)' \/ Ending(x)' => Fenced(x)
  BY <1>2, HoldsFrame DEF Holds
<1> QED
  BY <1>1, <1>3, Unmoved DEF Engaged, Ending

Begins(m) ==
  \/ CreateAttempt(m) /\ me' = me
  \/ /\ Plan(m)
     /\ \E a : /\ Found(m, a, {"PENDING", "FAILED", "UNKNOWN_OUTCOME"})
               /\ ledger[Cur(m)][a] = "FAILED" => a < Step(m).tries

LEMMA EngagedFrom ==
  ASSUME IInv, OneRecoverer, NEW m \in Workers, WorkerStep(m), Engaged(m)'
  PROVE  /\ Fenced(m) /\ Cur(m)' = Cur(m)
         /\ \/ Begins(m)
            \/ /\ Engaged(m)
               /\ \/ Holding(m) /\ Holding(m)' /\ Att(m)' = Att(m)
                  \/ Inserting(m)
                  \/ Retried(m)
<1>1. CASE Holding(m)'
  <2>1. CASE me' = me /\ Holding(m)
    <3>1. Cur(m)' = Cur(m) /\ Att(m)' = Att(m) /\ Fenced(m)
      BY <2>1, StillFenced DEF Cur, Att, Engaged, Holding, Before, Calling
    <3> QED
      BY <1>1, <2>1, <3>1 DEF Engaged
  <2>2. CASE me' = me /\ CreateAttempt(m)
    <3>1. Cur(m)' = Cur(m) /\ Fenced(m)
      BY <2>2, StillFenced DEF Cur, CreateAttempt, AtStep, Engaged
    <3> QED
      BY <2>2, <3>1 DEF Begins
  <2>3. CASE ResumesPending(m) \/ ResumesUnknown(m)
    <3>1. PICK a : Found(m, a, {"PENDING", "UNKNOWN_OUTCOME"})
      BY <2>3 DEF ResumesPending, ResumesUnknown, Found
    <3>2. Plan(m) /\ Cur(m)' = Cur(m)
      BY <2>3 DEF ResumesPending, ResumesUnknown, Resumes, Cur
    <3>3. Begins(m)
      BY <3>1, <3>2 DEF Found, Begins
    <3> QED
      BY <3>2, <3>3, PlanIs
  <2> QED
    BY <1>1, <2>1, <2>2, <2>3, HoldingFrom
<1>2. CASE Inserting(m)' /\ Att(m)' > 1
  <2>1. CASE me' = me /\ Inserting(m)
    <3>1. Cur(m)' = Cur(m) /\ Att(m)' = Att(m) /\ Fenced(m)
      BY <2>1, StillFenced DEF Cur, Att, Engaged, Inserting
    <3> QED
      BY <1>2, <2>1, <3>1 DEF Engaged
  <2>2. CASE Retried(m)
    <3>1. Cur(m)' = Cur(m) /\ Fenced(m) /\ Holding(m)
      BY <2>2, StillFenced DEF Retried, Cur, Engaged, Holding, Before, Calling
    <3> QED
      BY <2>2, <3>1 DEF Engaged
  <2>3. CASE ResumesNext(m)
    <3>1. PICK a : /\ Found(m, a, {"FAILED", "UNKNOWN_OUTCOME"})
                   /\ Resumes(m, a, "persist", a + 1, FALSE)
                   /\ ledger[Cur(m)][a] = "FAILED" => a < Step(m).tries
      BY <2>3 DEF ResumesNext
    <3>2. Plan(m) /\ Cur(m)' = Cur(m)
      BY <2>3, <3>1 DEF ResumesNext, Resumes, Cur
    <3>3. Begins(m)
      BY <3>1, <3>2 DEF Found, Begins
    <3> QED
      BY <3>2, <3>3, PlanIs
  <2>4. CASE Att(m)' = 1
    BY <1>2, <2>4
  <2> QED
    BY <1>2, <2>1, <2>2, <2>3, <2>4, InsertingFrom
<1> QED
  BY <1>1, <1>2 DEF Engaged

\* What a worker begins is not over.
LEMMA BegunNotOver ==
  ASSUME IInv, PInv, OneRecoverer, NEW m \in Workers, WorkerStep(m), Begins(m), Fenced(m),
         NEW s \in Steps, s = Cur(m), Kind(s) = "CALL"
  PROVE  ~Over(s) /\ ~Holding(m)
<1>1. CASE CreateAttempt(m)
  <2>1. pc[m] = "step" /\ Att(m) \in Attempts /\ ~HasRow(ledger, s, Att(m))
    BY <1>1 DEF CreateAttempt, AtStep, HasRow
  <2>2. ASSUME Over(s) PROVE FALSE
    <3>1. HasRow(ledger, s, 1)
      BY <2>2, StepOver
    <3>2. Att(m) > 1
      BY <2>1, <3>1, BoundsAssumption DEF Attempts
    <3> QED
      BY <2>1, <2>2, <3>2 DEF Engaged, Inserting, PInv, Progress, OverIsLeft
  <2> QED
    BY <2>1, <2>2 DEF Holding, Before, Calling
<1>2. CASE Plan(m)
  <2>1. PICK a : /\ Found(m, a, {"PENDING", "FAILED", "UNKNOWN_OUTCOME"})
                 /\ ledger[Cur(m)][a] = "FAILED" => a < Step(m).tries
    BY <1>2 DEF Begins, CreateAttempt, AtStep, Plan, Planning
  <2>2. skill.step[s].tries \in Nat
    BY DEF IInv, Control, TypeOK, SkillSpec, StepSpec
  <2>3. ASSUME NEW b \in Attempts, IsLast(ledger, s, b) PROVE b = a
    BY <2>1, <2>3 DEF Found, IsLast, Attempts
  <2>4. ~Over(s)
    BY <2>1, <2>2, <2>3 DEF Over, Found, Done, Step, Attempts
  <2> QED
    BY <1>2, <2>4 DEF Plan, Planning, Holding, Before, Calling
<1> QED
  BY <1>1, <1>2 DEF Begins

LEMMA OverIsLeftKept ==
  ASSUME IInv, PInv, OneRecoverer, NEW m \in Workers, WorkerStep(m)
  PROVE  OverIsLeft'
<1> skill' = skill
  BY WorkerFrame
<1> SUFFICES ASSUME NEW s \in Steps, NEW w \in Workers, Over(s)', Kind(s) = "CALL",
                    Engaged(w)', Cur(w)' = s
             PROVE  FALSE
  BY DEF OverIsLeft, Kind
<1>1. \/ Over(s)
      \/ /\ Fenced(m) /\ Holding(m) /\ s = Cur(m)
         /\ ledger'[s][Att(m)] \in {"SUCCEEDED", "SHADOWED", "FAILED"}
  BY WorkerRows DEF RowsKept
<1>2. CASE w # m
  <2>1. Engaged(w) /\ Cur(w) = s
    BY <1>2, EngagedOther
  <2>2. ~Over(s)
    BY <2>1 DEF PInv, Progress, OverIsLeft
  <2>3. Engaged(m) /\ Holds(m)
    BY <1>1, <2>2, EngagedHolds DEF Engaged
  <2> QED
    BY <1>2, <2>1, <2>3 DEF PInv, Progress, OneEngaged
<1>3. CASE w = m
  <2>0. Fenced(m) /\ s = Cur(m)
    BY <1>3, EngagedFrom
  <2>1. CASE Begins(m)
    BY <1>1, <2>0, <2>1, BegunNotOver
  <2>2. CASE Engaged(m)
    <3>1. ~Over(s)
      BY <2>0, <2>2 DEF PInv, Progress, OverIsLeft
    <3>2. CASE Holding(m)' /\ Att(m)' = Att(m)
      <4>1. ledger'[s][Att(m)] \in {"PENDING", "RUNNING", "UNKNOWN_OUTCOME"}
        BY <1>3, <3>2, HeldRowsOwn DEF Engaged, Holding
      <4> QED
        BY <1>1, <3>1, <4>1
    <3>3. CASE Inserting(m)
      BY <1>1, <3>1, <3>3 DEF Holding, Before, Calling, Inserting
    <3>4. CASE Retried(m)
      <4>1. Holding(m) /\ Att(m) \in Attempts
        BY <3>4, OwnAttempt DEF Retried
      <4>2. CASE SaveUnknown(m)
        <5>1. ledger'[s][Att(m)] = "UNKNOWN_OUTCOME"
          BY <2>0, <4>1, <4>2 DEF SaveUnknown, WriteRow, IInv, Control, TypeOK, Ledger
        <5> QED
          BY <1>1, <3>1, <5>1
      <4>3. CASE AnswerFailed(m) \/ Query(m)
        <5>1. ledger' = ledger /\ (Calling(m) \/ pc[m] = "query")
          BY <4>3 DEF AnswerFailed, Query, Calling
        <5>2. ledger'[s][Att(m)] \in {"RUNNING", "UNKNOWN_OUTCOME"}
          BY <2>0, <5>1 DEF PInv, Rows, HeldRows
        <5> QED
          BY <1>1, <3>1, <5>2
      <4> QED
        BY <3>4, <4>2, <4>3 DEF Retried
    <3> QED
      BY <1>3, <2>1, <3>2, <3>3, <3>4, EngagedFrom
  <2> QED
    BY <1>3, <2>1, <2>2, EngagedFrom
<1> QED
  BY <1>2, <1>3


LEMMA HoldsFrom ==
  ASSUME IInv, OneRecoverer, NEW m \in Workers, WorkerStep(m), Holds(m)'
  PROVE  Holds(m) \/ Begun(m)
<1> TypeOK /\ pc \in [Workers -> PCs]
  BY DEF IInv, Control, TypeOK
<1>0. pc'[m] \notin {"idle", "insert", "done", "claim", "get"}
  BY DEF Holds
<1>1. CASE pc[m] \in {"idle", "insert", "done"}
  <2>1. Lookup(m) \/ Insert(m) \/ List(m)
    BY <1>1, EarlySteps DEF Start, StaleLease, Refused, AtStep
  <2>2. Insert(m)
    BY <1>0, <2>1 DEF Lookup, List, Goto, Return
  <2>3. me'[m].attempt = 1 /\ ~me'[m].resuming
    BY <2>2 DEF Insert, Return, NoLocal, IInv, Control, Epochs, Unstarted, Att, TypeOK, Local
  <2>4. me'[m].cursor = me[m].cursor \/ me'[m].cursor = exec.cursor
    BY <1>0, <2>2 DEF Insert, Return, Goto, TypeOK, Local
  <2>5. pc[m] = "insert" /\ pc'[m] = "start"
    BY <1>0, <2>2 DEF Insert, Goto, Return
  <2> QED
    BY <2>2, <2>3, <2>4, <2>5 DEF Begun
<1>2. CASE pc[m] \in {"claim", "get"}
  <2>1. CASE Claim(m)
    BY <1>0, <2>1 DEF Claim, Goto, Return
  <2>2. CASE pc[m] = "get" /\ Get(m)
    <3>1. me'[m].attempt = 1 /\ ~me'[m].resuming
      BY <2>2 DEF Get, Return, NoLocal, IInv, Control, Epochs, Unstarted, Att, TypeOK, Local
    <3>2. me'[m].cursor = exec.cursor /\ pc'[m] = "read"
      BY <1>0, <2>2 DEF Get, Return, Goto, TypeOK, Local
    <3>3. m \in Recoverers
      BY <2>2 DEF Workers, IInv, Control, Epochs, RecoverOnlyPC, RecoverPC
    <3> QED
      BY <2>2, <3>1, <3>2, <3>3 DEF Begun
  <2> QED
    BY <1>2, <2>1, <2>2, ClaimSteps
<1>3. CASE pc[m] \notin {"idle", "insert", "done", "claim", "get"}
  <2>1. me'[m].epoch = me[m].epoch \/ Begun(m)
    <3>1. PassedOn(m) => me'[m].epoch = me[m].epoch
      BY NextStepEffect DEF PassedOn
    <3>2. ~Returned(m)
      BY <1>0 DEF Returned
    <3> QED
      BY <3>1, <3>2, Moved DEF Retried, Resumed, Resumes
  <2> QED
    BY <1>3, <2>1, StillFenced DEF Holds
<1> QED
  BY <1>1, <1>2, <1>3

\* A worker at a step without rows is not behind anyone.
LEMMA NoRowsAhead ==
  ASSUME IInv, PInv, NEW m \in Workers, Holds(m), NEW s \in Steps, s = Cur(m),
         ~HasRow(ledger, s, 1), NEW x \in Workers, x # m, Fenced(x)
  PROVE  me[x].cursor <= me[m].cursor /\ ~Engaged(x)
<1> TypeOK
  BY DEF IInv, Control
<1>1. ~Over(s)
  BY StepOver
<1>2. ~(s <= me[x].cursor)
  BY <1>1 DEF PInv, Progress, Passed
<1>3. me[x].cursor <= me[m].cursor
  BY <1>2, LocalTypes DEF Cur, Steps
<1>4. ASSUME Engaged(x) PROVE FALSE
  <2>1. Cur(x) \in Steps /\ HasRow(ledger, Cur(x), 1)
    BY <1>4, EngagedHasRow
  <2>2. me[m].cursor <= me[x].cursor
    BY <1>4, <2>1 DEF PInv, Progress, OneEngaged
  <2>3. Cur(x) = s
    BY <1>3, <2>2, LocalTypes DEF Cur
  <2> QED
    BY <2>1, <2>3
<1> QED
  BY <1>3, <1>4

\* Nobody who is not engaged goes on from a step where another worker is engaged or will
\* fail the execution.
LEMMA NobodyBeside ==
  ASSUME IInv, PInv, NEW m \in Workers, ~Engaged(m), Fenced(m), NEW w \in Workers, w # m,
         Engaged(w) \/ Ending(w), NEW s \in Steps, s = Cur(m), pc[m] = "step",
         \/ Kind(s) = "SKIP"
         \/ Kind(s) = "BAD_ARGS" /\ Step(m).onError = "continue" /\ ledger[s][Att(m)] = "NONE"
         \/ Kind(s) = "CALL" /\ ledger[s][Att(m)] = "NONE"
  PROVE  Cur(w) \in Steps /\ me[m].cursor < me[w].cursor
<1> TypeOK
  BY DEF IInv, Control
<1>1. Att(m) = 1
  <2>1. ~(Att(m) > 1)
    BY DEF Engaged, Inserting
  <2> QED
    BY <2>1, LocalTypes DEF Att
<1>2. Holds(m)
  BY DEF Holds
<1>3. Cur(w) \in Steps
  <2>1. CASE Engaged(w)
    BY <2>1, EngagedHasRow
  <2>2. CASE Ending(w) /\ skill.precondition
    BY <2>2 DEF PInv, Progress, FailReason
  <2>3. CASE ~skill.precondition
    <3>1. NSteps = 0
      BY <2>3 DEF PInv, Rows, Unmet
    <3> QED
      BY <3>1 DEF Steps
  <2> QED
    BY <2>1, <2>2, <2>3
<1>4. me[m].cursor <= me[w].cursor
  BY <1>2, <1>3 DEF PInv, Progress, OneEngaged
<1>5. ASSUME Cur(w) = s PROVE FALSE
  <2>1. CASE Engaged(w)
    <3>1. HasRow(ledger, s, 1) /\ Kind(s) \in {"CALL", "BAD_ARGS"}
      BY <1>5, <2>1, EngagedHasRow
    <3> QED
      BY <1>1, <3>1 DEF HasRow
  <2>2. CASE Ending(w) /\ skill.precondition
    <3>1. \/ Kind(s) = "BAD_WHEN"
          \/ Kind(s) = "BAD_ARGS" /\ Step(w).onError = "fail"
          \/ Kind(s) = "CALL" /\ \E a \in Attempts : HasRow(ledger, s, a)
      BY <1>5, <2>2 DEF PInv, Progress, FailReason
    <3>2. CASE Kind(s) = "CALL"
      <4>1. PICK a \in Attempts : HasRow(ledger, s, a)
        BY <3>1, <3>2
      <4>2. HasRow(ledger, s, 1)
        <5>1. 1 \in Attempts /\ (a = 1 \/ 1 < a)
          BY BoundsAssumption DEF Attempts
        <5> QED
          BY <4>1, <5>1 DEF IInv, Ownership, NoGaps
      <4> QED
        BY <1>1, <3>2, <4>2 DEF HasRow
    <3>3. Step(w) = Step(m)
      BY <1>5 DEF Step
    <3> QED
      BY <3>1, <3>2, <3>3
  <2>3. CASE ~skill.precondition
    <3>1. NSteps = 0
      BY <2>3 DEF PInv, Rows, Unmet
    <3> QED
      BY <3>1 DEF Steps
  <2> QED
    BY <2>1, <2>2, <2>3
<1> QED
  BY <1>3, <1>4, <1>5, LocalTypes DEF Cur


\* The worker that steps is engaged, or about to fail the execution.
LEMMA MoverEngaged ==
  ASSUME IInv, PInv, OneRecoverer, NEW m \in Workers, WorkerStep(m), Engaged(m)' \/ Ending(m)',
         NEW x \in Workers, x # m, Holds(x)
  PROVE  (Cur(m)' \in Steps => me[x].cursor <= me'[m].cursor) /\ ~Engaged(x)
<1> TypeOK /\ pc \in [Workers -> PCs]
  BY DEF IInv, Control, TypeOK
<1>1. Fenced(x)
  BY DEF Holds
<1>2. ~Plan(m)
  BY <1>1, PlanIs
<1>3. ASSUME Engaged(m), me'[m].cursor = me[m].cursor
      PROVE  (Cur(m)' \in Steps => me[x].cursor <= me'[m].cursor) /\ ~Engaged(x)
  BY <1>3 DEF PInv, Progress, OneEngaged, Cur
<1>4. ASSUME pc[m] = "step", Fenced(m), me' = me, NEW s \in Steps, s = Cur(m),
             ~HasRow(ledger, s, 1) \/ (Att(m) \in Attempts /\ ~HasRow(ledger, s, Att(m)))
      PROVE  (Cur(m)' \in Steps => me[x].cursor <= me'[m].cursor) /\ ~Engaged(x)
  <2>1. Holds(m)
    BY <1>4 DEF Holds
  <2>2. CASE ~HasRow(ledger, s, 1)
    BY <1>1, <1>4, <2>1, <2>2, NoRowsAhead
  <2>3. CASE HasRow(ledger, s, 1)
    <3>1. Att(m) > 1
      BY <1>4, <2>3, BoundsAssumption DEF Attempts
    <3>2. Engaged(m)
      BY <1>4, <3>1 DEF Engaged, Inserting
    <3> QED
      BY <1>3, <1>4, <3>2
  <2> QED
    BY <2>2, <2>3
<1>5. CASE Engaged(m)'
  <2>1. CASE Engaged(m)
    <3>1. Cur(m)' = Cur(m)
      BY <1>5, EngagedFrom
    <3>2. me'[m].cursor = me[m].cursor
      <4>1. me'[m].cursor \in Nat
        <5>1. TypeOK'
          BY TypeStep DEF Next
        <5> QED
          BY <5>1 DEF TypeOK, Local
      <4> QED
        BY <3>1, <4>1, LocalTypes DEF Cur
    <3> QED
      BY <1>3, <2>1, <3>2
  <2>2. CASE Begins(m)
    <3>1. CreateAttempt(m) /\ me' = me /\ Fenced(m)
      BY <1>2, <1>5, <2>2, EngagedFrom DEF Begins
    <3>2. Cur(m) \in Steps
      BY <3>1, CurrentStep DEF CreateAttempt, AtStep
    <3> QED
      BY <1>4, <3>1, <3>2 DEF CreateAttempt, AtStep, HasRow
  <2> QED
    BY <1>5, <2>1, <2>2, EngagedFrom
<1>6. CASE Ending(m)'
  <2>1. pc'[m] = "fail" /\ Fenced(m)'
    BY <1>6 DEF Ending
  <2>2. Start(m) \/ BadWhen(m) \/ BadArgs(m) \/ SaveFailed(m)
    BY <1>2, <2>1, WhereFrom
  <2>3. me' = me
    BY <2>1, <2>2 DEF Start, BadWhen, BadArgs, SaveFailed, NextStep, Goto
  <2>4. Fenced(m)
    BY <2>1, <2>2, <2>3, StillFenced DEF Start, BadWhen, BadArgs, SaveFailed, AtStep
  <2>5. CASE Start(m)
    <3>1. ~skill.precondition
      BY <2>1, <2>5 DEF Start, Goto
    <3>2. \A s \in Steps, a \in Attempts : ~HasRow(ledger, s, a)
      BY <3>1 DEF PInv, Rows, Unmet
    <3>3. ~Engaged(x)
      BY <3>2, EngagedHasRow
    <3>4. NSteps # 0 => me[x].cursor = 0
      BY <3>1, LocalTypes DEF PInv, Rows, Unmet
    <3>5. Cur(m)' \in Steps => NSteps # 0
      BY BoundsAssumption DEF Steps
    <3> QED
      BY <2>3, <3>3, <3>4, <3>5, LocalTypes
  <2>6. CASE SaveFailed(m)
    <3>1. Engaged(m)
      BY <2>4, <2>6 DEF SaveFailed, Engaged, Holding, Calling
    <3> QED
      BY <1>3, <2>3, <3>1
  <2>7. CASE BadWhen(m)
    <3>1. Cur(m) \in Steps /\ pc[m] = "step" /\ Kind(Cur(m)) = "BAD_WHEN" /\ 1 \in Attempts
      BY <2>7, CurrentStep, BoundsAssumption DEF BadWhen, AtStep, Kind, Step, Attempts
    <3>2. ~HasRow(ledger, Cur(m), 1)
      BY <3>1 DEF PInv, Rows, RowKinds
    <3> QED
      BY <1>4, <2>3, <2>4, <3>1, <3>2
  <2>8. CASE BadArgs(m)
    <3>1. /\ Cur(m) \in Steps /\ pc[m] = "step"
          /\ Att(m) \in Attempts /\ ~HasRow(ledger, Cur(m), Att(m))
      BY <2>8, CurrentStep DEF BadArgs, AtStep, HasRow
    <3> QED
      BY <1>4, <2>3, <2>4, <3>1
  <2> QED
    BY <2>2, <2>5, <2>6, <2>7, <2>8
<1> QED
  BY <1>5, <1>6

\* Another worker is, and the one that steps holds the lease as well.
LEMMA MoverBeside ==
  ASSUME IInv, PInv, OneRecoverer, NEW m \in Workers, WorkerStep(m), Holds(m)',
         NEW w \in Workers, w # m, Engaged(w) \/ Ending(w)
  PROVE  (Cur(w) \in Steps => me'[m].cursor <= me[w].cursor) /\ ~Engaged(m)'
<1> TypeOK /\ pc \in [Workers -> PCs]
  BY DEF IInv, Control, TypeOK
<1>0. Fenced(w)
  BY DEF Engaged, Ending
<1>1. ~Plan(m) /\ ~Get(m)
  <2>1. ~Plan(m)
    BY <1>0, PlanIs
  <2>2. ASSUME Get(m) PROVE FALSE
    <3>1. m \in Recoverers /\ pc[m] = "get"
      BY <2>2 DEF Get, Workers, IInv, Control, Epochs, RecoverOnlyPC, RecoverPC
    <3> QED
      BY <1>0, <3>1, AloneInRecovery
  <2> QED
    BY <2>1, <2>2
<1>2. CASE Begun(m)
  <2>1. Insert(m) /\ pc'[m] = "start" /\ Att(m)' = 1
    BY <1>1, <1>2 DEF Begun, Att
  <2>2. ~Engaged(m)'
    BY <2>1 DEF Engaged, Holding, Before, Calling
  <2>3. exec.status \in {"ABSENT", "PENDING"}
    BY <2>1 DEF Insert, Goto, Return
  <2>4. me'[m].cursor = 0
    BY <1>2, <2>3 DEF Begun, PInv, Rows, Phases
  <2> QED
    BY <2>2, <2>4, LocalTypes
<1>3. CASE Holds(m)
  <2>1. ~Engaged(m) /\ Fenced(m) /\ (Cur(w) \in Steps => me[m].cursor <= me[w].cursor)
    BY <1>3 DEF PInv, Progress, OneEngaged, Holds
  <2>2. ~Engaged(m)'
    <3>1. SUFFICES ASSUME CreateAttempt(m) PROVE FALSE
      BY <1>1, <2>1, EngagedFrom DEF Begins
    <3>2. /\ Cur(m) \in Steps /\ Kind(Cur(m)) = "CALL"
          /\ ledger[Cur(m)][Att(m)] = "NONE" /\ pc[m] = "step"
      BY <3>1, CurrentStep DEF CreateAttempt, AtStep, Kind, Step
    <3>3. me[m].cursor < me[w].cursor
      BY <2>1, <3>2, NobodyBeside
    <3>4. Cur(m) <= me[w].cursor
      BY <3>3, LocalTypes DEF Cur
    <3>5. HasRow(ledger, Cur(m), 1)
      BY <3>2, <3>4, StepOver DEF PInv, Progress, Passed
    <3>6. Att(m) = 1
      BY <2>1, <3>2, LocalTypes DEF Engaged, Inserting, Att
    <3> QED
      BY <3>2, <3>5, <3>6 DEF HasRow
  <2>3. Cur(w) \in Steps => me'[m].cursor <= me[w].cursor
    <3>1. CASE PassedOn(m)
      <4>1. Skip(m) \/ BadArgs(m)
        <5>1. SaveOK(m) \/ SaveFailed(m) \/ RecordApplied(m) => Holding(m)
          BY DEF SaveOK, SaveFailed, RecordApplied, Holding, Calling
        <5> QED
          BY <1>1, <2>1, <3>1, <5>1 DEF PassedOn, Engaged
      <4>2. Cur(m) \in Steps /\ pc[m] = "step"
        BY <4>1, CurrentStep DEF Skip, BadArgs, AtStep
      <4>3. \/ Kind(Cur(m)) = "SKIP"
            \/ /\ Kind(Cur(m)) = "BAD_ARGS" /\ Step(m).onError = "continue"
               /\ ledger[Cur(m)][Att(m)] = "NONE"
        <5>1. CASE Skip(m)
          BY <5>1 DEF Skip, AtStep, Kind, Step
        <5>2. CASE BadArgs(m)
          BY <3>1, <5>2 DEF BadArgs, AtStep, Kind, Step, PassedOn, NextStep, Goto
        <5> QED
          BY <4>1, <5>1, <5>2
      <4>4. me[m].cursor < me[w].cursor
        BY <2>1, <4>2, <4>3, NobodyBeside
      <4>5. me'[m].cursor = me[m].cursor + 1
        BY <3>1, NextStepEffect DEF PassedOn
      <4> QED
        BY <4>4, <4>5, LocalTypes
    <3>2. CASE ~PassedOn(m)
      <4>1. ~Returned(m)
        BY DEF Returned, Holds
      <4>2. ~Begun(m) => me'[m].cursor = me[m].cursor
        BY <3>2, <4>1, Moved DEF Retried, Resumed, Resumes
      <4> QED
        BY <1>2, <2>1, <4>2
    <3> QED
      BY <3>1, <3>2
  <2> QED
    BY <2>2, <2>3
<1> QED
  BY <1>2, <1>3, HoldsFrom

LEMMA OneEngagedKept ==
  ASSUME IInv, PInv, OneRecoverer, NEW m \in Workers, WorkerStep(m)
  PROVE  OneEngaged'
<1> SUFFICES ASSUME NEW w \in Workers, NEW x \in Workers, x # w,
                    Engaged(w)' \/ Ending(w)', Holds(x)'
             PROVE  (Cur(w)' \in Steps => me'[x].cursor <= me'[w].cursor) /\ ~Engaged(x)'
  BY DEF OneEngaged
<1>1. CASE w = m
  <2>1. Holds(x) /\ me'[x] = me[x] /\ (Engaged(x)' => Engaged(x))
    BY <1>1, HoldsFrame, WorkerFrame, EngagedOther
  <2> QED
    BY <1>1, <2>1, MoverEngaged
<1>2. CASE w # m
  <2>1. (Engaged(w) \/ Ending(w)) /\ me'[w] = me[w] /\ Cur(w)' = Cur(w)
    BY <1>2, EngagedOther, WorkerFrame
  <2>2. CASE x = m
    BY <1>2, <2>1, <2>2, MoverBeside
  <2>3. CASE x # m
    <3>1. Holds(x) /\ me'[x] = me[x] /\ (Engaged(x)' => Engaged(x))
      BY <2>3, HoldsFrame, WorkerFrame, EngagedOther
    <3> QED
      BY <2>1, <3>1 DEF PInv, Progress, OneEngaged
  <2> QED
    BY <2>2, <2>3
<1> QED
  BY <1>1, <1>2


LEMMA FailReasonKept ==
  ASSUME IInv, PInv, OneRecoverer, NEW m \in Workers, WorkerStep(m)
  PROVE  FailReason'
<1> TypeOK /\ pc \in [Workers -> PCs] /\ skill' = skill
  BY WorkerFrame DEF IInv, Control, TypeOK
<1> SUFFICES ASSUME NEW w \in Workers, Ending(w)', skill.precondition
             PROVE  \E s \in Steps :
                      /\ s = Cur(w)'
                      /\ \/ Kind(s) = "BAD_WHEN"
                         \/ Kind(s) = "BAD_ARGS" /\ skill.step[s].onError = "fail"
                         \/ Kind(s) = "CALL" /\ \E a \in Attempts : HasRow(ledger', s, a)
  BY DEF FailReason, Kind, Step
<1>0. \A s \in Steps, a \in Attempts : HasRow(ledger, s, a) => HasRow(ledger', s, a)
  BY WorkerRows DEF RowsKept
<1>1. CASE w # m
  <2>1. Ending(w) /\ Cur(w)' = Cur(w)
    BY <1>1, EngagedOther
  <2> QED
    BY <1>0, <2>1 DEF PInv, Progress, FailReason, Step
<1>2. CASE w = m
  <2>1. pc'[m] = "fail"
    BY <1>2 DEF Ending
  <2>2. Start(m) \/ BadWhen(m) \/ BadArgs(m) \/ SaveFailed(m) \/ Plan(m)
    BY <2>1, WhereFrom
  <2>3. CASE Start(m)
    BY <2>1, <2>3 DEF Start, Goto
  <2>4. CASE BadWhen(m) \/ BadArgs(m)
    <3>1. me' = me /\ Cur(m)' = Cur(m) /\ Cur(m) \in Steps
      BY <2>1, <2>4, CurrentStep DEF BadWhen, BadArgs, AtStep, NextStep, Goto, Cur
    <3>2. skill.step[Cur(m)].onError \in {"fail", "continue"}
      BY <3>1 DEF TypeOK, SkillSpec, StepSpec
    <3> QED
      BY <1>2, <2>1, <2>4, <3>1, <3>2 DEF BadWhen, BadArgs, AtStep, Step, Kind, NextStep, Goto
  <2>5. CASE SaveFailed(m)
    <3>1. me' = me /\ Cur(m)' = Cur(m) /\ Holding(m)
      BY <2>1, <2>5 DEF SaveFailed, NextStep, Goto, Cur, Holding, Calling
    <3>2. Cur(m) \in Steps /\ Att(m) \in Attempts /\ HasRow(ledger, Cur(m), Att(m))
      BY <3>1, OwnAttempt, RowOf
    <3> QED
      BY <1>0, <1>2, <3>1, <3>2 DEF PInv, Rows, WorkerKinds
  <2>6. CASE Plan(m)
    <3>1. PICK a : Found(m, a, {"FAILED"}) /\ me' = me /\ Step(m).onError = "fail"
      <4>1. Planned(m)
        BY <2>6, PlanIs
      <4>2. \A p : NextStep(m, p) => pc'[m] = p
        BY DEF NextStep, Goto
      <4> QED
        BY <2>1, <4>1, <4>2 DEF Planned, Resumes
    <3>2. Cur(m)' = Cur(m)
      BY <3>1 DEF Cur
    <3>3. Kind(Cur(m)) \in {"CALL", "BAD_ARGS"}
      BY <3>1 DEF Found, PInv, Rows, RowKinds, HasRow, TypeOK, SkillSpec, StepSpec, Kind
    <3> QED
      BY <1>0, <1>2, <3>1, <3>2, <3>3 DEF Found, HasRow, Step
  <2> QED
    BY <2>2, <2>3, <2>4, <2>5, <2>6
<1> QED
  BY <1>1, <1>2

\* An attempt turns hot when a worker begins it.
LEMMA HotFrom ==
  ASSUME IInv, PInv, OneRecoverer, NEW m \in Workers, WorkerStep(m),
         NEW x \in Workers, NEW s \in Steps, NEW a \in Attempts, Hot(x, s, a)'
  PROVE  \/ Hot(x, s, a)
         \/ x = m /\ Engaged(m)' /\ (CreateAttempt(m) \/ Plan(m))
<1> TypeOK /\ request \in [Steps -> [Attempts -> [Workers -> Request]]]
  BY DEF IInv, Control, TypeOK
<1>1. CASE x # m
  <2>1. /\ request'[s][a][x] = request[s][a][x] /\ pc'[x] = pc[x] /\ me'[x] = me[x]
        /\ Cur(x)' = Cur(x) /\ Att(x)' = Att(x)
    BY <1>1, WorkerFrame, Unmoved
  <2>2. Before(x)' /\ Fenced(x)' => Fenced(x) /\ Before(x)
    <3>1. Before(x)' /\ Fenced(x)' => Holds(x)'
      BY DEF Holds, Before
    <3> QED
      BY <1>1, <2>1, <3>1, HoldsFrame DEF Holds, Before
  <2> QED
    BY <2>1, <2>2 DEF Hot, At
<1>2. CASE x = m
  <2>1. CASE request'[s][a][m] \in {"sent", "applied"}
    <3>1. CASE request' = request
      BY <1>2, <2>1, <3>1 DEF Hot
    <3>2. CASE Invoke(m)
      <4>1. CASE At(m, s, a)
        BY <1>2, <3>2, <4>1 DEF Invoke, Hot
      <4>2. CASE ~At(m, s, a)
        <5>1. request'[s][a][m] = request[s][a][m]
          BY <3>2, <4>2 DEF Invoke, At
        <5> QED
          BY <1>2, <2>1, <5>1 DEF Hot
      <4> QED
        BY <4>1, <4>2
    <3> QED
      BY <3>1, <3>2, WorkerFrame
  <2>2. CASE At(m, s, a)' /\ pc'[m] = "invoke"
    <3>1. MarkRunning(m) /\ Before(m) /\ Fenced(m) /\ me' = me
      BY <2>2, WhereFrom DEF MarkRunning, WriteRow, FencedStep, Fenced, Before
    <3> QED
      BY <1>2, <2>2, <3>1 DEF Hot, At, Cur, Att
  <2>3. CASE At(m, s, a)' /\ Before(m)' /\ Fenced(m)'
    <3>1. Holding(m)' /\ Engaged(m)'
      BY <2>3 DEF Holding, Engaged
    <3>2. CASE Holding(m) /\ me' = me /\ pc'[m] # "persist"
      <4>1. pc'[m] = "mark"
        BY <2>3, <3>2 DEF Before
      <4>2. Resume(m) \/ CreateAttempt(m)
        BY <4>1, WhereFrom
      <4>3. CASE Resume(m)
        <5>1. Before(m) /\ Fenced(m)
          BY <2>3, <3>2, <4>3, StillFenced DEF Resume, Holding, Before, Calling
        <5> QED
          BY <1>2, <2>3, <3>2, <5>1 DEF Hot, At, Cur, Att
      <4> QED
        BY <1>2, <3>1, <4>2, <4>3
    <3> QED
      BY <1>2, <3>1, <3>2, HoldingFrom DEF ResumesPending, ResumesUnknown
  <2> QED
    BY <1>2, <2>1, <2>2, <2>3 DEF Hot
<1> QED
  BY <1>1, <1>2

LEMMA HotHasRow ==
  ASSUME IInv, PInv, NEW x \in Workers, NEW s \in Steps, NEW a \in Attempts, Hot(x, s, a)
  PROVE  HasRow(ledger, s, a) /\ Kind(s) = "CALL"
<1>1. HasRow(ledger, s, a)
  BY HotOwns, NoOwner
<1>2. Kind(s) = "CALL"
  BY DEF Hot, At, Holding, Calling, PInv, Rows, WorkerKinds
<1> QED
  BY <1>1, <1>2

\* When the last attempt of a non-idempotent step failed, none is hot.
LEMMA LastFailedIsCold ==
  ASSUME IInv, PInv, NEW s \in Steps, NonIdempotent(s), NEW b \in Attempts,
         IsLast(ledger, s, b), ledger[s][b] = "FAILED",
         NEW x \in Workers, NEW a \in Attempts
  PROVE  ~Hot(x, s, a)
<1>1. SUFFICES ASSUME Hot(x, s, a) PROVE FALSE
  OBVIOUS
<1>2. HasRow(ledger, s, a)
  BY <1>1, HotHasRow
<1>3. a = b \/ a < b
  BY <1>2 DEF IsLast, Attempts
<1>4. a # b
  BY <1>1 DEF IInv, Ownership, FailedIsCold
<1>5. HasRow(ledger, s, b)
  BY DEF HasRow
<1> QED
  BY <1>1, <1>3, <1>4, <1>5 DEF IInv, Ownership, LastIsHot

LEMMA OverIsCold ==
  ASSUME IInv, PInv, NEW s \in Steps, NonIdempotent(s), Over(s), Live,
         \A a \in Attempts : ledger[s][a] # "SUCCEEDED",
         NEW x \in Workers, NEW a \in Attempts
  PROVE  ~Hot(x, s, a)
<1>1. SUFFICES ASSUME Hot(x, s, a) PROVE FALSE
  OBVIOUS
<1>2. PICK b \in Attempts : IsLast(ledger, s, b) /\ ledger[s][b] \in Done \cup {"FAILED"}
  BY DEF Over
<1>3. Kind(s) = "CALL"
  BY <1>1, HotHasRow
<1>4. ledger[s][b] = "FAILED"
  BY <1>2, <1>3 DEF Done, PInv, Rows, RowKinds
<1> QED
  BY <1>1, <1>2, <1>4, LastFailedIsCold


\* A worker that turns to failing the execution leaves nothing hot.
LEMMA TurnsCold ==
  ASSUME IInv, IInv', PInv, OneRecoverer, NEW m \in Workers, WorkerStep(m), Ending(m)', Live,
         NEW x \in Workers, NEW s \in Steps, NEW a \in Attempts,
         Cur(m)' <= s, NonIdempotent(s), Hot(x, s, a)'
  PROVE  FALSE
<1> TypeOK /\ pc \in [Workers -> PCs] /\ skill' = skill /\ NonIdempotent(s)'
  BY WorkerFrame DEF IInv, Control, TypeOK, NonIdempotent
<1>1. pc'[m] = "fail"
  BY DEF Ending
<1>2. Hot(x, s, a)
  BY <1>1, HotFrom DEF Engaged, Holding, Before, Calling, Inserting
<1>3. HasRow(ledger, s, a) /\ Kind(s) = "CALL"
  BY <1>2, HotHasRow
<1>4. ASSUME NEW c \in Steps, c <= s, ~Over(c) PROVE s = c
  BY <1>3, <1>4 DEF PInv, Progress, BeyondIsOver, Steps
<1>5. Start(m) \/ BadWhen(m) \/ BadArgs(m) \/ SaveFailed(m) \/ Plan(m)
  BY <1>1, WhereFrom
<1>6. CASE Start(m)
  <2>1. ~skill.precondition
    BY <1>1, <1>6 DEF Start, Goto
  <2> QED
    BY <1>3, <2>1 DEF PInv, Rows, Unmet
<1>7. CASE BadWhen(m) \/ BadArgs(m)
  <2>1. /\ me' = me /\ Cur(m) \in Steps /\ Kind(Cur(m)) \in {"BAD_WHEN", "BAD_ARGS"}
        /\ Kind(Cur(m)) = "BAD_ARGS" => skill.step[Cur(m)].onError # "continue"
    BY <1>1, <1>7, CurrentStep
    DEF BadWhen, BadArgs, AtStep, Step, Kind, NextStep, Goto
  <2>2. Cur(m) <= s
    BY <2>1 DEF Cur
  <2>3. ~Over(Cur(m))
    BY <2>1 DEF Over, Done, HasRow, IsLast, PInv, Rows, RowKinds
  <2> QED
    BY <1>3, <1>4, <2>1, <2>2, <2>3
<1>8. CASE SaveFailed(m)
  <2>1. /\ me' = me /\ Holding(m) /\ pc[m] = "saveFailed"
        /\ WriteRow(m, "FAILED") /\ Fenced(m) /\ Cur(m)' = Cur(m)
    BY <1>1, <1>8
    DEF SaveFailed, NextStep, Goto, Holding, Calling, WriteRow, FencedStep, Fenced, Cur
  <2>2. /\ Cur(m) \in Steps /\ Att(m) \in Attempts
        /\ ~Over(Cur(m)) /\ HasRow(ledger, Cur(m), Att(m))
        /\ \A b \in Attempts : Att(m) < b => ~HasRow(ledger, Cur(m), b)
    BY <2>1, OwnAttempt, RowOf, RecordsEngaged
  <2>3. s = Cur(m)
    BY <1>4, <2>1, <2>2
  <2>4. a = Att(m) \/ a < Att(m)
    BY <1>3, <2>2, <2>3 DEF Attempts
  <2>5. CASE a = Att(m)
    <3>1. ledger'[s][a] = "FAILED"
      BY <2>1, <2>2, <2>3, <2>5 DEF WriteRow, TypeOK, Ledger
    <3> QED
      BY <3>1 DEF IInv, Ownership, FailedIsCold
  <2>6. CASE a < Att(m)
    BY <1>2, <2>2, <2>3, <2>6 DEF IInv, Ownership, LastIsHot
  <2> QED
    BY <2>4, <2>5, <2>6
<1>9. CASE Plan(m)
  <2>1. PICK b : /\ Found(m, b, {"FAILED"}) /\ me' = me /\ Step(m).onError = "fail"
    <3>1. Planned(m)
      BY <1>9, PlanIs
    <3>2. \A p : NextStep(m, p) => pc'[m] = p
      BY DEF NextStep, Goto
    <3> QED
      BY <1>1, <3>1, <3>2 DEF Planned, Resumes
  <2>2. Cur(m)' = Cur(m) /\ Cur(m) \in Steps /\ b \in Attempts /\ IsLast(ledger, Cur(m), b)
    BY <2>1 DEF Cur, Found
  <2>3. ledger[Cur(m)][b] = "FAILED"
    BY <2>1 DEF Found
  <2>4. ASSUME NEW c \in Attempts, IsLast(ledger, Cur(m), c) PROVE c = b
    BY <2>2, <2>4 DEF IsLast, Attempts
  <2>5. ~Over(Cur(m))
    BY <2>1, <2>3, <2>4 DEF Over, Done, Step
  <2>6. s = Cur(m)
    BY <1>4, <2>2, <2>5
  <2> QED
    BY <1>2, <2>2, <2>3, <2>6, LastFailedIsCold
<1> QED
  BY <1>5, <1>6, <1>7, <1>8, <1>9

LEMMA FailIsColdKept ==
  ASSUME IInv, IInv', PInv, OneRecoverer, NEW m \in Workers, WorkerStep(m)
  PROVE  FailIsCold'
<1> SUFFICES ASSUME NEW w \in Workers, NEW x \in Workers, NEW s \in Steps, NEW a \in Attempts,
                    Ending(w)', Live, Cur(w)' <= s, NonIdempotent(s), Hot(x, s, a)'
             PROVE  FALSE
  BY WorkerFrame DEF FailIsCold, Live, NonIdempotent
<1>1. CASE w = m
  BY <1>1, TurnsCold
<1>2. CASE w # m
  <2>1. Ending(w) /\ Cur(w)' = Cur(w)
    BY <1>2, EngagedOther
  <2>2. ~Hot(x, s, a)
    BY <2>1 DEF PInv, Progress, FailIsCold
  <2>3. Engaged(m)'
    BY <2>2, HotFrom
  <2>4. Holds(m)'
    BY <2>3 DEF Engaged, Holds, Holding, Before, Calling, Inserting
  <2>5. OneEngaged'
    BY OneEngagedKept
  <2> QED
    BY <1>2, <2>3, <2>4, <2>5 DEF OneEngaged
<1> QED
  BY <1>1, <1>2

LEMMA OutcomeIsColdKept ==
  ASSUME IInv, PInv, OneRecoverer, NEW m \in Workers, WorkerStep(m)
  PROVE  OutcomeIsCold'
<1> TypeOK /\ skill' = skill
  BY WorkerFrame DEF IInv, Control
<1> SUFFICES ASSUME exec.status' \in {"SUCCEEDED", "FAILED"}, Live,
                    NEW s \in Steps, NonIdempotent(s),
                    \A a \in Attempts : ledger'[s][a] # "SUCCEEDED",
                    NEW b \in Attempts, NEW w \in Workers, Hot(w, s, b)'
             PROVE  FALSE
  BY DEF OutcomeIsCold, Live, NonIdempotent
<1>1. CASE exec.status \in {"SUCCEEDED", "FAILED"}
  <2>1. ledger' = ledger
    BY <1>1, WritesAreFenced DEF Next, Terminal
  <2>2. ~Hot(w, s, b)
    BY <1>1, <2>1 DEF PInv, Progress, OutcomeIsCold
  <2>3. CreateAttempt(m) \/ Plan(m)
    BY <2>2, HotFrom
  <2>4. CASE CreateAttempt(m)
    BY <1>1, <2>4 DEF CreateAttempt, WriteRow, FencedStep
  <2>5. CASE Plan(m)
    BY <1>1, <2>5, PlanIs DEF PInv, Rows, Phases
  <2> QED
    BY <2>3, <2>4, <2>5
<1>2. CASE exec.status \notin {"SUCCEEDED", "FAILED"}
  <2>1. Succeed(m) \/ Finish(m)
    BY <1>2, ExecFrom
  <2>2. ledger' = ledger /\ pc'[m] \in {"idle", "done"}
    BY <2>1 DEF Succeed, Finish, Return, Goto, TypeOK
  <2>3. Hot(w, s, b)
    BY <2>2, HotFrom DEF Engaged, Holding, Before, Calling, Inserting
  <2>4. HasRow(ledger, s, b)
    BY <2>3, HotHasRow
  <2>5. ~Over(s)
    BY <2>2, <2>3, OverIsCold
  <2>6. CASE Succeed(m)
    <3>1. s <= me[m].cursor
      BY <2>4, <2>6, LocalTypes DEF Succeed, PInv, Rows, RowKinds, Steps, TypeOK, SkillSpec
    <3> QED
      BY <2>5, <3>1 DEF PInv, Progress, Passed
  <2>7. CASE Finish(m)
    <3>1. Ending(m)
      BY <1>2, <2>7, ExecFrom DEF Finish, Ending, Persist, FencedExec, Fenced, TypeOK, Exec
    <3>2. s <= me[m].cursor \/ Cur(m) <= s
      BY LocalTypes DEF Cur, Steps
    <3> QED
      BY <2>3, <2>5, <3>1, <3>2 DEF PInv, Progress, Passed, FailIsCold
  <2> QED
    BY <2>1, <2>6, <2>7
<1> QED
  BY <1>1, <1>2

LEMMA WorkerKeeps ==
  ASSUME IInv, IInv', PInv, OneRecoverer, NEW m \in Workers, WorkerStep(m)
  PROVE  PInv'
<1>1. Rows'
  BY WorkerRows, WorkerKindsKept, HeldRowsKept, UnmetKept, PhasesKept DEF Rows
<1>2. Progress'
  BY WorkerRows, PassedKept, OverIsLeftKept, OneEngagedKept, FailReasonKept, FailIsColdKept,
     OutcomeIsColdKept
  DEF Progress
<1> QED
  BY <1>1, <1>2 DEF PInv


-----------------------------------------------------------------------------
(* Tools, time and faults. *)

\* Nobody moves, no row is written, and a request may only cool down.
Still ==
  /\ UNCHANGED <<skill, ledger, pc, me>>
  /\ exec.status' = exec.status /\ exec.cursor' = exec.cursor /\ exec.epoch' = exec.epoch
  /\ \A s \in Steps, a \in Attempts, w \in Workers :
       /\ request'[s][a][w] # "none" => request[s][a][w] # "none"
       /\ request'[s][a][w] \in {"sent", "applied"} => request[s][a][w] \in {"sent", "applied"}

LEMMA StillSame ==
  ASSUME Still
  PROVE  /\ \A s \in Steps : Over(s)' <=> Over(s)
         /\ \A w \in Workers :
              /\ Cur(w)' = Cur(w) /\ Att(w)' = Att(w) /\ Step(w)' = Step(w)
              /\ (Fenced(w)' <=> Fenced(w)) /\ (Before(w)' <=> Before(w))
              /\ (Calling(w)' <=> Calling(w)) /\ (Holding(w)' <=> Holding(w))
              /\ (Inserting(w)' <=> Inserting(w)) /\ (Engaged(w)' <=> Engaged(w))
              /\ (Ending(w)' <=> Ending(w)) /\ (Holds(w)' <=> Holds(w))
              /\ \A s \in Steps, a \in Attempts : Hot(w, s, a)' => Hot(w, s, a)
<1>1. \A s \in Steps : Over(s)' <=> Over(s)
  BY DEF Still, Over, IsLast, HasRow, Kind
<1>2. ASSUME NEW w \in Workers
      PROVE  /\ Cur(w)' = Cur(w) /\ Att(w)' = Att(w) /\ Step(w)' = Step(w)
             /\ (Fenced(w)' <=> Fenced(w)) /\ (Before(w)' <=> Before(w))
             /\ (Calling(w)' <=> Calling(w)) /\ pc'[w] = pc[w]
  BY DEF Still, Cur, Att, Step, Fenced, Before, Calling
<1>3. ASSUME NEW w \in Workers
      PROVE  (Holding(w)' <=> Holding(w)) /\ (Inserting(w)' <=> Inserting(w))
  BY <1>2 DEF Still, Holding, Inserting
<1>4. ASSUME NEW w \in Workers
      PROVE  /\ (Engaged(w)' <=> Engaged(w)) /\ (Ending(w)' <=> Ending(w))
             /\ (Holds(w)' <=> Holds(w))
             /\ \A s \in Steps, a \in Attempts : Hot(w, s, a)' => Hot(w, s, a)
  BY <1>2, <1>3 DEF Still, Engaged, Ending, Holds, Hot, At
<1> QED
  BY <1>1, <1>2, <1>3, <1>4

LEMMA StillKeeps ==
  ASSUME PInv, Still
  PROVE  PInv'
<1>1. RowKinds' /\ BeyondIsOver'
  BY StillSame DEF Still, PInv, Rows, Progress, RowKinds, BeyondIsOver, HasRow, Kind, Live
<1>2. WorkerKinds'
  BY StillSame DEF Still, PInv, Rows, WorkerKinds, Kind
<1>3. HeldRows'
  BY StillSame DEF Still, PInv, Rows, HeldRows, HasRow
<1>4. Unmet' /\ Phases'
  BY DEF Still, PInv, Rows, Unmet, Phases, HasRow
<1>5. Passed' /\ OverIsLeft' /\ OneEngaged'
  BY StillSame DEF Still, PInv, Progress, Passed, OverIsLeft, OneEngaged, Kind
<1>6. FailReason'
  BY StillSame DEF Still, PInv, Progress, FailReason, Kind, HasRow
<1>7. FailIsCold' /\ OutcomeIsCold'
  BY StillSame DEF Still, PInv, Progress, FailIsCold, OutcomeIsCold, NonIdempotent, Live
<1> QED
  BY <1>1, <1>2, <1>3, <1>4, <1>5, <1>6, <1>7 DEF PInv, Rows, Progress

\* A worker gives up.
LEMMA LeaveKeeps ==
  ASSUME IInv, PInv, NEW m \in Workers, Return(m), UNCHANGED <<skill, exec, ledger, request>>
  PROVE  PInv'
<1> TypeOK /\ pc \in [Workers -> PCs] /\ me \in [Workers -> Local]
  BY DEF IInv, Control, TypeOK
<1>1. /\ pc'[m] \in {"idle", "done"} /\ me'[m] = NoLocal /\ me'[m].cursor = 0
      /\ (m \in Recoverers => pc'[m] = "idle")
      /\ \A x \in Workers \ {m} : pc'[x] = pc[x] /\ me'[x] = me[x]
  BY WorkersAssumption DEF Return, Goto, NoLocal
<1>2. /\ ~Holding(m)' /\ ~Inserting(m)' /\ ~Engaged(m)' /\ ~Ending(m)' /\ ~Holds(m)'
      /\ ~Before(m)' /\ ~Calling(m)' /\ pc'[m] \notin {"saveFailed", "step", "advance", "query"}
      /\ pc'[m] # "applied"
  BY <1>1 DEF Holding, Inserting, Engaged, Ending, Holds, Before, Calling
<1>3. ASSUME NEW w \in Workers, w # m
      PROVE  /\ Cur(w)' = Cur(w) /\ Att(w)' = Att(w) /\ Step(w)' = Step(w)
             /\ (Fenced(w)' <=> Fenced(w)) /\ (Before(w)' <=> Before(w))
             /\ (Calling(w)' <=> Calling(w)) /\ pc'[w] = pc[w] /\ me'[w] = me[w]
  BY <1>1, <1>3 DEF Cur, Att, Step, Fenced, Before, Calling
<1>4. ASSUME NEW w \in Workers, w # m
      PROVE  /\ (Holding(w)' <=> Holding(w)) /\ (Inserting(w)' <=> Inserting(w))
             /\ (Engaged(w)' <=> Engaged(w)) /\ (Ending(w)' <=> Ending(w))
             /\ (Holds(w)' <=> Holds(w))
  BY <1>3, <1>4 DEF Holding, Inserting, Engaged, Ending, Holds
<1>5. ASSUME NEW w \in Workers, NEW s \in Steps, NEW a \in Attempts, Hot(w, s, a)'
      PROVE  Hot(w, s, a)
  BY <1>1, <1>2, <1>3, <1>5 DEF Hot, At
<1>6. \A s \in Steps : Over(s)' <=> Over(s)
  BY DEF Over, IsLast, HasRow, Kind
<1>7. RowKinds' /\ BeyondIsOver'
  BY <1>6 DEF PInv, Rows, Progress, RowKinds, BeyondIsOver, HasRow, Kind, Live
<1>8. WorkerKinds'
  BY <1>2, <1>3, <1>4 DEF PInv, Rows, WorkerKinds, Kind
<1>9. HeldRows'
  BY <1>2, <1>3, <1>4 DEF PInv, Rows, HeldRows, HasRow
<1>10. Unmet' /\ Phases'
  BY <1>1, WorkersAssumption DEF PInv, Rows, Unmet, Phases, HasRow, Workers
<1>11. Passed' /\ OverIsLeft' /\ OneEngaged'
  <2>1. Passed'
    BY <1>1, <1>6 DEF PInv, Progress, Passed, Steps
  <2> QED
    BY <2>1, <1>2, <1>3, <1>4, <1>6 DEF PInv, Progress, OverIsLeft, OneEngaged, Kind
<1>12. FailReason' /\ FailIsCold' /\ OutcomeIsCold'
  BY <1>2, <1>3, <1>4, <1>5
  DEF PInv, Progress, FailReason, FailIsCold, OutcomeIsCold, NonIdempotent, Live, Kind, HasRow
<1> QED
  BY <1>7, <1>8, <1>9, <1>10, <1>11, <1>12 DEF PInv, Rows, Progress

LEMMA PInvStep ==
  ASSUME IInv, IInv', PInv, OneRecoverer, [Next]_vars
  PROVE  PInv'
<1>1. ASSUME NEW w \in Workers, WorkerStep(w) PROVE PInv'
  BY <1>1, WorkerKeeps
<1>2. ASSUME NEW w \in Workers, Abandon(w) PROVE PInv'
  BY <1>2, LeaveKeeps DEF Abandon
<1>3. ASSUME LeaseExpires \/ vars' = vars
      PROVE  PInv'
  <2>1. Still
    BY <1>3 DEF LeaseExpires, vars, Still, IInv, Control, TypeOK, Exec
  <2> QED
    BY <2>1, StillKeeps
<1>4. ASSUME NEW w \in Workers, Heartbeat(w) PROVE PInv'
  <2>1. Still
    BY <1>4 DEF Heartbeat, Still, IInv, Control, TypeOK, Exec
  <2> QED
    BY <2>1, StillKeeps
<1>5. ASSUME NEW s \in Steps, NEW a \in Attempts, NEW w \in Workers, ToolStep(s, a, w)
      PROVE  PInv'
  <2>1. \E v : request' = [request EXCEPT ![s][a][w] = v] /\ request[s][a][w] = "sent"
    BY <1>5 DEF ToolStep, ToolApplies, ToolRefuses, RequestLost
  <2>2. \A t \in Steps, b \in Attempts, x \in Workers :
          request'[t][b][x] = request[t][b][x] \/ request[t][b][x] = "sent"
    BY <2>1 DEF IInv, Control, TypeOK
  <2>3. UNCHANGED <<skill, exec, ledger, pc, me>>
    BY <1>5 DEF ToolStep, ToolApplies, ToolRefuses, RequestLost
  <2>4. Still
    BY <2>2, <2>3 DEF Still
  <2> QED
    BY <2>4, StillKeeps
<1> QED
  BY <1>1, <1>2, <1>3, <1>4, <1>5 DEF Next

LEMMA PInvInit == Init => PInv
<1> SUFFICES ASSUME Init PROVE PInv
  OBVIOUS
<1>1. \A s \in Steps, a \in Attempts : ledger[s][a] = "NONE"
  BY DEF Init, NoRows
<1>2. exec.status = "ABSENT" /\ exec.cursor = 0 /\ exec.epoch = 0
  BY DEF Init
<1>3. \A w \in Workers : pc[w] = "idle" /\ me[w].cursor = 0
  BY DEF Init, NoLocal
<1>4. \A w \in Workers : ~Holding(w) /\ ~Inserting(w) /\ ~Engaged(w) /\ ~Ending(w) /\ ~Holds(w)
  BY <1>3 DEF Holding, Inserting, Engaged, Ending, Holds, Before, Calling
<1>5. RowKinds /\ HeldRows /\ Unmet
  BY <1>1, <1>2, <1>3, <1>4
  DEF RowKinds, HeldRows, Unmet, HasRow, Before, Calling, Steps
<1>6. WorkerKinds
  BY <1>3, <1>4 DEF WorkerKinds, Init
<1>7. Phases
  BY <1>1, <1>2, <1>3 DEF Phases, Workers, HasRow
<1>8. Passed /\ BeyondIsOver
  BY <1>1, <1>2, <1>3 DEF Passed, BeyondIsOver, HasRow, Steps
<1>9. OverIsLeft /\ OneEngaged /\ FailReason /\ FailIsCold /\ OutcomeIsCold
  BY <1>2, <1>4 DEF OverIsLeft, OneEngaged, FailReason, FailIsCold, OutcomeIsCold
<1> QED
  BY <1>5, <1>6, <1>7, <1>8, <1>9 DEF PInv, Rows, Progress


\* What a tool does to a request, or nobody: an answered request stays as it is.
Answers ==
  /\ UNCHANGED <<skill, ledger, pc, me>>
  /\ \A s \in Steps, a \in Attempts, w \in Workers :
       request'[s][a][w] = request[s][a][w] \/ request[s][a][w] = "sent"

LEMMA AnswersStay ==
  ASSUME IInv, Answers, NEW w \in Workers, Holding(w), MyRequest(w) # "sent"
  PROVE  MyRequest(w)' = MyRequest(w)
BY OwnAttempt DEF Answers, MyRequest, Cur, Att

LEMMA EvidenceStill ==
  ASSUME IInv, Evidence, Answers
  PROVE  Evidence'
<1>1. \A w \in Workers : Cur(w)' = Cur(w) /\ Att(w)' = Att(w) /\ pc'[w] = pc[w]
  BY DEF Answers, Cur, Att
<1>2. \A s \in Steps : Applied(s) => Applied(s)'
  BY DEF Answers, Applied
<1>3. SendingIsFresh'
  <2>1. ASSUME NEW w \in Workers, pc[w] = "invoke" PROVE MyRequest(w)' = "none"
    BY <2>1, AnswersStay DEF Evidence, SendingIsFresh, Holding, Calling
  <2> QED
    BY <2>1 DEF Answers, SendingIsFresh
<1>4. AnswersAreTrue'
  <2>1. ASSUME NEW w \in Workers, pc[w] = "saveOK", Live
        PROVE  MyRequest(w)' \in {"applied", "replayed"}
    BY <2>1, AnswersStay DEF Evidence, AnswersAreTrue, Holding, Calling
  <2>2. ASSUME NEW w \in Workers, pc[w] = "applied" PROVE Applied(Cur(w))'
    <3>1. Cur(w) \in Steps /\ Applied(Cur(w))
      BY <2>2, OwnAttempt DEF Evidence, AnswersAreTrue, Holding
    <3>2. PICK a \in Attempts, x \in Workers : request[Cur(w)][a][x] \in {"applied", "replayed"}
      BY <3>1 DEF Applied
    <3>3. request'[Cur(w)][a][x] \in {"applied", "replayed"}
      BY <3>1, <3>2 DEF Answers
    <3> QED
      BY <1>1, <3>3 DEF Applied
  <2> QED
    BY <2>1, <2>2 DEF Answers, AnswersAreTrue, Live
<1>5. SuccessIsApplied'
  BY <1>2 DEF Answers, Evidence, SuccessIsApplied, Live
<1> QED
  BY <1>3, <1>4, <1>5 DEF Evidence

LEMMA TruthStill ==
  ASSUME IInv, Truth, Answers
  PROVE  Truth'
<1>1. RefusalsAreTrue'
  <2>1. ASSUME NEW w \in Workers, pc[w] = "saveFailed"
        PROVE  MyRequest(w)' \in {"none", "refused"}
    BY <2>1, AnswersStay DEF Truth, RefusalsAreTrue, Holding, Calling
  <2> QED
    BY <2>1 DEF Answers, RefusalsAreTrue
<1>2. FailureIsFinal'
  BY DEF Answers, Truth, FailureIsFinal, At, Cur, Att
<1> QED
  BY <1>1, <1>2, EvidenceStill DEF Truth

LEMMA EvidenceLeave ==
  ASSUME IInv, Evidence, NEW m \in Workers, Return(m), UNCHANGED <<skill, exec, ledger, request>>
  PROVE  Evidence'
<1>1. /\ pc'[m] \in {"idle", "done"}
      /\ \A x \in Workers \ {m} : pc'[x] = pc[x] /\ me'[x] = me[x]
  BY DEF Return, Goto, IInv, Control, TypeOK
<1>2. ASSUME NEW x \in Workers, x # m
      PROVE  /\ pc'[x] = pc[x] /\ Cur(x)' = Cur(x) /\ Att(x)' = Att(x)
             /\ MyRequest(x)' = MyRequest(x) /\ Applied(Cur(x))' = Applied(Cur(x))
  BY <1>1, <1>2 DEF Cur, Att, MyRequest, Applied
<1>3. SendingIsFresh' /\ AnswersAreTrue'
  BY <1>1, <1>2 DEF Evidence, SendingIsFresh, AnswersAreTrue, Live
<1>4. SuccessIsApplied'
  BY DEF Evidence, SuccessIsApplied, Applied, Live
<1> QED
  BY <1>3, <1>4 DEF Evidence

LEMMA TruthLeave ==
  ASSUME IInv, Truth, NEW m \in Workers, Return(m), UNCHANGED <<skill, exec, ledger, request>>
  PROVE  Truth'
<1>1. /\ pc'[m] \in {"idle", "done"}
      /\ \A x \in Workers \ {m} : pc'[x] = pc[x] /\ me'[x] = me[x]
  BY DEF Return, Goto, IInv, Control, TypeOK
<1>2. ASSUME NEW x \in Workers, x # m
      PROVE  /\ pc'[x] = pc[x] /\ Cur(x)' = Cur(x) /\ Att(x)' = Att(x)
             /\ MyRequest(x)' = MyRequest(x)
  BY <1>1, <1>2 DEF Cur, Att, MyRequest
<1>3. RefusalsAreTrue' /\ FailureIsFinal'
  BY <1>1, <1>2 DEF Truth, RefusalsAreTrue, FailureIsFinal, At
<1> QED
  BY <1>3, EvidenceLeave DEF Truth

\* A step that is no worker's answers a request, or does nothing to it.
LEMMA OtherSteps ==
  ASSUME IInv, Next \/ UNCHANGED vars,
         ~\E w \in Workers : WorkerStep(w) \/ Abandon(w)
  PROVE  Answers
<1>1. CASE LeaseExpires \/ vars' = vars
  BY <1>1 DEF LeaseExpires, vars, Answers
<1>2. ASSUME NEW w \in Workers, Heartbeat(w) PROVE Answers
  BY <1>2 DEF Heartbeat, Answers
<1>3. ASSUME NEW s \in Steps, NEW a \in Attempts, NEW w \in Workers, ToolStep(s, a, w)
      PROVE  Answers
  <2>1. \E v : request' = [request EXCEPT ![s][a][w] = v] /\ request[s][a][w] = "sent"
    BY <1>3 DEF ToolStep, ToolApplies, ToolRefuses, RequestLost
  <2>2. \A t \in Steps, b \in Attempts, x \in Workers :
          request'[t][b][x] = request[t][b][x] \/ request[t][b][x] = "sent"
    BY <2>1 DEF IInv, Control, TypeOK
  <2> QED
    BY <1>3, <2>2 DEF ToolStep, ToolApplies, ToolRefuses, RequestLost, Answers
<1> QED
  BY <1>1, <1>2, <1>3 DEF Next

LEMMA EvidenceStep ==
  ASSUME IInv, PInv, Evidence, [Next]_vars
  PROVE  Evidence'
BY EvidenceKept, EvidenceLeave, EvidenceStill, OtherSteps DEF Abandon

LEMMA TruthStep ==
  ASSUME IInv, PInv, Truth, EveryProviderReports, [Next]_vars
  PROVE  Truth'
BY TruthKept, TruthLeave, TruthStill, OtherSteps DEF Abandon

LEMMA TruthInit == Init => Truth
<1> SUFFICES ASSUME Init PROVE Truth
  OBVIOUS
<1>1. \A s \in Steps, a \in Attempts : ledger[s][a] = "NONE"
  BY DEF Init, NoRows
<1>2. \A w \in Workers : pc[w] = "idle"
  BY DEF Init
<1> QED
  BY <1>1, <1>2
  DEF Truth, Evidence, SendingIsFresh, AnswersAreTrue, SuccessIsApplied, RefusalsAreTrue,
      FailureIsFinal

-----------------------------------------------------------------------------
(* What follows. *)

LEMMA OverSettled ==
  ASSUME NEW s \in Steps, Over(s)
  PROVE  Settled(s)
BY DEF Over, Settled, Done

\* The invariant holds where one replica runs the recovery loop (main.go, which starts one
\* RecoveryWorker) and the providers of non-idempotent tools report a timeout as such.
LEMMA ProgressInvariant ==
  ASSUME OneRecoverer, ProvidersReport
  PROVE  Spec => [](IInv /\ PInv)
<1>1. IInv /\ PInv /\ [Next]_vars => (IInv /\ PInv)'
  BY IInvStep, PInvStep
<1> QED
  BY <1>1, IInvInit, PInvInit, PTL DEF Spec

\* The stored cursor, which recovery resumes from, never runs ahead of the ledger, and an
\* execution that succeeded has a settled row for every step of its budget (runtime.go
\* runSteps, recovery.go resumePendingStep, recovery_planner.go Plan).
THEOREM CursorNeverAhead ==
  ASSUME OneRecoverer, ProvidersReport
  PROVE  Spec => []CursorIsSettled
<1>1. PInv => CursorIsSettled
  BY OverSettled DEF PInv, Rows, Progress, Passed, Phases, CursorIsSettled
<1> QED
  BY <1>1, ProgressInvariant, PTL

\* An execution that ended for good hides no effect of a non-idempotent tool (runtime.go
\* failExecution, needsReconciliation; docs/v3.md, V3.4).
THEOREM NothingHidden ==
  ASSUME OneRecoverer, ProvidersReport
  PROVE  Spec => []NoHiddenEffect
<1>1. ASSUME IInv, PInv, exec.status \in {"SUCCEEDED", "FAILED"},
             NEW s \in Steps, skill.step[s].cap = "NONE", NEW x \in Reached(s)
      PROVE  \E a \in Attempts : ledger[s][a] = "SUCCEEDED"
  <2>1. x[1] \in Attempts /\ x[2] \in Workers /\ Hot(x[2], s, x[1])
    BY <1>1 DEF Reached, Hot
  <2>2. Live
    BY <1>1, <2>1 DEF Reached, Live, IInv, Control, ShadowSendsNothing, TypeOK, SkillSpec
  <2> QED
    BY <1>1, <2>1, <2>2 DEF PInv, Progress, OutcomeIsCold, NonIdempotent
<1>2. IInv /\ PInv => NoHiddenEffect
  BY <1>1 DEF NoHiddenEffect
<1> QED
  BY <1>2, ProgressInvariant, PTL

\* A row does not contradict the tool, where every provider reports a timeout as Unknown
\* and never as a failure (toolprovider/provider.go Outcome).
THEOREM RowsAreTruthful ==
  ASSUME OneRecoverer, EveryProviderReports
  PROVE  Spec => []LedgerIsTruthful
<1>1. ProvidersReport
  BY DEF EveryProviderReports, ProvidersReport
<1>2. IInv /\ IInv' /\ PInv /\ Truth /\ [Next]_vars => Truth'
  BY TruthStep
<1>3. Truth => LedgerIsTruthful
  BY DEF Truth, Evidence, SuccessIsApplied, FailureIsFinal, LedgerIsTruthful, Live
<1>4. Spec => [](IInv /\ PInv)
  BY <1>1, ProgressInvariant
<1> QED
  BY <1>2, <1>3, <1>4, TruthInit, PTL DEF Spec

-----------------------------------------------------------------------------
(***************************************************************************)
(* Part 5.  The contract.                                                  *)
(***************************************************************************)

\* Effects can be counted, and only a tool that deduplicates answers without acting.
Counted ==
  /\ \A s \in Steps : IsFiniteSet(Effects(s))
  /\ \A s \in Steps, a \in Attempts, w \in Workers :
       NonIdempotent(s) => request[s][a][w] # "replayed"

CInv == IInv /\ PInv /\ Evidence /\ Counted

-----------------------------------------------------------------------------
(* Effects. *)

LEMMA EffectsSame ==
  ASSUME NEW s \in Steps,
         \A a \in Attempts, w \in Workers :
           request'[s][a][w] = "applied" <=> request[s][a][w] = "applied"
  PROVE  Effects(s)' = Effects(s)
BY DEF Effects

\* Workers send requests; whether they act is up to the tools.
LEMMA WorkersHaveNoEffect ==
  ASSUME CInv, NEW m \in Workers, WorkerStep(m)
  PROVE  /\ \A s \in Steps : Effects(s)' = Effects(s)
         /\ \A s \in Steps, a \in Attempts, w \in Workers :
              request'[s][a][w] = "replayed" => request[s][a][w] = "replayed"
<1>1. \A s \in Steps, a \in Attempts, w \in Workers :
        \/ request'[s][a][w] = request[s][a][w]
        \/ request'[s][a][w] = "sent" /\ request[s][a][w] = "none"
  <2>1. CASE request' = request
    BY <2>1
  <2>2. CASE Invoke(m)
    <3>1. Cur(m) \in Steps /\ Att(m) \in Attempts /\ MyRequest(m) = "none"
      BY <2>2, OwnAttempt DEF Invoke, Holding, Calling, CInv, Evidence, SendingIsFresh
    <3>2. request \in [Steps -> [Attempts -> [Workers -> Request]]]
      BY DEF CInv, IInv, Control, TypeOK
    <3> QED
      BY <2>2, <3>1, <3>2 DEF Invoke, MyRequest
  <2> QED
    BY <2>1, <2>2, WorkerFrame DEF CInv
<1>2. ASSUME NEW s \in Steps PROVE Effects(s)' = Effects(s)
  BY <1>1, EffectsSame
<1> QED
  BY <1>1, <1>2

\* What a tool does changes one request.
OneAnswer(s0, a0, w0, q) ==
  /\ s0 \in Steps /\ a0 \in Attempts /\ w0 \in Workers
  /\ request[s0][a0][w0] = "sent" /\ request'[s0][a0][w0] = q
  /\ \A s \in Steps, a \in Attempts, w \in Workers :
       s # s0 \/ a # a0 \/ w # w0 => request'[s][a][w] = request[s][a][w]

LEMMA ToolAnswers ==
  ASSUME CInv, NEW s \in Steps, NEW a \in Attempts, NEW w \in Workers, ToolStep(s, a, w)
  PROVE  /\ UNCHANGED <<skill, exec, ledger>>
         /\ \/ OneAnswer(s, a, w, "applied")
            \/ OneAnswer(s, a, w, "replayed") /\ ~NonIdempotent(s)
            \/ OneAnswer(s, a, w, "refused") \/ OneAnswer(s, a, w, "lost")
<1>1. request \in [Steps -> [Attempts -> [Workers -> Request]]]
  BY DEF CInv, IInv, Control, TypeOK
<1>2. CASE ToolApplies(s, a, w)
  BY <1>1, <1>2 DEF ToolApplies, OneAnswer, NonIdempotent, Deduplicates
<1>3. CASE ToolRefuses(s, a, w) \/ RequestLost(s, a, w)
  BY <1>1, <1>3 DEF ToolRefuses, RequestLost, OneAnswer
<1> QED
  BY <1>2, <1>3 DEF ToolStep

LEMMA ActsOnce ==
  ASSUME CInv, NEW s0 \in Steps, NEW a0 \in Attempts, NEW w0 \in Workers,
         OneAnswer(s0, a0, w0, "applied")
  PROVE  /\ <<a0, w0>> \notin Effects(s0)
         /\ Effects(s0)' = Effects(s0) \cup {<<a0, w0>>}
         /\ \A s \in Steps \ {s0} : Effects(s)' = Effects(s)
<1>1. <<a0, w0>> \notin Effects(s0)
  BY DEF OneAnswer, Effects
<1>2. ASSUME NEW x \in Attempts \X Workers
      PROVE  x \in Effects(s0)' <=> x \in Effects(s0) \/ x = <<a0, w0>>
  <2>1. PICK a \in Attempts, w \in Workers : x = <<a, w>>
    OBVIOUS
  <2>2. x[1] = a /\ x[2] = w
    BY <2>1
  <2>3. CASE a = a0 /\ w = w0
    BY <2>1, <2>2, <2>3 DEF OneAnswer, Effects
  <2>4. CASE a # a0 \/ w # w0
    BY <2>1, <2>2, <2>4 DEF OneAnswer, Effects
  <2> QED
    BY <2>3, <2>4
<1>3. Effects(s0)' = Effects(s0) \cup {<<a0, w0>>}
  BY <1>2 DEF Effects
<1>4. ASSUME NEW s \in Steps \ {s0} PROVE Effects(s)' = Effects(s)
  BY EffectsSame DEF OneAnswer
<1> QED
  BY <1>1, <1>3, <1>4

LEMMA DoesNotAct ==
  ASSUME NEW s0, NEW a0, NEW w0, NEW q, q # "applied", OneAnswer(s0, a0, w0, q)
  PROVE  \A s \in Steps : Effects(s)' = Effects(s)
<1> SUFFICES ASSUME NEW s \in Steps PROVE Effects(s)' = Effects(s)
  OBVIOUS
<1>1. ASSUME NEW a \in Attempts, NEW w \in Workers
      PROVE  request'[s][a][w] = "applied" <=> request[s][a][w] = "applied"
  BY DEF OneAnswer
<1> QED
  BY <1>1, EffectsSame

LEMMA CountedStep ==
  ASSUME CInv, [Next]_vars
  PROVE  Counted'
<1>0. ASSUME skill' = skill, \A s \in Steps : Effects(s)' = Effects(s),
             \A s \in Steps, a \in Attempts, w \in Workers :
               request'[s][a][w] = "replayed" =>
                 request[s][a][w] = "replayed" \/ ~NonIdempotent(s)
      PROVE  Counted'
  BY <1>0 DEF CInv, Counted, NonIdempotent
<1>1. ASSUME NEW m \in Workers, WorkerStep(m) PROVE Counted'
  BY <1>0, <1>1, WorkersHaveNoEffect, WorkerFrame DEF CInv
<1>2. CASE request' = request /\ skill' = skill
  BY <1>0, <1>2, EffectsSame
<1>3. ASSUME NEW s \in Steps, NEW a \in Attempts, NEW w \in Workers, ToolStep(s, a, w)
      PROVE  Counted'
  <2>1. skill' = skill
    BY <1>3, ToolAnswers
  <2>2. CASE OneAnswer(s, a, w, "applied")
    <3>1. ASSUME NEW t \in Steps PROVE IsFiniteSet(Effects(t)')
      <4>1. IsFiniteSet(Effects(t))
        BY DEF CInv, Counted
      <4>2. IsFiniteSet(Effects(t) \cup {<<a, w>>})
        BY <4>1, FS_AddElement
      <4>3. Effects(t)' = Effects(t) \/ Effects(t)' = Effects(t) \cup {<<a, w>>}
        BY <2>2, ActsOnce
      <4> QED
        BY <4>1, <4>2, <4>3
    <3>2. \A t \in Steps, b \in Attempts, x \in Workers :
            NonIdempotent(t) => request'[t][b][x] # "replayed"
      BY <2>2 DEF OneAnswer, CInv, Counted
    <3> QED
      BY <2>1, <3>1, <3>2 DEF Counted, NonIdempotent
  <2>3. ASSUME NEW q, q # "applied", q # "replayed" \/ ~NonIdempotent(s), OneAnswer(s, a, w, q)
        PROVE  Counted'
    <3>1. \A t \in Steps, b \in Attempts, x \in Workers :
            request'[t][b][x] = "replayed" =>
              request[t][b][x] = "replayed" \/ ~NonIdempotent(t)
      BY <2>3 DEF OneAnswer
    <3> QED
      BY <1>0, <2>1, <2>3, <3>1, DoesNotAct
  <2> QED
    BY <1>3, <2>2, <2>3, ToolAnswers
<1> QED
  BY <1>1, <1>2, <1>3 DEF Next, Heartbeat, Abandon, LeaseExpires, vars

LEMMA CountedInit == Init => Counted
<1> SUFFICES ASSUME Init PROVE Counted
  OBVIOUS
<1>1. \A s \in Steps, a \in Attempts, w \in Workers : request[s][a][w] = "none"
  BY DEF Init
<1>2. \A s \in Steps : Effects(s) = {}
  BY <1>1 DEF Effects
<1> QED
  BY <1>1, <1>2, FS_EmptySet DEF Counted

-----------------------------------------------------------------------------
(* What is settled. *)

SettledBy(rows, s, a) ==
  rows[s][a] \in Done \/ (rows[s][a] = "FAILED" /\ skill.step[s].onError = "continue")

LEMMA SettledMeans ==
  ASSUME NEW s \in Steps, skill' = skill
  PROVE  /\ Settled(s) <=> \E a \in Attempts : SettledBy(ledger, s, a)
         /\ Settled(s)' <=> \E a \in Attempts : SettledBy(ledger', s, a)
BY DEF Settled, SettledBy, Done

LEMMA SettledSame ==
  ASSUME UNCHANGED <<skill, ledger>>
  PROVE  \A s \in Steps : Settled(s)' <=> Settled(s)
BY DEF Settled

\* A row that settles its step is not written again, except by what settles it too.
LEMMA SettledStays ==
  ASSUME CInv, NEW m \in Workers, WorkerStep(m), NEW s0, NEW a0, NEW st, Writes(m, s0, a0, st)
  PROVE  /\ Settled(s0) => Settled(s0)'
         /\ \A s \in Steps \ {s0} : Settled(s)' <=> Settled(s)
<1> USE DEF CInv
<1> skill' = skill
  BY WorkerFrame
<1>1. s0 \in Steps /\ a0 \in Attempts
  BY DEF Writes, OnlyRow
<1>2. SettledBy(ledger, s0, a0) => SettledBy(ledger', s0, a0)
  <2>1. CASE Records(m, s0, a0, st)
    <3>1. ledger[s0][a0] \in {"PENDING", "RUNNING", "UNKNOWN_OUTCOME"}
      BY <2>1 DEF Writes, Records, PInv, Rows, HeldRows, Before, Calling
    <3> QED
      BY <3>1 DEF SettledBy, Done
  <2>2. CASE Creates(m, s0, a0, st)
    BY <2>2 DEF Creates, SettledBy, Done
  <2>3. CASE Skips(m, s0, a0, st)
    BY <2>3 DEF Skips, Writes, OnlyRow, SettledBy, Done
  <2>4. CASE Sweeps(m, s0, a0, st)
    BY <2>4 DEF Sweeps, SettledBy, Done
  <2> QED
    BY <2>1, <2>2, <2>3, <2>4 DEF Writes
<1>3. \A s \in Steps, a \in Attempts :
        s # s0 \/ a # a0 => (SettledBy(ledger', s, a) <=> SettledBy(ledger, s, a))
  BY DEF Writes, OnlyRow, SettledBy
<1>4. Settled(s0) => Settled(s0)'
  BY <1>1, <1>2, <1>3, SettledMeans
<1>5. ASSUME NEW s \in Steps \ {s0} PROVE Settled(s)' <=> Settled(s)
  BY <1>3, SettledMeans
<1> QED
  BY <1>4, <1>5

\* Rows are written while the execution runs.
LEMMA WritesWhileRunning ==
  ASSUME CInv, NEW m \in Workers, WorkerStep(m), ledger' # ledger
  PROVE  /\ exec' = exec /\ exec.status = "RUNNING"
         /\ \E s0, a0, st : Writes(m, s0, a0, st)
<1> USE DEF CInv
<1>1. PICK s0, a0, st : Writes(m, s0, a0, st)
  BY WorkerWrites
<1>2. exec.status \notin {"ABSENT", "PENDING"}
  BY <1>1 DEF Writes, Records, Creates, Skips, Sweeps, Holding, Before, Calling, PInv, Rows,
              Phases
<1>3. exec.status \notin Terminal
  BY WritesAreFenced DEF Next
<1>4. exec.status \in ExecStatus
  BY ExecTypes DEF IInv, Control, TypeOK, Exec
<1>5. ~(Insert(m) \/ Claim(m) \/ Start(m) \/ Advance(m) \/ Resume(m) \/ Succeed(m) \/ Finish(m))
  BY DEF Insert, Claim, Start, Advance, Resume, Succeed, Finish
<1> QED
  BY <1>1, <1>2, <1>3, <1>4, <1>5, ExecFrom DEF ExecStatus, Terminal

-----------------------------------------------------------------------------
(* The steps of the contract. *)

LEMMA SameSteps == Contract!Steps = Steps
BY DEF Contract!Steps, Steps

LEMMA ContractStutters ==
  ASSUME skill' = skill, exec.status' = exec.status,
         \A s \in Steps : (Settled(s)' <=> Settled(s)) /\ Effects(s)' = Effects(s)
  PROVE  UNCHANGED Contract!vars
BY DEF Contract!vars

\* A step has been arrived at if it has a row in its budget and those before it are over.
LEMMA RowsArrived ==
  ASSUME PInv, NEW s \in Steps, NEW a \in Attempts, HasRow(ledger, s, a)
  PROVE  Contract!Arrived(s)
<1>1. s <= skill.limit
  BY DEF PInv, Rows, RowKinds
<1>2. ASSUME NEW t \in 1..(s - 1) PROVE t \in Steps /\ Settled(t)
  <2>1. t \in Steps /\ t < s
    BY BoundsAssumption DEF Steps
  <2> QED
    BY <2>1, OverSettled DEF PInv, Progress, BeyondIsOver
<1> QED
  BY <1>1, <1>2 DEF Contract!Arrived

LEMMA ContractActs ==
  ASSUME CInv, NEW s \in Steps, NEW a \in Attempts, NEW w \in Workers,
         OneAnswer(s, a, w, "applied"), UNCHANGED <<skill, exec, ledger>>
  PROVE  Contract!Act(s)
<1>1. Hot(w, s, a) /\ HasRow(ledger, s, a)
  BY DEF OneAnswer, Hot, CInv, IInv, Ownership, OwnersHaveRows
<1>2. Contract!Arrived(s)
  BY <1>1, RowsArrived DEF CInv
<1>3. ASSUME NonIdempotent(s), NEW x \in Effects(s)
      PROVE  FALSE
  <2>1. PICK b \in Attempts, v \in Workers : request[s][b][v] = "applied"
    BY <1>3 DEF Effects
  <2>2. Hot(v, s, b) /\ HasRow(ledger, s, b)
    BY <2>1 DEF Hot, CInv, IInv, Ownership, OwnersHaveRows
  <2>3. ~(a < b) /\ ~(b < a)
    BY <1>1, <1>3, <2>2 DEF CInv, IInv, Ownership, LastIsHot
  <2>4. a = b
    BY <2>3 DEF Attempts
  <2>5. v = w
    BY <1>1, <2>2, <2>4, HotOwns DEF CInv, IInv, Ownership, OneOwner
  <2> QED
    BY <2>1, <2>4, <2>5 DEF OneAnswer
<1>4. ASSUME NonIdempotent(s)
      PROVE  exec.status \in {"RUNNING", "NEEDS_RECONCILIATION"}
  <2>1. exec.status \in ExecStatus
    BY DEF CInv, IInv, Control, TypeOK, Exec
  <2>2. exec.status \notin {"ABSENT", "PENDING"}
    BY <1>1 DEF CInv, PInv, Rows, Phases
  <2>3. Live
    BY DEF OneAnswer, Live, CInv, IInv, Control, ShadowSendsNothing, TypeOK, SkillSpec
  <2>4. CASE exec.status \in {"SUCCEEDED", "FAILED"}
    <3>1. PICK b \in Attempts : ledger[s][b] = "SUCCEEDED"
      BY <1>1, <1>4, <2>3, <2>4 DEF CInv, PInv, Progress, OutcomeIsCold
    <3>2. Applied(s)
      BY <2>3, <3>1 DEF CInv, Evidence, SuccessIsApplied
    <3>3. PICK c \in Attempts, v \in Workers : request[s][c][v] = "applied"
      BY <1>4, <3>2 DEF Applied, CInv, Counted
    <3>4. <<c, v>> \in Effects(s)
      BY <3>3 DEF Effects
    <3> QED
      BY <1>3, <1>4, <3>4
  <2> QED
    BY <2>1, <2>2, <2>4 DEF ExecStatus, Terminal
<1>5. NonIdempotent(s) => Cardinality(Effects(s)) = 0
  <2>1. NonIdempotent(s) => Effects(s) = {}
    BY <1>3
  <2> QED
    BY <2>1, FS_EmptySet
<1>6. Cardinality(Effects(s)') = Cardinality(Effects(s)) + 1
  <2>1. IsFiniteSet(Effects(s))
    BY DEF CInv, Counted
  <2>2. <<a, w>> \notin Effects(s) /\ Effects(s)' = Effects(s) \cup {<<a, w>>}
    BY ActsOnce
  <2>3. Cardinality(Effects(s) \cup {<<a, w>>}) = Cardinality(Effects(s)) + 1
    BY <2>1, <2>2, FS_AddElement
  <2> QED
    BY <2>2, <2>3
<1>7. \A t \in Steps \ {s} : Effects(t)' = Effects(t)
  BY ActsOnce
<1>8. \A t \in Steps : Settled(t)' <=> Settled(t)
  BY SettledSame
<1> QED
  BY <1>2, <1>4, <1>5, <1>6, <1>7, <1>8
  DEF Contract!Act, Contract!Running, Contract!Steps, NonIdempotent


\* A row that is written stands for the contract's Settle, or for nothing.
LEMMA ContractSettles ==
  ASSUME CInv, CInv', OneRecoverer, NEW m \in Workers, WorkerStep(m), ledger' # ledger
  PROVE  [Contract!Next]_(Contract!vars)
<1> USE DEF CInv
<1>1. PICK s0, a0, st : Writes(m, s0, a0, st)
  BY WritesWhileRunning
<1>2. s0 \in Steps /\ a0 \in Attempts
  BY <1>1 DEF Writes, OnlyRow
<1>3. /\ exec' = exec /\ exec.status = "RUNNING" /\ skill' = skill
      /\ \A s \in Steps : Effects(s)' = Effects(s)
  BY WritesWhileRunning, WorkersHaveNoEffect, WorkerFrame
<1>4. /\ Settled(s0) => Settled(s0)'
      /\ \A s \in Steps \ {s0} : Settled(s)' <=> Settled(s)
  BY <1>1, SettledStays
<1>5. CASE Settled(s0)' => Settled(s0)
  BY <1>3, <1>4, <1>5, ContractStutters
<1>6. CASE Settled(s0)' /\ ~Settled(s0)
  <2>1. HasRow(ledger', s0, a0)
    BY <1>1 DEF Writes, OnlyRow, Records, Creates, Skips, Sweeps, HasRow
  <2>2. s0 <= skill.limit /\ \A t \in Steps : t < s0 => Settled(t)'
    <3>1. RowKinds' /\ BeyondIsOver'
      BY WorkerRows
    <3>2. s0 <= skill.limit
      BY <1>2, <1>3, <2>1, <3>1 DEF RowKinds, HasRow
    <3>3. ASSUME NEW t \in Steps, t < s0 PROVE Settled(t)'
      <4>1. Over(t)'
        BY <1>2, <2>1, <3>1, <3>3 DEF BeyondIsOver, HasRow
      <4> QED
        BY <1>3, <4>1 DEF Over, IsLast, Settled, Done, Attempts
    <3> QED
      BY <3>2, <3>3
  <2>3. ASSUME NEW t \in 1..(s0 - 1) PROVE t \in Steps /\ Settled(t)
    <3>1. t \in Steps /\ t < s0 /\ t # s0
      BY <1>2, BoundsAssumption DEF Steps
    <3> QED
      BY <1>4, <2>2, <3>1
  <2>4. Contract!Arrived(s0)
    BY <2>2, <2>3 DEF Contract!Arrived
  <2>5. {s \in Steps : Settled(s)}' = {s \in Steps : Settled(s)} \cup {s0}
    BY <1>2, <1>4, <1>6
  <2>6. Contract!Settle(s0)
    BY <1>3, <2>4, <2>5 DEF Contract!Settle
  <2> QED
    BY <1>2, <2>6, SameSteps DEF Contract!Next
<1> QED
  BY <1>4, <1>5, <1>6

\* The end of an execution: its steps are settled, or nothing guarded is left open.
LEMMA ContractEnds ==
  ASSUME CInv, OneRecoverer, NEW m \in Workers, WorkerStep(m), Succeed(m) \/ Finish(m),
         exec' # exec
  PROVE  Contract!Succeed \/ Contract!Fail \/ Contract!AskForHelp
<1> USE DEF CInv
<1>1. /\ skill' = skill /\ \A s \in Steps : Effects(s)' = Effects(s)
      /\ \A s \in Steps : Settled(s)' <=> Settled(s)
  BY SettledSame, WorkersHaveNoEffect, WorkerFrame DEF Succeed, Finish
<1>2. exec.status = "RUNNING" /\ Fenced(m)
  <2>1. pc[m] \in {"step", "fail", "manual"}
    BY DEF Succeed, Finish
  <2>2. exec.status # "PENDING"
    BY <2>1 DEF PInv, Rows, Phases
  <2> QED
    BY <2>1, <2>2, ExecFrom DEF Insert, Claim
<1>3. ASSUME NEW s \in Steps, s <= me[m].cursor PROVE Settled(s)
  BY <1>3, OverSettled DEF PInv, Progress, Passed
<1>4. CASE Succeed(m)
  <2>1. exec.status' = "SUCCEEDED"
    BY <1>4 DEF Succeed, Persist, IInv, Control, TypeOK, Exec
  <2>2. ASSUME NEW s \in 1..skill.limit PROVE s \in Steps /\ Settled(s)
    <3>1. skill.limit \in 0..NSteps /\ me[m].cursor \in Nat
      BY LocalTypes DEF IInv, Control, TypeOK, SkillSpec
    <3>2. s \in Steps /\ s <= me[m].cursor
      BY <1>4, <3>1, BoundsAssumption DEF Succeed, Steps
    <3> QED
      BY <1>3, <3>2
  <2>3. Contract!Succeed
    BY <1>1, <1>2, <2>1, <2>2 DEF Contract!Succeed
  <2> QED
    BY <2>3
<1>5. CASE Finish(m) /\ pc[m] = "fail"
  <2>1. exec.status' = "FAILED"
    BY <1>5 DEF Finish, Persist, IInv, Control, TypeOK, Exec
  <2>2. ASSUME NEW s \in Steps, NonIdempotent(s), Effects(s) # {}
        PROVE  Settled(s)
    <3>1. PICK a \in Attempts, w \in Workers : request[s][a][w] = "applied"
      BY <2>2 DEF Effects
    <3>2. Hot(w, s, a) /\ Live
      BY <3>1 DEF Hot, Live, IInv, Control, ShadowSendsNothing, TypeOK, SkillSpec
    <3>3. ~(Cur(m) <= s)
      BY <1>2, <1>5, <2>2, <3>2 DEF Ending, PInv, Progress, FailIsCold
    <3>4. s <= me[m].cursor
      BY <3>3, LocalTypes DEF Cur, Steps, IInv, Control
    <3> QED
      BY <1>3, <3>4
  <2>3. \A s \in Steps : Cardinality(Effects(s)) > 0 => Effects(s) # {}
    BY FS_EmptySet
  <2>4. Contract!Fail
    BY <1>1, <1>2, <2>1, <2>2, <2>3 DEF Contract!Fail, Contract!Steps, Steps, NonIdempotent
  <2> QED
    BY <2>4
<1>6. CASE Finish(m) /\ pc[m] = "manual"
  <2>1. exec.status' = "NEEDS_RECONCILIATION"
    BY <1>6 DEF Finish, Persist, IInv, Control, TypeOK, Exec
  <2> QED
    BY <1>1, <1>2, <2>1 DEF Contract!AskForHelp
<1> QED
  BY <1>4, <1>5, <1>6 DEF Finish


LEMMA WorkerKeepsContract ==
  ASSUME CInv, CInv', OneRecoverer, NEW m \in Workers, WorkerStep(m)
  PROVE  [Contract!Next]_(Contract!vars)
<1>1. CASE ledger' # ledger
  BY <1>1, ContractSettles
<1>2. CASE ledger' = ledger
  <2>1. /\ skill' = skill /\ \A s \in Steps : Effects(s)' = Effects(s)
        /\ \A s \in Steps : Settled(s)' <=> Settled(s)
    BY <1>2, SettledSame, WorkersHaveNoEffect, WorkerFrame DEF CInv
  <2>2. CASE exec.status' = exec.status
    BY <2>1, <2>2, ContractStutters
  <2>3. CASE exec.status = "ABSENT" /\ exec.status' = "PENDING"
    BY <2>1, <2>3 DEF Contract!Accept, Contract!Next
  <2>4. CASE exec.status \in {"PENDING", "RUNNING"} /\ exec.status' = "RUNNING"
    <3>1. CASE exec.status = "PENDING"
      BY <2>1, <2>4, <3>1 DEF Contract!Begin, Contract!Next
    <3> QED
      BY <2>2, <2>4, <3>1
  <2>5. CASE (Succeed(m) \/ Finish(m)) /\ exec' # exec
    BY <2>5, ContractEnds DEF Contract!Next
  <2> QED
    BY <2>2, <2>3, <2>4, <2>5, ExecFrom DEF CInv
<1> QED
  BY <1>1, <1>2

LEMMA StepKeepsContract ==
  ASSUME CInv, CInv', OneRecoverer, [Next]_vars
  PROVE  [Contract!Next]_(Contract!vars)
<1>1. ASSUME NEW w \in Workers, WorkerStep(w)
      PROVE  [Contract!Next]_(Contract!vars)
  BY <1>1, WorkerKeepsContract
<1>2. CASE UNCHANGED <<skill, ledger, request>> /\ exec.status' = exec.status
  <2>1. \A s \in Steps : (Settled(s)' <=> Settled(s)) /\ Effects(s)' = Effects(s)
    BY <1>2, SettledSame, EffectsSame
  <2> QED
    BY <1>2, <2>1, ContractStutters
<1>3. ASSUME NEW w \in Workers, Heartbeat(w) \/ Abandon(w)
      PROVE  UNCHANGED <<skill, ledger, request>> /\ exec.status' = exec.status
  BY <1>3 DEF Heartbeat, Abandon, CInv, IInv, Control, TypeOK, Exec
<1>4. ASSUME LeaseExpires \/ UNCHANGED vars
      PROVE  UNCHANGED <<skill, ledger, request>> /\ exec.status' = exec.status
  BY <1>4 DEF LeaseExpires, vars, CInv, IInv, Control, TypeOK, Exec
<1>5. ASSUME NEW s \in Steps, NEW a \in Attempts, NEW w \in Workers, ToolStep(s, a, w)
      PROVE  [Contract!Next]_(Contract!vars)
  <2>1. UNCHANGED <<skill, exec, ledger>>
    BY <1>5, ToolAnswers
  <2>2. CASE OneAnswer(s, a, w, "applied")
    BY <2>1, <2>2, ContractActs, SameSteps DEF Contract!Next
  <2>3. ASSUME NEW q, q # "applied", OneAnswer(s, a, w, q)
        PROVE  [Contract!Next]_(Contract!vars)
    BY <2>1, <2>3, DoesNotAct, SettledSame, ContractStutters
  <2> QED
    BY <1>5, <2>2, <2>3, ToolAnswers
<1> QED
  BY <1>1, <1>2, <1>3, <1>4, <1>5 DEF Next

LEMMA InitKeepsContract ==
  ASSUME Init
  PROVE  Contract!Init
<1>1. skill \in SkillSpec
  BY SkillsAssumption DEF Init
<1>2. skill.limit \in 0..NSteps
  BY <1>1 DEF SkillSpec
<1>3. \A s \in Steps, a \in Attempts : ledger[s][a] = "NONE"
  BY DEF Init, NoRows
<1>4. \A s \in Steps, a \in Attempts, w \in Workers : request[s][a][w] = "none"
  BY DEF Init
<1>5. \A s \in Steps : ~Settled(s) /\ Effects(s) = {}
  BY <1>3, <1>4 DEF Settled, Effects
<1>6. \A s \in Steps : Cardinality(Effects(s)) = 0
  BY <1>5, FS_EmptySet
<1> QED
  BY <1>2, <1>5, <1>6 DEF Contract!Init, Contract!Steps, Steps, Init

\* Every behaviour of the handlers, the recovery loop, the store and the tools is one the
\* contract allows: the steps of the plan settle in order, tools act only where the plan has
\* arrived, a guarded tool acts once and never behind a definite outcome, and an outcome is
\* final (runtime.go Run, runSteps, Recover; docs/v3.md, V3.3 and V3.4).
THEOREM ContractIsKept ==
  ASSUME OneRecoverer, ProvidersReport
  PROVE  Spec => KeepsContract
<1>1. Init => CInv
  <2>1. Init => Evidence
    BY TruthInit DEF Truth
  <2> QED
    BY <2>1, IInvInit, PInvInit, CountedInit DEF CInv
<1>2. CInv /\ [Next]_vars => CInv'
  BY IInvStep, PInvStep, EvidenceStep, CountedStep DEF CInv
<1>3. CInv /\ CInv' /\ [Next]_vars => [Contract!Next]_(Contract!vars)
  BY StepKeepsContract
<1>4. Spec => []CInv
  BY <1>1, <1>2, PTL DEF Spec
<1> QED
  BY <1>3, <1>4, InitKeepsContract, PTL DEF Spec, KeepsContract, Contract!Spec

-----------------------------------------------------------------------------
(***************************************************************************)
(* Part 6.  Approvals.                                                     *)
(***************************************************************************)

\* The gate is open: the policy does not forbid the skill, and if the skill needs an approval
\* somebody gave one.  Nothing closes it again.
Cleared == ~Forbidden /\ (NeedsApproval => "APPROVED" \in said)

\* Where a worker is past the gate.
Past == {"release"} \cup RunPC \cup (RecoverPC \ {"idle"})

Columns == {"status", "cursor", "epoch", "owner", "live"}

Shape ==
  /\ pc = [w \in Workers |-> pc[w]]
  /\ exec = [f \in Columns |-> exec[f]]

ApprovalsAreTrue ==
  /\ approvals \in Seq(ApprovalStatus)
  /\ \A i \in 1..Len(approvals) : approvals[i] = "APPROVED" => "APPROVED" \in said

GateHolds ==
  ~Cleared => /\ \A w \in Workers : pc[w] \notin Past
              /\ exec.status # "RUNNING"
              /\ ~Called

GateInv == Shape /\ ApprovalsAreTrue /\ GateHolds

-----------------------------------------------------------------------------

\* What an update of one worker's place or of some columns of the row does to them.
LEMMA GotoShape ==
  ASSUME Shape, NEW w \in Workers, NEW p, Goto(w, p)
  PROVE  /\ pc' = [x \in Workers |-> pc'[x]] /\ pc'[w] = p
         /\ \A x \in Workers : x # w => pc'[x] = pc[x]
BY DEF Shape, Goto

LEMMA ReturnShape ==
  ASSUME Shape, NEW w \in Workers, Return(w)
  PROVE  /\ pc' = [x \in Workers |-> pc'[x]] /\ pc'[w] \notin Past
         /\ \A x \in Workers : x # w => pc'[x] = pc[x]
<1> DEFINE p == IF w \in Runners THEN "done" ELSE "idle"
<1>1. Goto(w, p)
  BY DEF Return
<1>2. p \notin Past
  BY DEF Past, RunPC, RecoverPC
<1> HIDE DEF p
<1> QED
  BY <1>1, <1>2, GotoShape

LEMMA UpdateShape ==
  ASSUME Shape, NEW w \in Workers, NEW s, Update(w, s)
  PROVE  exec' = [f \in Columns |-> exec'[f]] /\ exec'.status = s
BY DEF Shape, Update, Columns

LEMMA PersistShape ==
  ASSUME Shape, NEW w \in Workers, NEW s, Persist(w, s)
  PROVE  exec' = [f \in Columns |-> exec'[f]]
BY DEF Shape, Persist, Columns

LEMMA SameShape ==
  ASSUME Shape
  PROVE  /\ UNCHANGED pc => pc' = [w \in Workers |-> pc'[w]]
         /\ UNCHANGED exec => exec' = [f \in Columns |-> exec'[f]]
BY DEF Shape

-----------------------------------------------------------------------------
(* The runtime: it never opens the gate, and does not get past a closed one. *)

\* A worker that runs steps.
LEMMA RunKeepsShape ==
  ASSUME Shape, NEW w \in Workers, RunStep(w)
  PROVE  Shape' /\ skill' = skill
<1> USE GotoShape, ReturnShape, PersistShape, SameShape
<1>1. CASE Start(w)
  BY <1>1, Zenon DEF Start, Shape, outside
<1>2. CASE Succeed(w)
  BY <1>2, Zenon DEF Succeed, Shape, outside
<1>3. CASE Advance(w)
  BY <1>3, Zenon DEF Advance, Shape, outside
<1>4. CASE Finish(w)
  BY <1>4, Zenon DEF Finish, Shape, outside
<1>5. CASE Skip(w) \/ BadWhen(w) \/ BadArgs(w)
  BY <1>5, Zenon DEF Skip, BadWhen, BadArgs, NextStep, Shape, outside, store
<1>6. CASE CreateAttempt(w) \/ DuplicateAttempt(w) \/ MarkRunning(w) \/ Invoke(w)
  BY <1>6, Zenon DEF CreateAttempt, DuplicateAttempt, MarkRunning, Invoke, Shape, outside, store
<1>7. CASE AnswerOK(w) \/ AnswerFailed(w) \/ AnswerUnknown(w) \/ StaleLease(w)
  BY <1>7, Zenon DEF AnswerOK, AnswerFailed, AnswerUnknown, StaleLease, Shape, outside, store
<1>8. CASE SaveOK(w) \/ SaveFailed(w) \/ SaveUnknown(w)
  BY <1>8, Zenon DEF SaveOK, SaveFailed, SaveUnknown, NextStep, Shape, outside
<1> QED
  BY <1>1, <1>2, <1>3, <1>4, <1>5, <1>6, <1>7, <1>8 DEF RunStep

\* A recovery loop.
LEMMA RecoverKeepsShape ==
  ASSUME Shape, NEW r \in Workers, RecoverStep(r)
  PROVE  Shape' /\ skill' = skill
<1> USE GotoShape, ReturnShape, PersistShape, SameShape
<1>1. CASE List(r) \/ Get(r) \/ Read(r)
  BY <1>1, Zenon DEF List, Get, Read, Shape, outside, store
<1>2. CASE Claim(r)
  <2>1. exec' = [f \in Columns |-> exec'[f]]
    BY <1>2 DEF Claim, Shape, Columns
  <2> QED
    BY <1>2, <2>1, Zenon DEF Claim, Shape, outside
<1>3. CASE MarkUnknown(r)
  BY <1>3, Zenon DEF MarkUnknown, Shape, outside
<1>4. CASE Plan(r)
  BY <1>4, Zenon DEF Plan, PlanFrom, NextStep, Shape, outside, store
<1>5. CASE Resume(r)
  BY <1>5, Zenon DEF Resume, Shape, outside
<1>6. CASE Query(r) \/ RecordApplied(r)
  BY <1>6, Zenon DEF Query, RecordApplied, NextStep, Shape, outside, store
<1> QED
  BY <1>1, <1>2, <1>3, <1>4, <1>5, <1>6 DEF RecoverStep

LEMMA RuntimeKeepsShape ==
  ASSUME Shape, RuntimeStep
  PROVE  Shape' /\ skill' = skill
<1>1. CASE \E w \in Workers : RunStep(w)
  BY <1>1, RunKeepsShape
<1>2. CASE \E w \in Workers : RecoverStep(w)
  BY <1>2, RecoverKeepsShape
<1>3. CASE \E w \in Workers : Heartbeat(w)
  <2>1. exec' = [f \in Columns |-> exec'[f]]
    BY <1>3 DEF Heartbeat, Shape, Columns
  <2> QED
    BY <1>3, <2>1, SameShape, Zenon DEF Heartbeat, Shape, outside
<1>4. CASE \E w \in Workers : Abandon(w)
  BY <1>4, ReturnShape, SameShape, Zenon DEF Abandon, Shape, store
<1>5. CASE \E s \in Steps, a \in Attempts, w \in Workers : ToolStep(s, a, w)
  BY <1>5, SameShape, Zenon DEF ToolStep, ToolApplies, ToolRefuses, RequestLost, Shape, store,
                                outside
<1>6. CASE LeaseExpires
  <2>1. exec' = [f \in Columns |-> exec'[f]]
    BY <1>6 DEF LeaseExpires, Shape, Columns
  <2> QED
    BY <1>6, <2>1, SameShape, Zenon DEF LeaseExpires, Shape
<1> QED
  BY <1>1, <1>2, <1>3, <1>4, <1>5, <1>6 DEF RuntimeStep

\* Behind a closed gate nothing of the runtime can move, except that a request gives up.
LEMMA ClosedRuntime ==
  ASSUME GateInv, ~Cleared, RuntimeStep
  PROVE  \E w \in Workers : Abandon(w)
<1>1. /\ \A w \in Workers : pc[w] \notin Past
      /\ exec.status # "RUNNING"
      /\ \A s \in Steps, a \in Attempts, w \in Workers : request[s][a][w] = "none"
  BY DEF GateInv, GateHolds, Called
<1>2. ASSUME NEW w \in Workers, RunStep(w)
      PROVE  FALSE
  <2>1. pc[w] \in Past
    <3>1. CASE StaleLease(w)
      BY <3>1 DEF StaleLease, Refused, AtStep, Past, RunPC, RecoverPC
    <3>2. CASE ~StaleLease(w)
      BY <1>2, <3>2 DEF RunStep, Start, Succeed, Skip, BadWhen, BadArgs, CreateAttempt,
           DuplicateAttempt, MarkRunning, Invoke, AnswerOK, AnswerFailed, AnswerUnknown, SaveOK,
           SaveFailed, SaveUnknown, Advance, Finish, AtStep, Past, RunPC
    <3> QED
      BY <3>1, <3>2
  <2> QED
    BY <1>1, <2>1
<1>3. ASSUME NEW w \in Workers, RecoverStep(w)
      PROVE  FALSE
  <2>1. CASE List(w)
    BY <2>1, <1>1 DEF List
  <2>2. CASE ~List(w)
    <3>1. pc[w] \in Past
      BY <1>3, <2>2 DEF RecoverStep, Claim, Get, Read, MarkUnknown, Plan, Planning, Resume, Query,
           RecordApplied, Past, RecoverPC
    <3> QED
      BY <1>1, <3>1
  <2> QED
    BY <2>1, <2>2
<1>4. ASSUME NEW w \in Workers, Heartbeat(w)
      PROVE  FALSE
  BY <1>1, <1>4 DEF Heartbeat, Past, RunPC
<1>5. ASSUME NEW s \in Steps, NEW a \in Attempts, NEW w \in Workers, ToolStep(s, a, w)
      PROVE  FALSE
  BY <1>1, <1>5 DEF ToolStep, ToolApplies, ToolRefuses, RequestLost
<1>6. ~LeaseExpires
  BY <1>1 DEF LeaseExpires
<1> QED
  BY <1>2, <1>3, <1>4, <1>5, <1>6 DEF RuntimeStep

LEMMA RuntimeKeepsGate ==
  ASSUME GateInv, RuntimeStep
  PROVE  GateInv'
<1>1. Shape' /\ skill' = skill
  BY RuntimeKeepsShape DEF GateInv
<1>2. risk' = risk /\ approvals' = approvals /\ said' = said
  BY DEF RuntimeStep, approvalVars
<1>3. Cleared' = Cleared
  BY <1>1, <1>2 DEF Cleared, Forbidden, NeedsApproval, Live
<1>4. ApprovalsAreTrue'
  BY <1>2 DEF GateInv, ApprovalsAreTrue
<1>5. GateHolds'
  <2>1. CASE Cleared
    BY <2>1, <1>3 DEF GateHolds
  <2>2. CASE ~Cleared
    <3>1. PICK w \in Workers : Abandon(w)
      BY <2>2, ClosedRuntime
    <3>2. pc'[w] \notin Past /\ \A x \in Workers : x # w => pc'[x] = pc[x]
      BY <3>1, ReturnShape DEF Abandon, GateInv
    <3>3. exec' = exec /\ request' = request
      BY <3>1 DEF Abandon, store
    <3>4. /\ \A x \in Workers : pc[x] \notin Past
          /\ exec.status # "RUNNING"
          /\ ~Called
      BY <2>2 DEF GateInv, GateHolds
    <3> QED
      BY <3>2, <3>3, <3>4 DEF GateHolds, Called
  <2> QED
    BY <2>1, <2>2
<1> QED
  BY <1>1, <1>4, <1>5 DEF GateInv

-----------------------------------------------------------------------------
(* Requests at the gate. *)

LEMMA RunnersWork == Runners \subseteq Workers
BY DEF Workers

LEMMA Overwrite ==
  ASSUME approvals \in Seq(ApprovalStatus), NEW i, NEW v \in ApprovalStatus,
         approvals' = [approvals EXCEPT ![i] = v]
  PROVE  approvals' \in Seq(ApprovalStatus) /\ Len(approvals') = Len(approvals)
<1>1. approvals \in [1..Len(approvals) -> ApprovalStatus] /\ Len(approvals) \in Nat
  OBVIOUS
<1>2. approvals' \in [1..Len(approvals) -> ApprovalStatus]
  BY <1>1
<1>3. approvals' \in Seq(ApprovalStatus)
  BY <1>1, <1>2
<1> QED
  BY <1>1, <1>2, <1>3

\* They leave the skill and the requests to tools alone, take back no verdict, and keep
\* the approvals true.
LEMMA GateStepFrame ==
  ASSUME ApprovalsAreTrue, NEW w \in Workers, GateStep(w)
  PROVE  /\ skill' = skill /\ risk' = risk /\ request' = request
         /\ said \subseteq said'
         /\ ApprovalsAreTrue'
<1>1. /\ skill' = skill /\ risk' = risk /\ request' = request
      /\ said \subseteq said'
  BY DEF GateStep, Enter, Admit, Deny, Wait, Ask, ReadWaiting, ReadApproval, Release, ReadPending,
       Approve, Reject, ReadRejected, Cancel, UpdateRefused, Lookup, outside, store, approvalVars
<1>2. CASE UNCHANGED approvals
  BY <1>1, <1>2 DEF ApprovalsAreTrue
<1>3. CASE Ask(w)
  <2>1. approvals' = Append(approvals, "PENDING")
    BY <1>3 DEF Ask
  <2>2. ApprovalsAreTrue'
    BY <1>1, <2>1 DEF ApprovalsAreTrue, ApprovalStatus
  <2> QED
    BY <1>1, <2>2
<1>4. CASE Approve(w) \/ Reject(w)
  <2>1. PICK v \in Verdicts : approvals' = [approvals EXCEPT ![case[w]] = v]
                            /\ (v = "APPROVED" => v \in said')
    BY <1>4 DEF Approve, Reject, Verdicts
  <2>2. approvals' \in Seq(ApprovalStatus) /\ Len(approvals') = Len(approvals)
    <3>1. v \in ApprovalStatus /\ approvals \in Seq(ApprovalStatus)
      BY DEF ApprovalsAreTrue, ApprovalStatus
    <3> QED
      BY <3>1, <2>1, Overwrite
  <2>3. \A i \in 1..Len(approvals) : approvals'[i] = approvals[i] \/ approvals'[i] = v
    BY <2>1 DEF ApprovalsAreTrue
  <2> QED
    BY <1>1, <2>1, <2>2, <2>3 DEF ApprovalsAreTrue
<1>5. UNCHANGED approvals \/ Ask(w) \/ Approve(w) \/ Reject(w)
  BY DEF GateStep, Enter, Admit, Deny, Wait, ReadWaiting, ReadApproval, Release, ReadPending,
       ReadRejected, Cancel, UpdateRefused, approvalVars
<1> QED
  BY <1>1, <1>2, <1>3, <1>4, <1>5

LEMMA GateKeepsShape ==
  ASSUME Shape, NEW w \in Workers, GateStep(w)
  PROVE  Shape'
<1> USE GotoShape, ReturnShape, UpdateShape, SameShape
<1>1. CASE Enter(w)
  BY <1>1, Zenon DEF Enter, Lookup, Shape, store
<1>2. CASE Admit(w)
  <2>1. exec' = [f \in Columns |-> exec'[f]]
    BY <1>2 DEF Admit, Shape, Columns
  <2> QED
    BY <1>2, <2>1, Zenon DEF Admit, Shape
<1>3. CASE Deny(w) \/ Wait(w) \/ Release(w) \/ Cancel(w)
  BY <1>3, Zenon DEF Deny, Wait, Release, Cancel, Shape
<1>4. CASE Ask(w) \/ ReadWaiting(w) \/ ReadApproval(w) \/ ReadPending(w)
  BY <1>4, Zenon DEF Ask, ReadWaiting, ReadApproval, ReadPending, Shape, store
<1>5. CASE Approve(w) \/ Reject(w) \/ ReadRejected(w) \/ UpdateRefused(w)
  BY <1>5, Zenon DEF Approve, Reject, ReadRejected, UpdateRefused, Shape, store
<1> QED
  BY <1>1, <1>2, <1>3, <1>4, <1>5 DEF GateStep

\* A request that meets a closed gate stays in front of it.
LEMMA ClosedGate ==
  ASSUME GateInv, ~Cleared, NEW w \in Workers, GateStep(w)
  PROVE  /\ pc'[w] \notin Past /\ \A x \in Workers : x # w => pc'[x] = pc[x]
         /\ exec'.status # "RUNNING"
<1> DEFINE Closed == {"insert", "deny", "wait", "ask", "approval", "approve", "reject",
                      "rejected", "cancel"}
<1>1. Shape /\ pc[w] \notin Past /\ exec.status # "RUNNING"
  BY DEF GateInv, GateHolds
<1>2. Closed \cap Past = {}
  BY DEF Past, RunPC, RecoverPC
<1>3. \A p \in Closed : Goto(w, p) =>
        pc'[w] \notin Past /\ \A x \in Workers : x # w => pc'[x] = pc[x]
  BY <1>1, <1>2, GotoShape
<1>4. Return(w) => pc'[w] \notin Past /\ \A x \in Workers : x # w => pc'[x] = pc[x]
  BY <1>1, ReturnShape
<1>5. \A able \in BOOLEAN : Decide(able, FALSE) # "ALLOW"
  BY DEF Cleared, Decide
<1>6. LatestApproved => \A able \in BOOLEAN : Decide(able, TRUE) = "DENY"
  <2>1. SUFFICES ASSUME LatestApproved
                 PROVE  "APPROVED" \in said
    BY DEF Cleared, Decide
  <2>2. Len(approvals) \in 1..Len(approvals)
    BY <2>1 DEF LatestApproved, GateInv, ApprovalsAreTrue
  <2> QED
    BY <2>1, <2>2 DEF LatestApproved, GateInv, ApprovalsAreTrue
<1> HIDE DEF Before
<1>7. pc[w] # "release"
  BY <1>1 DEF Past
<1>8. /\ pc'[w] \notin Past
      /\ \A x \in Workers : x # w => pc'[x] = pc[x]
  <2> USE <1>3, <1>4
  <2>1. CASE Enter(w) \/ Wait(w) \/ Deny(w) \/ Ask(w)
    BY <2>1 DEF Enter, Lookup, Wait, Deny, Ask, Before
  <2>2. CASE Admit(w)
    BY <2>2, <1>5 DEF Admit, Before
  <2>3. CASE ReadWaiting(w) \/ ReadPending(w)
    BY <2>3 DEF ReadWaiting, ReadPending, Before
  <2>4. CASE ReadApproval(w)
    BY <2>4, <1>6 DEF ReadApproval, Before
  <2>5. CASE Approve(w) \/ Reject(w) \/ ReadRejected(w) \/ Cancel(w) \/ UpdateRefused(w)
    BY <2>5 DEF Approve, Reject, ReadRejected, Cancel, UpdateRefused, Before
  <2> QED
    BY <1>7, <2>1, <2>2, <2>3, <2>4, <2>5 DEF GateStep, Release
<1>9. exec'.status # "RUNNING"
  <2>1. CASE UNCHANGED exec
    BY <1>1, <2>1
  <2>2. CASE Wait(w) \/ Deny(w) \/ Cancel(w)
    BY <2>2, <1>1, UpdateShape DEF Wait, Deny, Cancel
  <2>3. CASE Admit(w)
    BY <2>3, <1>1 DEF Admit, Shape, Columns
  <2> QED
    BY <1>7, <2>1, <2>2, <2>3 DEF GateStep, Enter, Lookup, Ask, ReadWaiting, ReadApproval, Release,
      ReadPending, Approve, Reject, ReadRejected, UpdateRefused, store
<1> QED
  BY <1>8, <1>9

LEMMA GateStepKeepsGate ==
  ASSUME GateInv, NEW w \in Workers, GateStep(w)
  PROVE  GateInv'
<1>1. /\ skill' = skill /\ risk' = risk /\ request' = request
      /\ said \subseteq said'
      /\ ApprovalsAreTrue'
  BY GateStepFrame DEF GateInv
<1>2. Cleared => Cleared'
  BY <1>1 DEF Cleared, Forbidden, NeedsApproval, Live
<1>3. ~Cleared => GateHolds'
  <2>1. SUFFICES ASSUME ~Cleared
                 PROVE  GateHolds'
    OBVIOUS
  <2>2. /\ pc'[w] \notin Past /\ \A x \in Workers : x # w => pc'[x] = pc[x]
        /\ exec'.status # "RUNNING"
    BY <2>1, ClosedGate
  <2>3. (\A x \in Workers : pc[x] \notin Past) /\ ~Called
    BY <2>1 DEF GateInv, GateHolds
  <2> QED
    BY <1>1, <2>2, <2>3 DEF GateHolds, Called
<1> QED
  BY <1>1, <1>2, <1>3, GateKeepsShape DEF GateInv, GateHolds

-----------------------------------------------------------------------------

LEMMA GateInit == ApprovalInit => GateInv
<1> SUFFICES ASSUME ApprovalInit
             PROVE  GateInv
  OBVIOUS
<1>1. Shape
  BY DEF ApprovalInit, Init, Shape, Columns
<1>2. ApprovalsAreTrue
  BY DEF ApprovalInit, ApprovalsAreTrue
<1>3. GateHolds
  BY DEF ApprovalInit, Init, GateHolds, Called, Past, RunPC, RecoverPC
<1> QED
  BY <1>1, <1>2, <1>3 DEF GateInv

LEMMA GateNext == GateInv /\ [ApprovalNext]_allVars => GateInv'
<1> SUFFICES ASSUME GateInv, [ApprovalNext]_allVars
             PROVE  GateInv'
  OBVIOUS
<1>1. CASE \E w \in Runners : GateStep(w)
  BY <1>1, RunnersWork, GateStepKeepsGate
<1>2. CASE RuntimeStep
  BY <1>2, RuntimeKeepsGate
<1>3. CASE UNCHANGED allVars
  BY <1>3 DEF allVars, vars, approvalVars, GateInv, Shape, ApprovalsAreTrue, GateHolds, Called,
    Cleared, Forbidden, NeedsApproval, Live
<1> QED
  BY <1>1, <1>2, <1>3 DEF ApprovalNext

\* No tool is called for a skill that the policy forbids, or that needs an approval nobody has
\* given: not by a request, a resumed execution, a second request with the same key or a
\* recovery loop (runtime.go Run, Resume, Approve; policy.go Decide).
THEOREM Unapproved == ApprovalSpec => []NothingRunsUnapproved
<1>1. GateInv => NothingRunsUnapproved
  BY DEF GateInv, GateHolds, Cleared, NothingRunsUnapproved
<1> QED
  BY <1>1, GateInit, GateNext, PTL DEF ApprovalSpec


-----------------------------------------------------------------------------
(* An execution that has ended, with nobody at work on it.                 *)

\* Where a worker is that has met the ended execution, or has not looked at it yet: it will read
\* the row before it writes it.
Harmless == {"idle", "done", "insert", "approve", "reject", "rejected"}

EndedAs(s) == exec.status = s /\ \A w \in Workers : pc[w] \in Harmless

LEMMA HarmlessGoto ==
  ASSUME Shape, NEW s, EndedAs(s), NEW w \in Workers,
         Return(w) \/ \E p \in Harmless : Goto(w, p)
  PROVE  \A x \in Workers : pc'[x] \in Harmless
<1>1. PICK p \in Harmless : Goto(w, p)
  <2>1. Return(w) => \E p \in {"done", "idle"} : Goto(w, p)
    BY DEF Return
  <2> QED BY <2>1 DEF Harmless
<1>2. pc'[w] = p /\ \A x \in Workers : x # w => pc'[x] = pc[x]
  BY <1>1, GotoShape
<1> QED BY <1>2 DEF EndedAs

\* Of the runtime only a late tool and a request that gives up still move.
LEMMA EndedRuntime ==
  ASSUME Shape, NEW s \in Ended, EndedAs(s), RuntimeStep
  PROVE  EndedAs(s)'
<1>1. /\ \A w \in Workers : pc[w] \in Harmless
      /\ exec.status # "RUNNING"
  BY DEF EndedAs, Ended, Terminal
<1>2. ASSUME NEW w \in Workers, RunStep(w)
      PROVE  FALSE
  <2>1. pc[w] \in RunPC \/ pc[w] \in RecoverPC \ {"idle"}
    <3>1. CASE StaleLease(w)
      BY <3>1 DEF StaleLease, Refused, AtStep, RunPC, RecoverPC
    <3>2. CASE ~StaleLease(w)
      BY <1>2, <3>2 DEF RunStep, Start, Succeed, Skip, BadWhen, BadArgs, CreateAttempt,
           DuplicateAttempt, MarkRunning, Invoke, AnswerOK, AnswerFailed, AnswerUnknown, SaveOK,
           SaveFailed, SaveUnknown, Advance, Finish, AtStep, RunPC
    <3> QED BY <3>1, <3>2
  <2> QED BY <1>1, <2>1 DEF Harmless, RunPC, RecoverPC
<1>3. ASSUME NEW w \in Workers, RecoverStep(w)
      PROVE  FALSE
  <2>1. CASE List(w)
    BY <2>1, <1>1 DEF List
  <2>2. CASE ~List(w)
    <3>1. pc[w] \in RecoverPC \ {"idle"}
      BY <1>3, <2>2 DEF RecoverStep, Claim, Get, Read, MarkUnknown, Plan, Planning, Resume, Query,
           RecordApplied, RecoverPC
    <3> QED BY <1>1, <3>1 DEF Harmless, RecoverPC
  <2> QED BY <2>1, <2>2
<1>4. ASSUME NEW w \in Workers, Heartbeat(w)
      PROVE  FALSE
  BY <1>1, <1>4 DEF Heartbeat, Harmless
<1>5. ASSUME NEW t \in Steps, NEW a \in Attempts, NEW w \in Workers, ToolStep(t, a, w)
      PROVE  EndedAs(s)'
  <2>1. exec' = exec /\ pc' = pc
    BY <1>5 DEF ToolStep, ToolApplies, ToolRefuses, RequestLost, store, outside
  <2> QED BY <2>1 DEF EndedAs
<1>6. ~LeaseExpires
  BY <1>1 DEF LeaseExpires
<1>7. ASSUME NEW w \in Workers, Abandon(w)
      PROVE  EndedAs(s)'
  <2>1. exec' = exec /\ Return(w)
    BY <1>7 DEF Abandon, store
  <2> QED BY <2>1, HarmlessGoto DEF EndedAs
<1> QED
  BY <1>2, <1>3, <1>4, <1>5, <1>6, <1>7 DEF RuntimeStep

\* Requests that come later read the ended row and leave it.
LEMMA EndedGate ==
  ASSUME Shape, NEW s \in Ended, EndedAs(s), NEW w \in Workers, GateStep(w)
  PROVE  EndedAs(s)'
<1>1. /\ pc[w] \in Harmless
      /\ exec.status \notin {"ABSENT", "PENDING", "WAITING_APPROVAL"}
  BY DEF EndedAs, Ended, Terminal
<1>2. exec' = exec /\ (Return(w) \/ \E p \in Harmless : Goto(w, p))
  <2>1. CASE Enter(w) \/ Admit(w)
    BY <1>1, <2>1 DEF Enter, Lookup, Admit, store
  <2>2. CASE ReadWaiting(w) \/ ReadRejected(w)
    BY <1>1, <2>2 DEF ReadWaiting, ReadRejected, store
  <2>3. CASE ReadPending(w) \/ Approve(w) \/ Reject(w)
    BY <2>3 DEF ReadPending, Approve, Reject, Harmless, store
  <2>4. ~ (Deny(w) \/ Wait(w) \/ Ask(w) \/ ReadApproval(w) \/ Release(w) \/ Cancel(w)
             \/ UpdateRefused(w))
    BY <1>1 DEF Deny, Wait, Ask, ReadApproval, Release, Cancel, UpdateRefused, Harmless
  <2> QED BY <2>1, <2>2, <2>3, <2>4 DEF GateStep
<1> QED BY <1>2, HarmlessGoto DEF EndedAs

\* An execution that has ended while nobody is at work on it never changes its status again,
\* whatever requests, verdicts, recovery loops and late tools come after: the unfenced writes of
\* UpdateExecution (skill_execution_repository.go) are of requests that had read the row before.
THEOREM EndStands == ApprovalSpec => QuietEndIsFinal
<1> SUFFICES ASSUME NEW s \in Ended
             PROVE  ApprovalSpec => []((exec.status = s /\ Quiet) => [](exec.status = s))
  BY DEF QuietEndIsFinal
<1>1. (exec.status = s /\ Quiet) => EndedAs(s)
  BY DEF Quiet, Working, EndedAs, Harmless
<1>2. GateInv /\ EndedAs(s) /\ [ApprovalNext]_allVars => EndedAs(s)'
  <2> SUFFICES ASSUME GateInv, EndedAs(s), [ApprovalNext]_allVars
               PROVE  EndedAs(s)'
    OBVIOUS
  <2>1. Shape
    BY DEF GateInv
  <2>2. CASE \E w \in Runners : GateStep(w)
    BY <2>1, <2>2, RunnersWork, EndedGate
  <2>3. CASE RuntimeStep
    BY <2>1, <2>3, EndedRuntime
  <2>4. CASE UNCHANGED allVars
    BY <2>4 DEF allVars, vars, EndedAs
  <2> QED BY <2>2, <2>3, <2>4 DEF ApprovalNext
<1>3. EndedAs(s) => exec.status = s
  BY DEF EndedAs
<1> QED BY <1>1, <1>2, <1>3, GateInit, GateNext, PTL DEF ApprovalSpec

=============================================================================
