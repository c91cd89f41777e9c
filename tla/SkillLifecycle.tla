--------------------------- MODULE SkillLifecycle ---------------------------
(***************************************************************************)
(* The life of a skill and its versions: compiled and validated, tried in  *)
(* shadow, activated when the shadow gate passes, revised, and suspended   *)
(* when live executions fail too often (RegistryService, ProposeRevision,  *)
(* ExecutionService.Execute, the feedback that ends in                     *)
(* MaybeSuspendFromLiveStats).                                             *)
(*                                                                         *)
(* Each operation reads, decides, and then writes skill and version in one *)
(* transaction; between the reads and the write anything may happen, and   *)
(* the write does not look again.                                          *)
(***************************************************************************)
EXTENDS Naturals, FiniteSets

CONSTANTS
  MaxVersion,     \* bound: versions of the skill
  Operators,      \* requests that move a version to shadow, activate or revise it
  Executors,      \* execute requests
  Reporters,      \* feedback requests
  Keys, NoKey,    \* idempotency keys of shadow executions
  ShadowMin, ShadowRate,        \* PromoteConfig: executions, and success rate in percent
  SuspendWindow, SuspendRate,   \* outcomes, and failure rate in percent
  MaxShadow,      \* bound: shadow outcomes recorded per version
  MaxOutcomes     \* bound: feedback applied per version

Versions == 1..MaxVersion
Clients == Operators \cup Executors \cup Reporters

ASSUME VersionsAssumption == MaxVersion \in Nat
ASSUME GateAssumption == ShadowMin \in Nat /\ ShadowRate \in Nat
ASSUME SuspendAssumption == SuspendWindow \in Nat /\ SuspendRate \in Nat
ASSUME LifecycleBounds == MaxShadow \in Nat /\ MaxOutcomes \in Nat
ASSUME KeyAssumption == NoKey \notin Keys

VARIABLES
  skill,          \* status of the skill
  active,         \* its active_version_id, 0 if none
  status, validation,     \* of each version; a version that does not exist yet is ABSENT
  good, bad,      \* shadow_successes, shadow_failures
  wins, losses,   \* success_count, failure_count
  shadowRuns,     \* the shadow executions, by key: of which version, and how it went
  lived,          \* the versions that were ever executed live
  pc, me          \* where each request is, and what it has read

vars == <<skill, active, status, validation, good, bad, wins, losses, shadowRuns, lived, pc, me>>
asset == <<skill, active, status>>
counters == <<good, bad, wins, losses>>
work == <<shadowRuns, lived>>

\* The statuses the lifecycle gives; the enums know ARCHIVED, and a DEPRECATED skill, too.
SkillStatus == {"ABSENT", "CANDIDATE", "VALIDATED", "SHADOW", "ACTIVE", "SUSPENDED"}
VersionStatus == {"ABSENT", "CANDIDATE", "VALIDATED", "SHADOW", "ACTIVE", "SUSPENDED", "DEPRECATED"}
ValidationStatus == {"PENDING", "PASSED", "FAILED"}
Runs == [of: 0..MaxVersion, result: {"NONE", "RUNNING", "SUCCEEDED", "FAILED"}]
NoRun == [of |-> 0, result |-> "NONE"]

PCs == {"idle", "toShadow", "gate", "previous", "activate", "list", "create", "run", "count",
        "judge", "blame", "suspend"}

\* `ver' is the version the request is about, `other' the active one it has read, `key' the
\* key of its shadow execution and `ok' its success, `then' where PromoteABWinner goes on
\* after a move to shadow.
Local == [ver: 0..MaxVersion, other: 0..MaxVersion, key: Keys \cup {NoKey}, ok: BOOLEAN,
          then: {"idle", "gate"}]
Request(v, k, ok, then) == [ver |-> v, other |-> 0, key |-> k, ok |-> ok, then |-> then]
NoRequest == Request(0, NoKey, FALSE, "idle")

Init ==
  /\ skill = "ABSENT" /\ active = 0
  /\ status = [v \in Versions |-> "ABSENT"]
  /\ validation = [v \in Versions |-> "PENDING"]
  /\ good = [v \in Versions |-> 0] /\ bad = [v \in Versions |-> 0]
  /\ wins = [v \in Versions |-> 0] /\ losses = [v \in Versions |-> 0]
  /\ shadowRuns = [k \in Keys |-> NoRun]
  /\ lived = {}
  /\ pc = [c \in Clients |-> "idle"]
  /\ me = [c \in Clients |-> NoRequest]

-----------------------------------------------------------------------------

Goto(c, p) == pc' = [pc EXCEPT ![c] = p]
Return(c) == Goto(c, "idle") /\ me' = [me EXCEPT ![c] = NoRequest]
Idle(c) == pc[c] = "idle"
Exists(v) == status[v] # "ABSENT"

\* A version's row is taken up by the request.
Take(c, v, p) ==
  /\ Goto(c, p)
  /\ me' = [me EXCEPT ![c] = Request(v, NoKey, FALSE, "idle")]

-----------------------------------------------------------------------------
(* Compilation, revision and validation. *)

\* CompileAndCreate: validated and stored in one transaction; the name is unique.
Compile(c) ==
  /\ c \in Operators /\ Idle(c) /\ skill = "ABSENT" /\ 1 \in Versions
  /\ \E ok \in BOOLEAN :
       /\ skill' = IF ok THEN "VALIDATED" ELSE "CANDIDATE"
       /\ status' = [status EXCEPT ![1] = IF ok THEN "VALIDATED" ELSE "CANDIDATE"]
       /\ validation' = [validation EXCEPT ![1] = IF ok THEN "PASSED" ELSE "FAILED"]
  /\ UNCHANGED <<active, counters, work, pc, me>>

\* ProposeRevision: the next number after those listed; UNIQUE (skill_id, version) refuses
\* it if another request was faster.
ListVersions(c) ==
  /\ (c \in Operators /\ Idle(c)) \/ pc[c] = "list"
  /\ skill # "ABSENT"
  /\ \E v \in Versions :
       /\ ~Exists(v) /\ \A u \in 1..(v - 1) : Exists(u)
       /\ Take(c, v, "create")
  /\ UNCHANGED <<asset, validation, counters, work>>

CreateVersion(c) ==
  /\ pc[c] = "create"
  /\ status' = [v \in Versions |-> IF v = me[c].ver /\ ~Exists(v) THEN "CANDIDATE" ELSE status[v]]
  /\ Return(c)
  /\ UNCHANGED <<skill, active, validation, counters, work>>

\* ApplyValidationReport and UpdateVersion, as the learning-chain benchmark does it: the
\* server has no request for it.
Validate(v) ==
  /\ status[v] = "CANDIDATE" /\ validation[v] = "PENDING"
  /\ \E ok \in BOOLEAN :
       /\ validation' = [validation EXCEPT ![v] = IF ok THEN "PASSED" ELSE "FAILED"]
       /\ status' = IF ok THEN [status EXCEPT ![v] = "VALIDATED"] ELSE status
  /\ UNCHANGED <<skill, active, counters, work, pc, me>>

-----------------------------------------------------------------------------
(* MoveToShadow, Activate, PromoteABWinner. *)

\* Any status of a version that was validated will do.
MoveToShadow(c, v) ==
  /\ c \in Operators /\ Idle(c) /\ Exists(v) /\ validation[v] = "PASSED"
  /\ Take(c, v, "toShadow")
  /\ UNCHANGED <<asset, validation, counters, work>>

TransitionToShadow(c) ==
  /\ pc[c] = "toShadow"
  /\ status' = [status EXCEPT ![me[c].ver] = "SHADOW"]
  /\ skill' = "SHADOW"
  /\ IF me[c].then = "gate" THEN Goto(c, "gate") /\ UNCHANGED me ELSE Return(c)
  /\ UNCHANGED <<active, validation, counters, work>>

\* Faulty: the rate without the number of executions.
GateByRate(v) == 100 * good[v] >= ShadowRate * (good[v] + bad[v])

Gate(v) ==
  /\ good[v] + bad[v] >= ShadowMin
  /\ 100 * good[v] >= ShadowRate * (good[v] + bad[v])

\* Activate reads the version ...
Activate(c, v) ==
  /\ c \in Operators /\ Idle(c) /\ Exists(v)
  /\ Take(c, v, "gate")
  /\ UNCHANGED <<asset, validation, counters, work>>

CheckGate(c) ==
  /\ pc[c] = "gate"
  /\ IF status[me[c].ver] = "SHADOW" /\ Gate(me[c].ver)
     THEN Goto(c, "previous") /\ UNCHANGED me
     ELSE Return(c)
  /\ UNCHANGED <<asset, validation, counters, work>>

\* ... then the skill, for the version to deprecate ...
ReadPrevious(c) ==
  /\ pc[c] = "previous"
  /\ Goto(c, "activate")
  /\ me' = [me EXCEPT ![c].other = active]
  /\ UNCHANGED <<asset, validation, counters, work>>

\* Faulty: the previous version stays as it is.
ActivateBeside(c) ==
  /\ pc[c] = "activate"
  /\ status' = [status EXCEPT ![me[c].ver] = "ACTIVE"]
  /\ skill' = "ACTIVE" /\ active' = me[c].ver
  /\ Return(c)
  /\ UNCHANGED <<validation, counters, work>>

\* ... and writes all three rows.
ActivateVersion(c) ==
  /\ pc[c] = "activate"
  /\ status' = [v \in Versions |->
       IF v = me[c].ver THEN "ACTIVE" ELSE IF v = me[c].other THEN "DEPRECATED" ELSE status[v]]
  /\ skill' = "ACTIVE" /\ active' = me[c].ver
  /\ Return(c)
  /\ UNCHANGED <<validation, counters, work>>

\* The winner of a comparison is shadowed if it is not, and activated if the gate passes.
PromoteABWinner(c, v) ==
  /\ c \in Operators /\ Idle(c) /\ Exists(v) /\ status[v] # "ACTIVE"
  /\ \/ status[v] = "SHADOW" /\ Take(c, v, "gate")
     \/ /\ status[v] # "SHADOW" /\ validation[v] = "PASSED"
        /\ Goto(c, "toShadow")
        /\ me' = [me EXCEPT ![c] = Request(v, NoKey, FALSE, "gate")]
  /\ UNCHANGED <<asset, validation, counters, work>>

-----------------------------------------------------------------------------
(* ExecutionService.Execute. *)

\* A shadow execution of a SHADOW or ACTIVE version. The execution of a key that was used
\* before, for whatever version, is answered again as it stands.
ExecuteShadow(c, v) ==
  /\ c \in Executors /\ Idle(c)
  /\ validation[v] = "PASSED" /\ status[v] \in {"SHADOW", "ACTIVE"}
  /\ \E k \in Keys :
       \/ /\ shadowRuns[k].result = "NONE"
          /\ shadowRuns' = [shadowRuns EXCEPT ![k] = [of |-> v, result |-> "RUNNING"]]
          /\ Goto(c, "run")
          /\ me' = [me EXCEPT ![c] = Request(v, k, FALSE, "idle")]
       \/ /\ shadowRuns[k].result # "NONE"
          /\ Goto(c, "count")
          /\ me' = [me EXCEPT ![c] = Request(v, k, shadowRuns[k].result = "SUCCEEDED", "idle")]
          /\ UNCHANGED shadowRuns
  /\ UNCHANGED <<asset, validation, counters, lived>>

\* The runtime, or the recovery of an execution whose request is gone, brings it to an end.
FinishShadow(k) ==
  /\ shadowRuns[k].result = "RUNNING"
  /\ \E result \in {"SUCCEEDED", "FAILED"} : shadowRuns' = [shadowRuns EXCEPT ![k].result = result]
  /\ UNCHANGED <<asset, validation, counters, lived, pc, me>>

ShadowAnswer(c) ==
  /\ pc[c] = "run" /\ shadowRuns[me[c].key].result # "RUNNING"
  /\ Goto(c, "count")
  /\ me' = [me EXCEPT ![c].ok = (shadowRuns[me[c].key].result = "SUCCEEDED")]
  /\ UNCHANGED <<asset, validation, counters, work>>

\* Every answer is counted.
RecordShadowOutcome(c) ==
  LET v == me[c].ver IN
  /\ pc[c] = "count"
  /\ good[v] + bad[v] < MaxShadow
  /\ IF me[c].ok THEN good' = [good EXCEPT ![v] = @ + 1] /\ UNCHANGED bad
                 ELSE bad' = [bad EXCEPT ![v] = @ + 1] /\ UNCHANGED good
  /\ Return(c)
  /\ UNCHANGED <<asset, validation, wins, losses, work>>

\* A live execution asks for the version's status, not for the skill's. One that failed may
\* have an automatic revision.
ExecuteLive(c, v) ==
  /\ c \in Executors /\ Idle(c)
  /\ validation[v] = "PASSED" /\ status[v] = "ACTIVE"
  /\ lived' = lived \cup {v}
  /\ Goto(c, "idle") \/ Goto(c, "list")
  /\ UNCHANGED <<asset, validation, counters, shadowRuns, me>>

-----------------------------------------------------------------------------
(* Feedback about a version. Nobody asks whether, or when, it was executed. *)

ApplySkillFeedback(c, v) ==
  /\ c \in Reporters /\ Idle(c) /\ Exists(v)
  /\ wins[v] + losses[v] < MaxOutcomes
  /\ \/ wins' = [wins EXCEPT ![v] = @ + 1] /\ UNCHANGED losses
     \/ losses' = [losses EXCEPT ![v] = @ + 1] /\ UNCHANGED wins
  /\ Take(c, v, "judge")
  /\ UNCHANGED <<asset, validation, good, bad, work>>

FailsTooOften(v) ==
  /\ wins[v] + losses[v] >= SuspendWindow
  /\ 100 * losses[v] > SuspendRate * (wins[v] + losses[v])

MaybeSuspend(c) ==
  /\ pc[c] = "judge"
  /\ IF FailsTooOften(me[c].ver) THEN Goto(c, "blame") /\ UNCHANGED me ELSE Return(c)
  /\ UNCHANGED <<asset, validation, counters, work>>

\* Suspend takes whatever version is active ...
ReadActive(c) ==
  /\ pc[c] = "blame"
  /\ Goto(c, "suspend")
  /\ me' = [me EXCEPT ![c].other = active]
  /\ UNCHANGED <<asset, validation, counters, work>>

\* Faulty: the version is suspended, the skill is not.
SuspendVersionOnly(c) ==
  /\ pc[c] = "suspend"
  /\ status' = [v \in Versions |-> IF v = me[c].other THEN "SUSPENDED" ELSE status[v]]
  /\ Return(c)
  /\ UNCHANGED <<skill, active, validation, counters, work>>

\* ... and suspends it, with the skill.
SuspendActive(c) ==
  /\ pc[c] = "suspend"
  /\ status' = [v \in Versions |-> IF v = me[c].other THEN "SUSPENDED" ELSE status[v]]
  /\ skill' = "SUSPENDED"
  /\ Return(c)
  /\ UNCHANGED <<active, validation, counters, work>>

\* A crash, a cancelled request or a database error.
Abandon(c) ==
  /\ ~Idle(c)
  /\ Return(c)
  /\ UNCHANGED <<asset, validation, counters, work>>

-----------------------------------------------------------------------------

OperatorStep(c) ==
  \/ Compile(c) \/ ListVersions(c) \/ CreateVersion(c)
  \/ TransitionToShadow(c) \/ CheckGate(c) \/ ReadPrevious(c) \/ ActivateVersion(c)
  \/ \E v \in Versions : MoveToShadow(c, v) \/ Activate(c, v) \/ PromoteABWinner(c, v)

ExecutorStep(c) ==
  \/ ShadowAnswer(c) \/ RecordShadowOutcome(c)
  \/ \E v \in Versions : ExecuteShadow(c, v) \/ ExecuteLive(c, v)

ReporterStep(c) ==
  \/ MaybeSuspend(c) \/ ReadActive(c) \/ SuspendActive(c)
  \/ \E v \in Versions : ApplySkillFeedback(c, v)

Next ==
  \/ \E c \in Clients : OperatorStep(c) \/ ExecutorStep(c) \/ ReporterStep(c) \/ Abandon(c)
  \/ \E v \in Versions : Validate(v)
  \/ \E k \in Keys : FinishShadow(k)

Spec == Init /\ [][Next]_vars

-----------------------------------------------------------------------------
(* What must hold. *)

TypeOK ==
  /\ skill \in SkillStatus /\ active \in 0..MaxVersion
  /\ status \in [Versions -> VersionStatus] /\ validation \in [Versions -> ValidationStatus]
  /\ good \in [Versions -> Nat] /\ bad \in [Versions -> Nat]
  /\ wins \in [Versions -> Nat] /\ losses \in [Versions -> Nat]
  /\ shadowRuns \in [Keys -> Runs]
  /\ lived \in SUBSET Versions
  /\ pc \in [Clients -> PCs] /\ me \in [Clients -> Local]

Vetted(v) == validation[v] = "PASSED" /\ good[v] + bad[v] >= ShadowMin

\* Whatever was ever executed live, or may be, was validated and has its shadow outcomes,
\* however the moves, activations and promotions of versions interleave (execute.go:83-102).
LiveIsVetted == \A v \in Versions : status[v] = "ACTIVE" \/ v \in lived => Vetted(v)

\* What retrieval offers can be executed: the skill is never ACTIVE while the version it
\* points to is anything else.
OfferedIsActive == skill = "ACTIVE" => active \in Versions /\ status[active] = "ACTIVE"

\* Activation deprecates the version that was active before (lifecycle.go:175): there is one
\* ACTIVE version at most.
OneActive == \A u, v \in Versions : status[u] = "ACTIVE" /\ status[v] = "ACTIVE" => u = v

=============================================================================
