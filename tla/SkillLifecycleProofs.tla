------------------------ MODULE SkillLifecycleProofs ------------------------
(***************************************************************************)
(* For any number of versions and requests and any gate: what is executed  *)
(* live was validated and has its shadow outcomes, and what the skill      *)
(* offers is an active version.                                            *)
(***************************************************************************)
EXTENDS SkillLifecycle, TLAPS

USE VersionsAssumption, GateAssumption, SuspendAssumption, LifecycleBounds, KeyAssumption

-----------------------------------------------------------------------------
(* What a request remembers. *)

LEMMA RequestFields ==
  ASSUME NEW v \in 0..MaxVersion, NEW k \in Keys \cup {NoKey}, NEW ok \in BOOLEAN,
         NEW then \in {"idle", "gate"}
  PROVE  /\ Request(v, k, ok, then) \in Local
         /\ Request(v, k, ok, then).ver = v /\ Request(v, k, ok, then).key = k
<1>1. 0 \in 0..MaxVersion
  OBVIOUS
<1>2. \A z \in 0..MaxVersion :
        LET l == [ver |-> v, other |-> z, key |-> k, ok |-> ok, then |-> then]
        IN  l \in Local /\ l.ver = v /\ l.key = k
  BY Zenon DEF Local
<1> QED
  BY <1>1, <1>2, Zenon DEF Request

LEMMA NoRequestType == NoRequest \in Local
<1>1. 0 \in 0..MaxVersion /\ NoKey \in Keys \cup {NoKey} /\ FALSE \in BOOLEAN
  OBVIOUS
<1> QED
  BY <1>1, RequestFields, Zenon DEF NoRequest

-----------------------------------------------------------------------------
(* How a step moves its request. *)

Others(c) == \A d \in Clients \ {c} : pc'[d] = pc[d] /\ me'[d] = me[d]
Placed == pc' \in [Clients -> PCs] /\ me' \in [Clients -> Local]

LEMMA Went ==
  ASSUME TypeOK, NEW c \in Clients, NEW p \in PCs, Goto(c, p), NEW l \in Local,
         me' = [me EXCEPT ![c] = l]
  PROVE  Placed /\ Others(c) /\ pc'[c] = p /\ me'[c] = l
BY DEF TypeOK, Goto, Placed, Others

LEMMA Stayed ==
  ASSUME TypeOK, NEW c \in Clients, NEW p \in PCs, Goto(c, p), UNCHANGED me
  PROVE  Placed /\ Others(c) /\ pc'[c] = p /\ me'[c] = me[c]
BY DEF TypeOK, Goto, Placed, Others

LEMMA Returned ==
  ASSUME TypeOK, NEW c \in Clients, Return(c)
  PROVE  Placed /\ Others(c) /\ pc'[c] = "idle"
BY NoRequestType, Went DEF Return, PCs

LEMMA Taken ==
  ASSUME TypeOK, NEW c \in Clients, NEW v \in Versions, NEW k \in Keys \cup {NoKey},
         NEW ok \in BOOLEAN, NEW then \in {"idle", "gate"}, NEW p \in PCs, Goto(c, p),
         me' = [me EXCEPT ![c] = Request(v, k, ok, then)]
  PROVE  Placed /\ Others(c) /\ pc'[c] = p /\ me'[c].ver = v /\ me'[c].key = k
<1>1. v \in 0..MaxVersion
  BY SMT DEF Versions
<1>2. /\ Request(v, k, ok, then) \in Local
      /\ Request(v, k, ok, then).ver = v /\ Request(v, k, ok, then).key = k
  BY <1>1, RequestFields
<1> QED
  BY <1>2, Went

\* The read of another row is noted and the request stays about its version.
LEMMA NotedOther ==
  ASSUME TypeOK, NEW c \in Clients, NEW p \in PCs, Goto(c, p),
         me' = [me EXCEPT ![c].other = active]
  PROVE  Placed /\ Others(c) /\ pc'[c] = p /\ me'[c].ver = me[c].ver /\ me'[c].key = me[c].key
         /\ me'[c].other = active
<1>1. pc' \in [Clients -> PCs] /\ pc'[c] = p /\ \A d \in Clients \ {c} : pc'[d] = pc[d]
  BY DEF TypeOK, Goto
<1>2. \A n \in 0..MaxVersion, l \in Local :
        LET m == [l EXCEPT !.other = n]
        IN  m \in Local /\ m.ver = l.ver /\ m.key = l.key /\ m.other = n
  BY DEF Local
<1>3. me[c] \in Local /\ active \in 0..MaxVersion /\ me \in [Clients -> Local]
  BY DEF TypeOK
<1>4. me' = [me EXCEPT ![c] = [me[c] EXCEPT !.other = active]]
  OBVIOUS
<1>5. /\ me' \in [Clients -> Local]
      /\ me'[c] = [me[c] EXCEPT !.other = active]
      /\ \A d \in Clients \ {c} : me'[d] = me[d]
  BY <1>2, <1>3, <1>4
<1> QED
  BY <1>1, <1>2, <1>3, <1>5 DEF Placed, Others

LEMMA NotedOk ==
  ASSUME TypeOK, NEW c \in Clients, NEW p \in PCs, Goto(c, p), NEW b \in BOOLEAN,
         me' = [me EXCEPT ![c].ok = b]
  PROVE  Placed /\ Others(c) /\ pc'[c] = p /\ me'[c].ver = me[c].ver
<1>1. pc' \in [Clients -> PCs] /\ pc'[c] = p /\ \A d \in Clients \ {c} : pc'[d] = pc[d]
  BY DEF TypeOK, Goto
<1>2. \A l \in Local : [l EXCEPT !.ok = b] \in Local /\ [l EXCEPT !.ok = b].ver = l.ver
  BY DEF Local
<1>3. me[c] \in Local /\ me \in [Clients -> Local]
  BY DEF TypeOK
<1>4. me' = [me EXCEPT ![c] = [me[c] EXCEPT !.ok = b]]
  OBVIOUS
<1>5. /\ me' \in [Clients -> Local]
      /\ me'[c] = [me[c] EXCEPT !.ok = b]
      /\ \A d \in Clients \ {c} : me'[d] = me[d]
  BY <1>2, <1>3, <1>4
<1> QED
  BY <1>1, <1>2, <1>3, <1>5 DEF Placed, Others
-----------------------------------------------------------------------------
(* The inductive invariant. *)

\* Before the skill is compiled there are no versions and no requests about them.
Fresh ==
  skill = "ABSENT" =>
    /\ \A v \in Versions : status[v] = "ABSENT" /\ validation[v] = "PENDING"
    /\ \A c \in Clients : pc[c] = "idle"

\* The status SHADOW, which CheckGate asks for, stands for a passed validation.
ShadowIsValidated == \A v \in Versions : status[v] = "SHADOW" => validation[v] = "PASSED"

\* What a request has found out stays true until it writes.
RequestOk(c) ==
  /\ pc[c] \notin {"idle", "list"} => me[c].ver \in Versions
  /\ pc[c] = "toShadow" => validation[me[c].ver] = "PASSED"
  /\ pc[c] \in {"previous", "activate"} => Vetted(me[c].ver)
  /\ pc[c] = "run" => me[c].key \in Keys

Inv == TypeOK /\ Fresh /\ ShadowIsValidated /\ LiveIsVetted /\ \A c \in Clients : RequestOk(c)

AssetType ==
  /\ skill \in SkillStatus /\ active \in 0..MaxVersion
  /\ status \in [Versions -> VersionStatus] /\ validation \in [Versions -> ValidationStatus]
CountersType ==
  /\ good \in [Versions -> Nat] /\ bad \in [Versions -> Nat]
  /\ wins \in [Versions -> Nat] /\ losses \in [Versions -> Nat]
WorkType == shadowRuns \in [Keys -> Runs] /\ lived \in SUBSET Versions

LEMMA TypeParts == TypeOK <=> AssetType /\ CountersType /\ WorkType
                              /\ pc \in [Clients -> PCs] /\ me \in [Clients -> Local]
BY DEF TypeOK, AssetType, CountersType, WorkType

\* A validation is never taken back, and outcomes are only added.
Grows ==
  \A v \in Versions :
    /\ validation[v] = "PASSED" => validation'[v] = "PASSED"
    /\ good'[v] + bad'[v] >= good[v] + bad[v]

LEMMA VettedStays ==
  ASSUME CountersType, CountersType', Grows, NEW v \in Versions, Vetted(v)
  PROVE  Vetted(v)'
<1>1. validation'[v] = "PASSED"
  BY DEF Grows, Vetted
<1>2. \A a, b \in Nat : a >= b /\ b >= ShadowMin => a >= ShadowMin
  OBVIOUS
<1>3. good[v] + bad[v] \in Nat /\ good'[v] + bad'[v] \in Nat
  BY DEF CountersType
<1>4. good'[v] + bad'[v] >= good[v] + bad[v] /\ good[v] + bad[v] >= ShadowMin
  BY DEF Grows, Vetted
<1> QED
  BY <1>1, <1>2, <1>3, <1>4 DEF Vetted

\* A step that moves at most the request of c leaves the others in order.
LEMMA OthersOk ==
  ASSUME Inv, CountersType', Grows, NEW c, Others(c)
  PROVE  \A d \in Clients \ {c} : RequestOk(d)'
<1> SUFFICES ASSUME NEW d \in Clients \ {c}
             PROVE  RequestOk(d)'
  OBVIOUS
<1>1. RequestOk(d) /\ pc'[d] = pc[d] /\ me'[d] = me[d]
  BY DEF Inv, Others
<1>2. \A v \in Versions : /\ Vetted(v) => Vetted(v)'
                          /\ validation[v] = "PASSED" => validation'[v] = "PASSED"
  BY VettedStays, TypeParts DEF Inv, Grows
<1>3. \A v : Vetted(v)' <=> validation'[v] = "PASSED" /\ good'[v] + bad'[v] >= ShadowMin
  BY DEF Vetted
<1>4. pc'[d] \in {"previous", "activate"} => Vetted(me[d].ver)'
  <2>1. SUFFICES ASSUME pc[d] \in {"previous", "activate"}
                 PROVE  validation'[me[d].ver] = "PASSED"
                        /\ good'[me[d].ver] + bad'[me[d].ver] >= ShadowMin
    BY <1>1 DEF Vetted
  <2>2. me[d].ver \in Versions /\ Vetted(me[d].ver)
    BY <1>1, <2>1 DEF RequestOk
  <2> QED
    BY <2>2, <1>2, <1>3
<1> QED
  BY <1>1, <1>2, <1>4 DEF RequestOk
\* What is left to show of a step: the types of what it writes, that its own request is in
\* order, and that it makes live only what is vetted.
LEMMA Concluded ==
  ASSUME Inv, NEW c \in Clients, Placed, Others(c), AssetType', CountersType', WorkType',
         Grows, skill' # "ABSENT", RequestOk(c)', ShadowIsValidated',
         \A v \in Versions : status'[v] = "ACTIVE" \/ v \in lived'
                             => status[v] = "ACTIVE" \/ v \in lived \/ Vetted(v)
  PROVE  Inv'
<1>1. TypeOK'
  BY DEF TypeOK, AssetType, CountersType, WorkType, Placed
<1>2. \A v \in Versions : Vetted(v) => Vetted(v)'
  BY VettedStays, TypeParts DEF Inv
<1>3. LiveIsVetted'
  BY <1>2 DEF LiveIsVetted, Inv
<1>4. \A d \in Clients : RequestOk(d)'
  BY OthersOk
<1> QED
  BY <1>1, <1>3, <1>4 DEF Inv, Fresh

\* A step that only reads.
LEMMA OnlyReads ==
  ASSUME Inv, NEW c \in Clients, Placed, Others(c), skill # "ABSENT", RequestOk(c)',
         UNCHANGED <<asset, validation, counters, work>>
  PROVE  Inv'
<1>1. /\ UNCHANGED <<skill, active, status>> /\ UNCHANGED <<good, bad, wins, losses>>
      /\ UNCHANGED <<shadowRuns, lived, validation>>
  BY DEF asset, counters, work
<1>2. AssetType' /\ CountersType' /\ WorkType'
  BY <1>1, TypeParts DEF Inv, AssetType, CountersType, WorkType
<1>3. Grows
  <2>1. \A v \in Versions : good[v] + bad[v] \in Nat
    BY TypeParts DEF Inv, CountersType
  <2> QED
    BY <1>1, <2>1 DEF Grows
<1>4. ShadowIsValidated'
  BY <1>1 DEF Inv, ShadowIsValidated
<1> QED
  BY <1>1, <1>2, <1>3, <1>4, Concluded

LEMMA BusyMeansCompiled ==
  ASSUME Inv, NEW c \in Clients, pc[c] # "idle"
  PROVE  skill # "ABSENT"
BY DEF Inv, Fresh

LEMMA ExistsMeansCompiled ==
  ASSUME Inv, NEW v \in Versions, Exists(v) \/ validation[v] = "PASSED"
  PROVE  skill # "ABSENT"
BY DEF Inv, Fresh, Exists

-----------------------------------------------------------------------------
(* The steps that only read or only finish. *)

LEMMA PlainReads ==
  ASSUME Inv, NEW c \in Clients,
         ListVersions(c) \/ CheckGate(c) \/ ReadPrevious(c) \/ MaybeSuspend(c) \/ ReadActive(c)
         \/ ShadowAnswer(c) \/ Abandon(c)
         \/ \E v \in Versions : MoveToShadow(c, v) \/ Activate(c, v) \/ PromoteABWinner(c, v)
  PROVE  Inv'
<1> USE DEF Inv
<1>0. TypeOK /\ RequestOk(c)
  OBVIOUS
<1>1. CASE ListVersions(c)
  <2>1. PICK v \in Versions : Take(c, v, "create")
    BY <1>1 DEF ListVersions
  <2>2. Placed /\ Others(c) /\ pc'[c] = "create" /\ me'[c].ver = v
    BY <1>0, <2>1, Taken DEF Take, PCs
  <2>3. RequestOk(c)'
    BY <2>2 DEF RequestOk
  <2> QED
    BY <1>1, <2>2, <2>3, OnlyReads DEF ListVersions
<1>2. CASE CheckGate(c)
  <2>1. skill # "ABSENT" /\ me[c].ver \in Versions
    BY <1>0, <1>2, BusyMeansCompiled DEF CheckGate, RequestOk
  <2>2. CASE status[me[c].ver] = "SHADOW" /\ Gate(me[c].ver)
    <3>1. Placed /\ Others(c) /\ pc'[c] = "previous" /\ me'[c] = me[c]
      BY <1>0, <1>2, <2>2, Stayed DEF CheckGate, PCs
    <3>2. Vetted(me[c].ver)
      BY <2>1, <2>2 DEF Gate, Vetted, ShadowIsValidated
    <3>3. UNCHANGED <<validation, good, bad>>
      BY <1>2 DEF CheckGate, counters
    <3>4. RequestOk(c)'
      BY <2>1, <3>1, <3>2, <3>3 DEF RequestOk, Vetted
    <3> QED
      BY <1>2, <2>1, <3>1, <3>4, OnlyReads DEF CheckGate
  <2>3. CASE ~(status[me[c].ver] = "SHADOW" /\ Gate(me[c].ver))
    <3>1. Placed /\ Others(c) /\ pc'[c] = "idle"
      BY <1>0, <1>2, <2>3, Returned DEF CheckGate
    <3>2. RequestOk(c)'
      BY <3>1 DEF RequestOk
    <3> QED
      BY <1>2, <2>1, <3>1, <3>2, OnlyReads DEF CheckGate
  <2> QED
    BY <2>2, <2>3
<1>3. CASE ReadPrevious(c)
  <2>1. skill # "ABSENT" /\ me[c].ver \in Versions /\ Vetted(me[c].ver)
    BY <1>0, <1>3, BusyMeansCompiled DEF ReadPrevious, RequestOk
  <2>2. Placed /\ Others(c) /\ pc'[c] = "activate" /\ me'[c].ver = me[c].ver
    BY <1>0, <1>3, NotedOther DEF ReadPrevious, PCs
  <2>3. UNCHANGED <<validation, good, bad>>
    BY <1>3 DEF ReadPrevious, counters
  <2>4. RequestOk(c)'
    BY <2>1, <2>2, <2>3 DEF RequestOk, Vetted
  <2> QED
    BY <1>3, <2>1, <2>2, <2>4, OnlyReads DEF ReadPrevious
<1>4. CASE MaybeSuspend(c)
  <2>1. skill # "ABSENT" /\ me[c].ver \in Versions
    BY <1>0, <1>4, BusyMeansCompiled DEF MaybeSuspend, RequestOk
  <2>2. Placed /\ Others(c) /\ (pc'[c] = "idle" \/ (pc'[c] = "blame" /\ me'[c] = me[c]))
    BY <1>0, <1>4, Stayed, Returned DEF MaybeSuspend, PCs
  <2>3. RequestOk(c)'
    BY <2>1, <2>2 DEF RequestOk
  <2> QED
    BY <1>4, <2>1, <2>2, <2>3, OnlyReads DEF MaybeSuspend
<1>5. CASE ReadActive(c)
  <2>1. skill # "ABSENT" /\ me[c].ver \in Versions
    BY <1>0, <1>5, BusyMeansCompiled DEF ReadActive, RequestOk
  <2>2. Placed /\ Others(c) /\ pc'[c] = "suspend" /\ me'[c].ver = me[c].ver
    BY <1>0, <1>5, NotedOther DEF ReadActive, PCs
  <2>3. RequestOk(c)'
    BY <2>1, <2>2 DEF RequestOk
  <2> QED
    BY <1>5, <2>1, <2>2, <2>3, OnlyReads DEF ReadActive
<1>6. CASE ShadowAnswer(c)
  <2>1. skill # "ABSENT" /\ me[c].ver \in Versions
    BY <1>0, <1>6, BusyMeansCompiled DEF ShadowAnswer, RequestOk
  <2>2. Placed /\ Others(c) /\ pc'[c] = "count" /\ me'[c].ver = me[c].ver
    BY <1>0, <1>6, NotedOk DEF ShadowAnswer, PCs
  <2>3. RequestOk(c)'
    BY <2>1, <2>2 DEF RequestOk
  <2> QED
    BY <1>6, <2>1, <2>2, <2>3, OnlyReads DEF ShadowAnswer
<1>7. CASE Abandon(c)
  <2>1. skill # "ABSENT"
    BY <1>7, BusyMeansCompiled DEF Abandon, Idle
  <2>2. Placed /\ Others(c) /\ pc'[c] = "idle"
    BY <1>0, <1>7, Returned DEF Abandon
  <2>3. RequestOk(c)'
    BY <2>2 DEF RequestOk
  <2> QED
    BY <1>7, <2>1, <2>2, <2>3, OnlyReads DEF Abandon
<1>8. CASE \E v \in Versions : MoveToShadow(c, v) \/ Activate(c, v) \/ PromoteABWinner(c, v)
  <2>1. PICK v \in Versions : MoveToShadow(c, v) \/ Activate(c, v) \/ PromoteABWinner(c, v)
    BY <1>8
  <2>2. /\ Exists(v) /\ UNCHANGED <<asset, validation, counters, work>>
        /\ UNCHANGED validation
    BY <2>1 DEF MoveToShadow, Activate, PromoteABWinner
  <2>3. skill # "ABSENT"
    BY <2>2, ExistsMeansCompiled
  <2>4. \/ Take(c, v, "gate")
        \/ Take(c, v, "toShadow") /\ validation[v] = "PASSED"
        \/ /\ Goto(c, "toShadow") /\ me' = [me EXCEPT ![c] = Request(v, NoKey, FALSE, "gate")]
           /\ validation[v] = "PASSED"
    BY <2>1 DEF MoveToShadow, Activate, PromoteABWinner
  <2>5. /\ Placed /\ Others(c) /\ me'[c].ver = v
        /\ pc'[c] = "gate" \/ (pc'[c] = "toShadow" /\ validation[v] = "PASSED")
    <3>1. "gate" \in PCs /\ "toShadow" \in PCs
      BY DEF PCs
    <3>2. NoKey \in Keys \cup {NoKey} /\ FALSE \in BOOLEAN
      OBVIOUS
    <3> QED
      BY <1>0, <2>4, <3>1, <3>2, Taken DEF Take
  <2>6. RequestOk(c)'
    BY <2>2, <2>5 DEF RequestOk
  <2> QED
    BY <2>2, <2>3, <2>5, <2>6, OnlyReads
<1> QED
  BY <1>1, <1>2, <1>3, <1>4, <1>5, <1>6, <1>7, <1>8
-----------------------------------------------------------------------------
(* The steps that write the skill and its versions. *)

LEMMA CompileStep ==
  ASSUME Inv, NEW c \in Clients, Compile(c)
  PROVE  Inv'
<1> USE DEF Inv
<1>1. PICK ok \in BOOLEAN :
        /\ skill' = IF ok THEN "VALIDATED" ELSE "CANDIDATE"
        /\ status' = [status EXCEPT ![1] = IF ok THEN "VALIDATED" ELSE "CANDIDATE"]
        /\ validation' = [validation EXCEPT ![1] = IF ok THEN "PASSED" ELSE "FAILED"]
  BY DEF Compile
<1>2. /\ \A v \in Versions : status[v] = "ABSENT" /\ validation[v] = "PENDING"
      /\ \A d \in Clients : pc[d] = "idle"
  BY DEF Compile, Fresh
<1>3. UNCHANGED active /\ UNCHANGED <<good, bad, wins, losses>> /\ UNCHANGED <<shadowRuns, lived>>
      /\ UNCHANGED pc /\ UNCHANGED me
  BY DEF Compile, counters, work
<1>4. lived = {}
  <2>1. \A v \in Versions : v \notin lived
    BY <1>2 DEF LiveIsVetted, Vetted
  <2> QED
    BY <2>1 DEF TypeOK
<1>5. /\ status' \in [Versions -> {"ABSENT", "VALIDATED", "CANDIDATE"}]
      /\ validation' \in [Versions -> ValidationStatus]
  BY <1>1, <1>2 DEF TypeOK, ValidationStatus
<1>6. TypeOK'
  <2>1. skill' \in SkillStatus /\ active' \in 0..MaxVersion
        /\ status' \in [Versions -> VersionStatus]
    BY <1>1, <1>3, <1>5 DEF TypeOK, SkillStatus, VersionStatus
  <2> QED
    BY <2>1, <1>3, <1>5 DEF TypeOK
<1>7. Fresh' /\ ShadowIsValidated' /\ LiveIsVetted'
  BY <1>1, <1>3, <1>4, <1>5 DEF Fresh, ShadowIsValidated, LiveIsVetted
<1>8. \A d \in Clients : RequestOk(d)'
  BY <1>2, <1>3 DEF RequestOk
<1> QED
  BY <1>6, <1>7, <1>8

LEMMA ValidateStep ==
  ASSUME Inv, NEW v \in Versions, Validate(v)
  PROVE  Inv'
<1> USE DEF Inv
<1>1. /\ status[v] = "CANDIDATE" /\ validation[v] = "PENDING"
      /\ UNCHANGED <<skill, active>> /\ UNCHANGED <<good, bad, wins, losses>>
      /\ UNCHANGED <<shadowRuns, lived>> /\ UNCHANGED pc /\ UNCHANGED me
  BY DEF Validate, counters, work
<1>2. PICK ok \in BOOLEAN :
        /\ validation' = [validation EXCEPT ![v] = IF ok THEN "PASSED" ELSE "FAILED"]
        /\ status' = IF ok THEN [status EXCEPT ![v] = "VALIDATED"] ELSE status
  BY DEF Validate
<1>3. /\ status \in [Versions -> VersionStatus] /\ validation \in [Versions -> ValidationStatus]
  BY DEF TypeOK
<1>4. /\ status' \in [Versions -> VersionStatus] /\ validation' \in [Versions -> ValidationStatus]
  BY <1>2, <1>3 DEF VersionStatus, ValidationStatus
<1>5. /\ \A u \in Versions \ {v} : status'[u] = status[u] /\ validation'[u] = validation[u]
      /\ status'[v] \in {"VALIDATED", "CANDIDATE"}
  BY <1>1, <1>2, <1>3
<1>6. TypeOK'
  BY <1>1, <1>4 DEF TypeOK
<1>7. skill # "ABSENT"
  BY <1>1 DEF Fresh
<1>8. \A u \in Versions : Vetted(u) => u # v /\ Vetted(u)'
  BY <1>1, <1>5 DEF Vetted
<1>9. Fresh' /\ ShadowIsValidated' /\ LiveIsVetted'
  BY <1>1, <1>5, <1>7, <1>8 DEF Fresh, ShadowIsValidated, LiveIsVetted
<1>10. ASSUME NEW d \in Clients
       PROVE  RequestOk(d)'
  <2>1. RequestOk(d) /\ pc'[d] = pc[d] /\ me'[d] = me[d]
    BY <1>1
  <2>2. \A u \in Versions : Vetted(u) => validation'[u] = "PASSED"
                                         /\ good'[u] + bad'[u] >= ShadowMin
    BY <1>8 DEF Vetted
  <2>3. \A u \in Versions : validation[u] = "PASSED" => validation'[u] = "PASSED"
    BY <1>1, <1>5
  <2> QED
    BY <2>1, <2>2, <2>3 DEF RequestOk, Vetted
<1> QED
  BY <1>6, <1>9, <1>10

LEMMA CreateVersionStep ==
  ASSUME Inv, NEW c \in Clients, CreateVersion(c)
  PROVE  Inv'
<1> USE DEF Inv
<1>1. /\ skill # "ABSENT"
      /\ UNCHANGED <<skill, active>> /\ UNCHANGED <<good, bad, wins, losses>>
      /\ UNCHANGED <<shadowRuns, lived>> /\ UNCHANGED validation
  BY BusyMeansCompiled DEF CreateVersion, counters, work
<1>2. Placed /\ Others(c) /\ pc'[c] = "idle"
  BY Returned DEF CreateVersion
<1>3. status' = [v \in Versions |-> IF v = me[c].ver /\ ~Exists(v) THEN "CANDIDATE" ELSE status[v]]
  BY DEF CreateVersion
<1>4. status' \in [Versions -> VersionStatus]
      /\ \A v \in Versions : status'[v] = status[v] \/ status'[v] = "CANDIDATE"
  BY <1>3 DEF TypeOK, VersionStatus
<1>5. AssetType' /\ CountersType' /\ WorkType'
  BY <1>1, <1>4, TypeParts DEF AssetType, CountersType, WorkType
<1>6. Grows
  BY <1>1 DEF Grows, TypeOK
<1>7. RequestOk(c)' /\ ShadowIsValidated'
  BY <1>1, <1>2, <1>4 DEF RequestOk, ShadowIsValidated
<1>8. \A v \in Versions : status'[v] = "ACTIVE" \/ v \in lived' => status[v] = "ACTIVE" \/ v \in lived
  BY <1>1, <1>4
<1> QED
  BY <1>1, <1>2, <1>5, <1>6, <1>7, <1>8, Concluded

LEMMA TransitionStep ==
  ASSUME Inv, NEW c \in Clients, TransitionToShadow(c)
  PROVE  Inv'
<1> USE DEF Inv
<1>1. /\ UNCHANGED active /\ UNCHANGED <<good, bad, wins, losses>>
      /\ UNCHANGED <<shadowRuns, lived>> /\ UNCHANGED validation
      /\ skill' = "SHADOW" /\ status' = [status EXCEPT ![me[c].ver] = "SHADOW"]
  BY DEF TransitionToShadow, counters, work
<1>2. me[c].ver \in Versions /\ validation[me[c].ver] = "PASSED"
  BY DEF TransitionToShadow, RequestOk
<1>3. Placed /\ Others(c) /\ (pc'[c] = "idle" \/ (pc'[c] = "gate" /\ me'[c] = me[c]))
  BY Stayed, Returned DEF TransitionToShadow, PCs
<1>4. status' \in [Versions -> VersionStatus]
      /\ \A v \in Versions : status'[v] = status[v]
                             \/ (status'[v] = "SHADOW" /\ validation[v] = "PASSED")
  BY <1>1, <1>2 DEF TypeOK, VersionStatus
<1>5. AssetType' /\ CountersType' /\ WorkType'
  BY <1>1, <1>4, TypeParts DEF AssetType, CountersType, WorkType, SkillStatus
<1>6. Grows
  BY <1>1 DEF Grows, TypeOK
<1>7. RequestOk(c)' /\ ShadowIsValidated'
  BY <1>1, <1>2, <1>3, <1>4 DEF RequestOk, ShadowIsValidated
<1>8. \A v \in Versions : status'[v] = "ACTIVE" \/ v \in lived' => status[v] = "ACTIVE" \/ v \in lived
  BY <1>1, <1>4
<1> QED
  BY <1>1, <1>3, <1>5, <1>6, <1>7, <1>8, Concluded

LEMMA ActivateVersionStep ==
  ASSUME Inv, NEW c \in Clients, ActivateVersion(c)
  PROVE  Inv'
<1> USE DEF Inv
<1>1. /\ UNCHANGED <<good, bad, wins, losses>> /\ UNCHANGED <<shadowRuns, lived>>
      /\ UNCHANGED validation /\ skill' = "ACTIVE" /\ active' = me[c].ver
      /\ status' = [v \in Versions |-> IF v = me[c].ver THEN "ACTIVE"
                                       ELSE IF v = me[c].other THEN "DEPRECATED" ELSE status[v]]
  BY DEF ActivateVersion, counters, work
<1>2. me[c].ver \in Versions /\ Vetted(me[c].ver)
  BY DEF ActivateVersion, RequestOk
<1>3. Placed /\ Others(c) /\ pc'[c] = "idle"
  BY Returned DEF ActivateVersion
<1>4. status' \in [Versions -> VersionStatus]
      /\ \A v \in Versions : \/ status'[v] = status[v] \/ status'[v] = "DEPRECATED"
                             \/ status'[v] = "ACTIVE" /\ Vetted(v)
  BY <1>1, <1>2 DEF TypeOK, VersionStatus
<1>5. AssetType'
  <2>1. active' \in 0..MaxVersion
    BY <1>1, <1>2, SMT DEF Versions
  <2> QED
    BY <1>1, <1>4, <2>1, TypeParts DEF AssetType, SkillStatus
<1>6. CountersType' /\ WorkType'
  BY <1>1, TypeParts DEF CountersType, WorkType
<1>7. Grows
  BY <1>1 DEF Grows, TypeOK
<1>8. RequestOk(c)' /\ ShadowIsValidated'
  BY <1>1, <1>3, <1>4 DEF RequestOk, ShadowIsValidated
<1>9. \A v \in Versions : status'[v] = "ACTIVE" \/ v \in lived'
                          => status[v] = "ACTIVE" \/ v \in lived \/ Vetted(v)
  BY <1>1, <1>4
<1> QED
  BY <1>1, <1>3, <1>5, <1>6, <1>7, <1>8, <1>9, Concluded

LEMMA SuspendActiveStep ==
  ASSUME Inv, NEW c \in Clients, SuspendActive(c)
  PROVE  Inv'
<1> USE DEF Inv
<1>1. /\ UNCHANGED active /\ UNCHANGED <<good, bad, wins, losses>>
      /\ UNCHANGED <<shadowRuns, lived>> /\ UNCHANGED validation /\ skill' = "SUSPENDED"
      /\ status' = [v \in Versions |-> IF v = me[c].other THEN "SUSPENDED" ELSE status[v]]
  BY DEF SuspendActive, counters, work
<1>2. Placed /\ Others(c) /\ pc'[c] = "idle"
  BY Returned DEF SuspendActive
<1>3. status' \in [Versions -> VersionStatus]
      /\ \A v \in Versions : status'[v] = status[v] \/ status'[v] = "SUSPENDED"
  BY <1>1 DEF TypeOK, VersionStatus
<1>4. AssetType' /\ CountersType' /\ WorkType'
  BY <1>1, <1>3, TypeParts DEF AssetType, CountersType, WorkType, SkillStatus
<1>5. Grows
  BY <1>1 DEF Grows, TypeOK
<1>6. RequestOk(c)' /\ ShadowIsValidated'
  BY <1>1, <1>2, <1>3 DEF RequestOk, ShadowIsValidated
<1>7. \A v \in Versions : status'[v] = "ACTIVE" \/ v \in lived' => status[v] = "ACTIVE" \/ v \in lived
  BY <1>1, <1>3
<1> QED
  BY <1>1, <1>2, <1>4, <1>5, <1>6, <1>7, Concluded
-----------------------------------------------------------------------------
(* Executions and feedback. *)

LEMMA ExecuteShadowStep ==
  ASSUME Inv, NEW c \in Clients, NEW v \in Versions, ExecuteShadow(c, v)
  PROVE  Inv'
<1> USE DEF Inv
<1>1. /\ UNCHANGED <<skill, active, status>> /\ UNCHANGED <<good, bad, wins, losses>>
      /\ UNCHANGED lived /\ UNCHANGED validation /\ validation[v] = "PASSED"
  BY DEF ExecuteShadow, asset, counters
<1>2. PICK k \in Keys :
        \/ /\ shadowRuns' = [shadowRuns EXCEPT ![k] = [of |-> v, result |-> "RUNNING"]]
           /\ Goto(c, "run")
           /\ me' = [me EXCEPT ![c] = Request(v, k, FALSE, "idle")]
        \/ /\ Goto(c, "count")
           /\ me' = [me EXCEPT ![c] = Request(v, k, shadowRuns[k].result = "SUCCEEDED", "idle")]
           /\ UNCHANGED shadowRuns
  BY DEF ExecuteShadow
<1>3. /\ Placed /\ Others(c) /\ me'[c].ver = v /\ me'[c].key = k /\ pc'[c] \in {"run", "count"}
  <2>1. TypeOK /\ "run" \in PCs /\ "count" \in PCs
    BY DEF PCs
  <2>2. k \in Keys \cup {NoKey} /\ "idle" \in {"idle", "gate"}
    OBVIOUS
  <2>3. PICK ok \in BOOLEAN, p \in {"run", "count"} :
          Goto(c, p) /\ me' = [me EXCEPT ![c] = Request(v, k, ok, "idle")]
    <3>1. FALSE \in BOOLEAN /\ (shadowRuns[k].result = "SUCCEEDED") \in BOOLEAN
      OBVIOUS
    <3> QED
      BY <1>2, <3>1, Zenon
  <2>4. p \in PCs
    BY <2>1, <2>3
  <2> QED
    BY <2>1, <2>2, <2>3, <2>4, Taken, Zenon
<1>4. shadowRuns' \in [Keys -> Runs]
  <2>1. v \in 0..MaxVersion
    BY SMT DEF Versions
  <2>2. [of |-> v, result |-> "RUNNING"] \in Runs
    BY <2>1, Zenon DEF Runs
  <2> QED
    BY <1>2, <2>2 DEF TypeOK
<1>5. AssetType' /\ CountersType' /\ WorkType'
  BY <1>1, <1>4, TypeParts DEF AssetType, CountersType, WorkType
<1>6. Grows
  BY <1>1 DEF Grows, TypeOK
<1>7. skill' # "ABSENT"
  BY <1>1, ExistsMeansCompiled
<1>8. RequestOk(c)' /\ ShadowIsValidated'
  BY <1>1, <1>3 DEF RequestOk, ShadowIsValidated
<1>9. \A u \in Versions : status'[u] = "ACTIVE" \/ u \in lived' => status[u] = "ACTIVE" \/ u \in lived
  BY <1>1
<1> QED
  BY <1>3, <1>5, <1>6, <1>7, <1>8, <1>9, Concluded

LEMMA FinishShadowStep ==
  ASSUME Inv, NEW k \in Keys, FinishShadow(k)
  PROVE  Inv'
<1> USE DEF Inv
<1>1. /\ UNCHANGED <<skill, active, status>> /\ UNCHANGED <<good, bad, wins, losses>>
      /\ UNCHANGED lived /\ UNCHANGED validation /\ UNCHANGED pc /\ UNCHANGED me
  BY DEF FinishShadow, asset, counters
<1>2. PICK result \in {"SUCCEEDED", "FAILED"} :
        shadowRuns' = [shadowRuns EXCEPT ![k].result = result]
  BY DEF FinishShadow
<1>3. shadowRuns' \in [Keys -> Runs]
  <2>1. \A r \in Runs : [r EXCEPT !.result = result] \in Runs
    BY DEF Runs
  <2>2. shadowRuns' = [shadowRuns EXCEPT ![k] = [shadowRuns[k] EXCEPT !.result = result]]
    BY <1>2
  <2> QED
    BY <2>1, <2>2 DEF TypeOK
<1>4. TypeOK'
  BY <1>1, <1>3 DEF TypeOK
<1>5. Fresh' /\ ShadowIsValidated' /\ LiveIsVetted'
  BY <1>1 DEF Fresh, ShadowIsValidated, LiveIsVetted, Vetted
<1>6. \A d \in Clients : RequestOk(d)'
  BY <1>1 DEF RequestOk, Vetted
<1> QED
  BY <1>4, <1>5, <1>6

LEMMA RecordShadowOutcomeStep ==
  ASSUME Inv, NEW c \in Clients, RecordShadowOutcome(c)
  PROVE  Inv'
<1> USE DEF Inv
<1>1. /\ UNCHANGED <<skill, active, status>> /\ UNCHANGED <<wins, losses>>
      /\ UNCHANGED <<shadowRuns, lived>> /\ UNCHANGED validation /\ skill # "ABSENT"
      /\ me[c].ver \in Versions
  BY BusyMeansCompiled DEF RecordShadowOutcome, asset, work, RequestOk
<1>2. Placed /\ Others(c) /\ pc'[c] = "idle"
  BY Returned DEF RecordShadowOutcome
<1>3. \/ good' = [good EXCEPT ![me[c].ver] = good[me[c].ver] + 1] /\ UNCHANGED bad
      \/ bad' = [bad EXCEPT ![me[c].ver] = bad[me[c].ver] + 1] /\ UNCHANGED good
  BY DEF RecordShadowOutcome
<1>4. /\ good' \in [Versions -> Nat] /\ bad' \in [Versions -> Nat]
      /\ \A u \in Versions : good'[u] >= good[u] /\ bad'[u] >= bad[u]
  <2> DEFINE v == me[c].ver
  <2>1. v \in Versions /\ good \in [Versions -> Nat] /\ bad \in [Versions -> Nat]
    BY <1>1 DEF TypeOK
  <2>2. \/ good' = [good EXCEPT ![v] = good[v] + 1] /\ bad' = bad
        \/ bad' = [bad EXCEPT ![v] = bad[v] + 1] /\ good' = good
    BY <1>3
  <2> HIDE DEF v
  <2> QED
    BY <2>1, <2>2
<1>5. AssetType' /\ CountersType' /\ WorkType'
  BY <1>1, <1>4, TypeParts DEF AssetType, CountersType, WorkType
<1>6. Grows
  <2>1. \A u \in Versions : /\ good[u] \in Nat /\ bad[u] \in Nat
                            /\ good'[u] \in Nat /\ bad'[u] \in Nat
    BY <1>4 DEF TypeOK
  <2> QED
    BY <1>1, <1>4, <2>1 DEF Grows
<1>7. RequestOk(c)' /\ ShadowIsValidated'
  BY <1>1, <1>2 DEF RequestOk, ShadowIsValidated
<1>8. \A u \in Versions : status'[u] = "ACTIVE" \/ u \in lived' => status[u] = "ACTIVE" \/ u \in lived
  BY <1>1
<1> QED
  BY <1>1, <1>2, <1>5, <1>6, <1>7, <1>8, Concluded

LEMMA ExecuteLiveStep ==
  ASSUME Inv, NEW c \in Clients, NEW v \in Versions, ExecuteLive(c, v)
  PROVE  Inv'
<1> USE DEF Inv
<1>1. /\ UNCHANGED <<skill, active, status>> /\ UNCHANGED <<good, bad, wins, losses>>
      /\ UNCHANGED shadowRuns /\ UNCHANGED validation /\ lived' = lived \cup {v}
      /\ status[v] = "ACTIVE"
  BY DEF ExecuteLive, asset, counters
<1>2. Placed /\ Others(c) /\ pc'[c] \in {"idle", "list"}
  BY Stayed DEF ExecuteLive, PCs
<1>3. AssetType' /\ CountersType' /\ WorkType'
  BY <1>1, TypeParts DEF AssetType, CountersType, WorkType
<1>4. Grows
  BY <1>1 DEF Grows, TypeOK
<1>5. skill' # "ABSENT"
  BY <1>1, ExistsMeansCompiled DEF Exists
<1>6. RequestOk(c)' /\ ShadowIsValidated'
  BY <1>1, <1>2 DEF RequestOk, ShadowIsValidated
<1>7. \A u \in Versions : status'[u] = "ACTIVE" \/ u \in lived' => status[u] = "ACTIVE" \/ u \in lived
  BY <1>1
<1> QED
  BY <1>2, <1>3, <1>4, <1>5, <1>6, <1>7, Concluded

LEMMA ApplySkillFeedbackStep ==
  ASSUME Inv, NEW c \in Clients, NEW v \in Versions, ApplySkillFeedback(c, v)
  PROVE  Inv'
<1> USE DEF Inv
<1>1. /\ UNCHANGED <<skill, active, status>> /\ UNCHANGED <<good, bad>>
      /\ UNCHANGED <<shadowRuns, lived>> /\ UNCHANGED validation /\ Exists(v)
  BY DEF ApplySkillFeedback, asset, work
<1>2. Placed /\ Others(c) /\ pc'[c] = "judge" /\ me'[c].ver = v
  <2>1. "judge" \in PCs /\ NoKey \in Keys \cup {NoKey} /\ FALSE \in BOOLEAN
    BY DEF PCs
  <2> QED
    BY <2>1, Taken DEF ApplySkillFeedback, Take
<1>3. \/ wins' = [wins EXCEPT ![v] = wins[v] + 1] /\ UNCHANGED losses
      \/ losses' = [losses EXCEPT ![v] = losses[v] + 1] /\ UNCHANGED wins
  BY DEF ApplySkillFeedback
<1>4. AssetType' /\ CountersType' /\ WorkType'
  BY <1>1, <1>3, TypeParts DEF AssetType, CountersType, WorkType
<1>5. Grows
  BY <1>1 DEF Grows, TypeOK
<1>6. skill' # "ABSENT"
  BY <1>1, ExistsMeansCompiled
<1>7. RequestOk(c)' /\ ShadowIsValidated'
  BY <1>1, <1>2 DEF RequestOk, ShadowIsValidated
<1>8. \A u \in Versions : status'[u] = "ACTIVE" \/ u \in lived' => status[u] = "ACTIVE" \/ u \in lived
  BY <1>1
<1> QED
  BY <1>2, <1>4, <1>5, <1>6, <1>7, <1>8, Concluded

-----------------------------------------------------------------------------

LEMMA InvInit == Init => Inv
<1> SUFFICES ASSUME Init
             PROVE  Inv
  OBVIOUS
<1>1. /\ skill = "ABSENT" /\ active = 0 /\ lived = {}
      /\ status = [v \in Versions |-> "ABSENT"] /\ validation = [v \in Versions |-> "PENDING"]
      /\ pc = [c \in Clients |-> "idle"] /\ me = [c \in Clients |-> NoRequest]
  BY DEF Init
<1>2. AssetType /\ CountersType
  BY <1>1 DEF Init, AssetType, CountersType, SkillStatus, VersionStatus, ValidationStatus
<1>3. WorkType
  <2>1. \A n \in 0..MaxVersion : [of |-> n, result |-> "NONE"] \in Runs
    BY Zenon DEF Runs
  <2>2. 0 \in 0..MaxVersion
    OBVIOUS
  <2>3. NoRun \in Runs
    BY <2>1, <2>2, Zenon DEF NoRun
  <2>4. shadowRuns = [k \in Keys |-> NoRun]
    BY DEF Init
  <2> QED
    BY <1>1, <2>3, <2>4 DEF WorkType
<1>4. pc \in [Clients -> PCs] /\ me \in [Clients -> Local]
  BY <1>1, NoRequestType DEF PCs
<1>5. Fresh /\ ShadowIsValidated /\ LiveIsVetted
  BY <1>1 DEF Fresh, ShadowIsValidated, LiveIsVetted
<1>6. \A c \in Clients : RequestOk(c)
  BY <1>1 DEF RequestOk
<1> QED
  BY <1>2, <1>3, <1>4, <1>5, <1>6, TypeParts DEF Inv

LEMMA InvNext == Inv /\ [Next]_vars => Inv'
<1> SUFFICES ASSUME Inv, [Next]_vars
             PROVE  Inv'
  OBVIOUS
<1>1. CASE UNCHANGED vars
  BY <1>1 DEF vars, Inv, TypeOK, Fresh, ShadowIsValidated, LiveIsVetted, RequestOk, Vetted
<1>2. ASSUME NEW c \in Clients, OperatorStep(c) \/ ExecutorStep(c) \/ ReporterStep(c) \/ Abandon(c)
      PROVE  Inv'
  BY <1>2, PlainReads, CompileStep, CreateVersionStep, TransitionStep, ActivateVersionStep,
     SuspendActiveStep, ExecuteShadowStep, RecordShadowOutcomeStep, ExecuteLiveStep,
     ApplySkillFeedbackStep
     DEF OperatorStep, ExecutorStep, ReporterStep
<1>3. ASSUME NEW v \in Versions, Validate(v)
      PROVE  Inv'
  BY <1>3, ValidateStep
<1>4. ASSUME NEW k \in Keys, FinishShadow(k)
      PROVE  Inv'
  BY <1>4, FinishShadowStep
<1> QED
  BY <1>1, <1>2, <1>3, <1>4 DEF Next

LEMMA Invariance == Spec => []Inv
BY InvInit, InvNext, PTL DEF Spec

\* Every variable of the lifecycle keeps its type.
THEOREM LifecycleTypes == Spec => []TypeOK
<1>1. Inv => TypeOK
  BY DEF Inv
<1> QED
  BY <1>1, Invariance, PTL

\* Nothing is executed live that was not validated and tried in shadow (execute.go:83-102),
\* however the operations of the lifecycle interleave or break off.
THEOREM Vetting == Spec => []LiveIsVetted
<1>1. Inv => LiveIsVetted
  BY DEF Inv
<1> QED
  BY <1>1, Invariance, PTL

-----------------------------------------------------------------------------
(* What the skill offers. *)

LEMMA OfferedNext == Inv /\ OfferedIsActive /\ [Next]_vars => OfferedIsActive'
<1> SUFFICES ASSUME Inv, OfferedIsActive, [Next]_vars
             PROVE  OfferedIsActive'
  OBVIOUS
<1>0. TypeOK /\ \A c \in Clients : RequestOk(c)
  BY DEF Inv
<1>1. CASE UNCHANGED <<skill, active, status>>
  BY <1>1 DEF OfferedIsActive
<1>2. ASSUME NEW c \in Clients, Compile(c)
      PROVE  OfferedIsActive'
  BY <1>2 DEF Compile, OfferedIsActive
<1>3. ASSUME NEW c \in Clients, CreateVersion(c)
      PROVE  OfferedIsActive'
  <2>1. status' = [v \in Versions |-> IF v = me[c].ver /\ ~Exists(v) THEN "CANDIDATE" ELSE status[v]]
        /\ UNCHANGED <<skill, active>>
    BY <1>3 DEF CreateVersion
  <2> QED
    BY <2>1 DEF OfferedIsActive, Exists
<1>4. ASSUME NEW v \in Versions, Validate(v)
      PROVE  OfferedIsActive'
  <2>1. /\ status[v] = "CANDIDATE" /\ UNCHANGED <<skill, active>>
        /\ \A u \in Versions \ {v} : status'[u] = status[u]
    BY <1>0, <1>4 DEF Validate, TypeOK
  <2> QED
    BY <2>1 DEF OfferedIsActive
<1>5. ASSUME NEW c \in Clients, TransitionToShadow(c) \/ SuspendActive(c)
      PROVE  OfferedIsActive'
  BY <1>5 DEF TransitionToShadow, SuspendActive, OfferedIsActive
<1>6. ASSUME NEW c \in Clients, ActivateVersion(c)
      PROVE  OfferedIsActive'
  <2>1. me[c].ver \in Versions
    BY <1>0, <1>6 DEF RequestOk, ActivateVersion
  <2>2. active' = me[c].ver /\ status'[me[c].ver] = "ACTIVE"
    BY <1>6, <2>1 DEF ActivateVersion
  <2> QED
    BY <2>1, <2>2 DEF OfferedIsActive
<1>7. CASE Next
  <2>1. ASSUME NEW c \in Clients, OperatorStep(c) \/ ExecutorStep(c) \/ ReporterStep(c) \/ Abandon(c)
        PROVE  \/ UNCHANGED <<skill, active, status>>
               \/ Compile(c) \/ CreateVersion(c) \/ TransitionToShadow(c) \/ SuspendActive(c)
               \/ ActivateVersion(c)
    BY <2>1 DEF OperatorStep, ExecutorStep, ReporterStep, Abandon, ListVersions, CheckGate,
       ReadPrevious, MaybeSuspend, ReadActive, ShadowAnswer, MoveToShadow, Activate,
       PromoteABWinner, RecordShadowOutcome, ExecuteShadow, ExecuteLive, ApplySkillFeedback, asset
  <2>2. ASSUME NEW k \in Keys, FinishShadow(k)
        PROVE  UNCHANGED <<skill, active, status>>
    BY <2>2 DEF FinishShadow, asset
  <2> QED
    BY <1>1, <1>2, <1>3, <1>4, <1>5, <1>6, <1>7, <2>1, <2>2 DEF Next
<1>8. CASE UNCHANGED vars
  BY <1>1, <1>8 DEF vars
<1> QED
  BY <1>7, <1>8

\* What retrieval offers is an active version: skill and version are never seen apart, although
\* each operation decides on what it read before (skill_asset_repository.go:333-444).
THEOREM Offering == Spec => []OfferedIsActive
<1>1. Init => OfferedIsActive
  BY DEF Init, OfferedIsActive
<1> QED
  BY <1>1, OfferedNext, Invariance, PTL DEF Spec
-----------------------------------------------------------------------------
(* One activation at a time. *)

\* From the reading of the version to replace to the write, no two activations overlap.
ActivationsApart == \A c, d \in Clients : pc[c] = "activate" /\ pc[d] = "activate" => c = d

AtActivation == {"toShadow", "gate", "previous", "activate"}

SerialInv ==
  /\ \A u \in Versions : status[u] = "ACTIVE" => active = u
  /\ \A c \in Clients : pc[c] \in AtActivation => c \in Operators
  /\ \A c \in Clients : pc[c] = "activate" => me[c].other = active

\* A step that makes no version active, leaves the pointer alone, and brings its request to
\* an activation only if it is an operator's.
LEMMA SerialKept ==
  ASSUME Inv, SerialInv, NEW c \in Clients, Others(c), UNCHANGED active,
         \A u \in Versions : status'[u] = "ACTIVE" => status[u] = "ACTIVE",
         pc'[c] \in AtActivation => c \in Operators,
         pc'[c] = "activate" => me'[c].other = active
  PROVE  SerialInv'
BY DEF SerialInv, Others

LEMMA SerialNext ==
  ASSUME Inv, SerialInv, ActivationsApart, [Next]_vars
  PROVE  SerialInv'
<1>0. TypeOK /\ \A c \in Clients : RequestOk(c)
  BY DEF Inv
<1>1. ASSUME NEW c \in Clients, Compile(c)
      PROVE  SerialInv'
  <2>1. /\ \A u \in Versions : status'[u] = "ACTIVE" => status[u] = "ACTIVE"
        /\ UNCHANGED active /\ UNCHANGED pc /\ UNCHANGED me
    BY <1>0, <1>1 DEF Compile, TypeOK
  <2> QED
    BY <2>1 DEF SerialInv
<1>2. ASSUME NEW v \in Versions, Validate(v)
      PROVE  SerialInv'
  <2>1. /\ \A u \in Versions : status'[u] = "ACTIVE" => status[u] = "ACTIVE"
        /\ UNCHANGED active /\ UNCHANGED pc /\ UNCHANGED me
    BY <1>0, <1>2 DEF Validate, TypeOK
  <2> QED
    BY <2>1 DEF SerialInv
<1>3. ASSUME NEW k \in Keys, FinishShadow(k)
      PROVE  SerialInv'
  BY <1>3 DEF FinishShadow, asset, SerialInv
<1>4. ASSUME NEW c \in Clients, CreateVersion(c) \/ TransitionToShadow(c) \/ SuspendActive(c)
      PROVE  SerialInv'
  <2>1. UNCHANGED active /\ \A u \in Versions : status'[u] = "ACTIVE" => status[u] = "ACTIVE"
    BY <1>0, <1>4 DEF CreateVersion, TransitionToShadow, SuspendActive, TypeOK
  <2>2. Others(c) /\ (pc'[c] = "idle" \/ (pc'[c] = "gate" /\ pc[c] = "toShadow"))
    BY <1>0, <1>4, Stayed, Returned DEF CreateVersion, TransitionToShadow, SuspendActive, PCs
  <2>3. pc'[c] \in AtActivation => c \in Operators
    BY <2>2 DEF AtActivation, SerialInv
  <2> QED
    BY <2>1, <2>2, <2>3, SerialKept
<1>5. ASSUME NEW c \in Clients, ActivateVersion(c)
      PROVE  SerialInv'
  <2>1. /\ pc[c] = "activate" /\ active' = me[c].ver /\ me[c].other = active
        /\ status' = [v \in Versions |-> IF v = me[c].ver THEN "ACTIVE"
                                         ELSE IF v = me[c].other THEN "DEPRECATED" ELSE status[v]]
    BY <1>5 DEF ActivateVersion, SerialInv
  <2>2. Others(c) /\ pc'[c] = "idle"
    BY <1>0, <1>5, Returned DEF ActivateVersion
  <2>3. \A u \in Versions : status'[u] = "ACTIVE" => active' = u
    BY <2>1 DEF SerialInv
  <2>4. \A d \in Clients : pc'[d] \in AtActivation => d \in Operators
    BY <2>2 DEF Others, SerialInv, AtActivation
  <2>5. \A d \in Clients : pc'[d] # "activate"
    BY <2>1, <2>2 DEF Others, ActivationsApart
  <2> QED
    BY <2>3, <2>4, <2>5 DEF SerialInv
<1>6. ASSUME NEW c \in Clients, ReadPrevious(c)
      PROVE  SerialInv'
  <2>1. Others(c) /\ me'[c].other = active /\ pc[c] = "previous" /\ UNCHANGED <<skill, active, status>>
    BY <1>0, <1>6, NotedOther DEF ReadPrevious, PCs, asset
  <2>2. c \in Operators
    BY <2>1 DEF SerialInv, AtActivation
  <2> QED
    BY <2>1, <2>2, SerialKept
<1>7. ASSUME NEW c \in Clients,
             ListVersions(c) \/ MaybeSuspend(c) \/ ReadActive(c) \/ ShadowAnswer(c) \/ Abandon(c)
             \/ RecordShadowOutcome(c)
             \/ \E v \in Versions : ExecuteShadow(c, v) \/ ExecuteLive(c, v) \/ ApplySkillFeedback(c, v)
      PROVE  SerialInv'
  <2>1. UNCHANGED <<skill, active, status>>
    BY <1>7 DEF ListVersions, MaybeSuspend, ReadActive, ShadowAnswer, Abandon,
       RecordShadowOutcome, ExecuteShadow, ExecuteLive, ApplySkillFeedback, asset
  <2>2. pc' = [pc EXCEPT ![c] = pc'[c]] /\ pc'[c] \notin AtActivation
    BY <1>0, <1>7 DEF ListVersions, MaybeSuspend, ReadActive, ShadowAnswer, Abandon,
       RecordShadowOutcome, ExecuteShadow, ExecuteLive, ApplySkillFeedback, Take, Return, Goto,
       AtActivation, TypeOK
  <2>3. \A d \in Clients \ {c} : me'[d] = me[d]
    <3>1. \/ UNCHANGED me \/ \E l : me' = [me EXCEPT ![c] = l]
      BY <1>7 DEF ListVersions, MaybeSuspend, ReadActive, ShadowAnswer, Abandon,
         RecordShadowOutcome, ExecuteShadow, ExecuteLive, ApplySkillFeedback, Take, Return
    <3> QED
      BY <1>0, <3>1 DEF TypeOK
  <2>4. Others(c)
    BY <1>0, <2>2, <2>3 DEF Others, TypeOK
  <2> QED
    BY <2>1, <2>2, <2>4, SerialKept DEF AtActivation
<1>8. ASSUME NEW c \in Clients, NEW v \in Versions,
             MoveToShadow(c, v) \/ Activate(c, v) \/ PromoteABWinner(c, v)
      PROVE  SerialInv'
  <2>1. UNCHANGED <<skill, active, status>> /\ c \in Operators
    BY <1>8 DEF MoveToShadow, Activate, PromoteABWinner, asset
  <2>2. \/ Take(c, v, "gate") \/ Take(c, v, "toShadow")
        \/ Goto(c, "toShadow") /\ me' = [me EXCEPT ![c] = Request(v, NoKey, FALSE, "gate")]
    BY <1>8 DEF MoveToShadow, Activate, PromoteABWinner
  <2>3. "gate" \in PCs /\ "toShadow" \in PCs /\ NoKey \in Keys \cup {NoKey} /\ FALSE \in BOOLEAN
    BY DEF PCs
  <2>4. Others(c) /\ pc'[c] \in {"gate", "toShadow"}
    BY <1>0, <2>2, <2>3, Taken DEF Take
  <2> QED
    BY <2>1, <2>4, SerialKept
<1>9. ASSUME NEW c \in Clients, CheckGate(c)
      PROVE  SerialInv'
  <2>1. UNCHANGED <<skill, active, status>> /\ pc[c] = "gate"
    BY <1>9 DEF CheckGate, asset
  <2>2. Others(c) /\ pc'[c] \in {"previous", "idle"}
    BY <1>0, <1>9, Stayed, Returned DEF CheckGate, PCs
  <2>3. c \in Operators
    BY <2>1 DEF SerialInv, AtActivation
  <2> QED
    BY <2>1, <2>2, <2>3, SerialKept
<1>10. CASE Next
  BY <1>1, <1>2, <1>3, <1>4, <1>5, <1>6, <1>7, <1>8, <1>9, <1>10
     DEF Next, OperatorStep, ExecutorStep, ReporterStep
<1>11. CASE UNCHANGED vars
  BY <1>11 DEF vars, SerialInv
<1> QED
  BY <1>10, <1>11

\* For any number of requests: as long as no two activations overlap between their last read and
\* their write, a new active version always replaces the last (lifecycle.go:175), whatever else
\* moves, revises or suspends versions meanwhile.
THEOREM Replacing == Spec /\ []ActivationsApart => []OneActive
<1>1. Init => SerialInv
  BY DEF Init, SerialInv, AtActivation
<1>2. Inv /\ SerialInv /\ ActivationsApart /\ [Next]_vars => SerialInv'
  BY SerialNext
<1>3. SerialInv => OneActive
  BY DEF SerialInv, OneActive
<1> QED
  BY <1>1, <1>2, <1>3, Invariance, PTL DEF Spec

\* One operator is enough for that: with two at once there may be two active versions.
COROLLARY ReplacingByOne ==
  ASSUME \A a, b \in Operators : a = b
  PROVE  Spec => []OneActive
<1>1. Init => SerialInv
  BY DEF Init, SerialInv, AtActivation
<1>2. SerialInv => ActivationsApart
  BY DEF SerialInv, ActivationsApart, AtActivation
<1>3. Inv /\ SerialInv /\ [Next]_vars => SerialInv'
  BY <1>2, SerialNext
<1>4. SerialInv => OneActive
  BY DEF SerialInv, OneActive
<1> QED
  BY <1>1, <1>3, <1>4, Invariance, PTL DEF Spec
=============================================================================
