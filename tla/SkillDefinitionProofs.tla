------------------------ MODULE SkillDefinitionProofs ------------------------
(***************************************************************************)
(* Theorems of SkillDefinition, for any tools, catalogs, configurations,   *)
(* skills, inputs and offers: an execution is recovered as it was, its     *)
(* references resolve, what it does was vetted, and a skill that was       *)
(* chosen can run.                                                         *)
(*                                                                         *)
(* Part 1 is about the operators, part 2 states the invariant, part 3      *)
(* keeps its base, part 4 the bindings, part 5 the rest.                   *)
(***************************************************************************)
EXTENDS SkillDefinition, WellFoundedInduction, TLAPS

USE DEF server, version, exec, vars

-----------------------------------------------------------------------------
(***************************************************************************)
(* Part 1.  Operators.                                                     *)
(***************************************************************************)

LEMMA Smallest ==
  ASSUME NEW S, S \subseteq Nat, S # {}
  PROVE  \E n \in S : \A m \in S : n <= m
<1>1. IsWellFoundedOn(OpToRel(<, Nat), Nat)
  BY NatLessThanWellFounded
<1>2. PICK n \in S : \A m \in S : ~(<<m, n>> \in OpToRel(<, Nat))
  BY <1>1, WFMin
<1>3. \A m \in S : ~(m < n)
  BY <1>2 DEF OpToRel
<1> QED
  BY <1>3

LEMMA Largest ==
  ASSUME NEW S, NEW n \in Nat, S \subseteq 1..n, S # {}
  PROVE  \E k \in S : \A m \in S : m <= k
<1> DEFINE T == {n - m : m \in S}
<1>1. \A m \in S : m \in Nat /\ n - m \in Nat
  OBVIOUS
<1>2. T \subseteq Nat /\ T # {}
  BY <1>1
<1>3. PICK t \in T : \A u \in T : t <= u
  BY <1>2, Smallest
<1>4. PICK k \in S : t = n - k
  BY <1>3
<1>5. \A m \in S : t <= n - m
  BY <1>3
<1> QED
  BY <1>1, <1>4, <1>5

(* The levels and their order. *)
LEMMA LevelIs ==
  /\ Level = {"READ_ONLY", "LOW", "MEDIUM", "HIGH", "CRITICAL"}
  /\ Rank("READ_ONLY") = 1 /\ Rank("LOW") = 2 /\ Rank("MEDIUM") = 3 /\ Rank("HIGH") = 4
  /\ Rank("CRITICAL") = 5
<1>1. Len(Levels) = 5 /\ 1..5 = {1, 2, 3, 4, 5}
  BY DEF Levels
<1>2. /\ Levels[1] = "READ_ONLY" /\ Levels[2] = "LOW" /\ Levels[3] = "MEDIUM"
      /\ Levels[4] = "HIGH" /\ Levels[5] = "CRITICAL"
  BY DEF Levels
<1>3. Level = {"READ_ONLY", "LOW", "MEDIUM", "HIGH", "CRITICAL"}
  BY <1>1, <1>2 DEF Level
<1>4. \A n, m \in 1..5 : Levels[m] = Levels[n] <=> m = n
  BY <1>2
<1>5. \A n \in 1..5 : Rank(Levels[n]) = n
  BY <1>1, <1>4 DEF Rank
<1> QED
  BY <1>2, <1>3, <1>5

LEMMA RankIs == \A l \in Level : Rank(l) \in 1..5
BY LevelIs

(* Among some levels there is a greatest one. *)
LEMMA GreatestLevel ==
  ASSUME NEW S, S \subseteq Level, S # {}
  PROVE  \E r \in S : \A o \in S : Rank(o) <= Rank(r)
<1> DEFINE R == {Rank(l) : l \in S}
<1>1. R \subseteq 1..5 /\ R # {}
  BY RankIs
<1>2. PICK k \in R : \A m \in R : m <= k
  BY <1>1, Largest
<1> QED
  BY <1>2

(* What has been normalised. *)
Compiled == [steps : Seq(SkillStep) \ {<<>>}, maxSteps : Nat, risk : Level,
             requires : BOOLEAN, pre : {NoWhen} \cup Condition]

LEMMA NormalizeIs ==
  ASSUME NEW spec \in Specs
  PROVE  Normalize(spec) \in Compiled
<1>1. spec \in SkillSpec
  BY DefinitionAssumption
<1>2. DefaultMaxSteps \in Nat /\ "LOW" \in Level
  BY DefinitionAssumption, LevelIs
<1> QED
  BY <1>1, <1>2 DEF Normalize, SkillSpec, Compiled

LEMMA StepsAre ==
  ASSUME NEW spec \in Compiled
  PROVE  /\ Len(spec.steps) \in Nat /\ Len(spec.steps) > 0
         /\ \A i \in Steps(spec) : spec.steps[i] \in SkillStep
<1>1. spec.steps \in Seq(SkillStep) /\ spec.steps # <<>>
  BY DEF Compiled
<1> QED
  BY <1>1 DEF Steps

LEMMA ToolsAre ==
  ASSUME NEW spec \in Compiled
  PROVE  ToolsOf(spec) \subseteq Tools
BY StepsAre DEF ToolsOf, SkillStep

(* The computed risk is a level, and none of the registered tools is above it. *)
LEMMA ComputedRiskIs ==
  ASSUME NEW spec \in Compiled, catalog \in [Tools -> Definition \cup {NoTool}]
  PROVE  /\ ComputedRisk(spec) \in Level
         /\ \A t \in ToolsOf(spec) :
              Known(t) => Rank(catalog[t].risk) <= Rank(ComputedRisk(spec))
<1> DEFINE K == {u \in ToolsOf(spec) : Known(u)}
           risks == {"READ_ONLY"} \cup {catalog[t].risk : t \in K}
<1>1. \A t \in K : catalog[t].risk \in Level
  BY ToolsAre DEF Known, Definition
<1>2. risks \subseteq Level /\ risks # {}
  BY <1>1, LevelIs
<1>3. \E r \in risks : \A o \in risks : Rank(o) <= Rank(r)
  BY <1>2, GreatestLevel
<1>4. RiskOfTools(spec) = CHOOSE r \in risks : \A o \in risks : Rank(o) <= Rank(r)
  BY DEF RiskOfTools
<1>5. RiskOfTools(spec) \in risks /\ \A o \in risks : Rank(o) <= Rank(RiskOfTools(spec))
  BY <1>3, <1>4
<1>6. \A t \in ToolsOf(spec) : Known(t) => catalog[t].risk \in risks
  OBVIOUS
<1> HIDE DEF risks
<1>7. RiskOfTools(spec) \in Level /\ spec.risk \in Level
  BY <1>2, <1>5 DEF Compiled
<1>8. Rank(RiskOfTools(spec)) \in 1..5 /\ Rank(spec.risk) \in 1..5
  BY <1>7, RankIs
<1>9. \A t \in ToolsOf(spec) : Known(t) => /\ Rank(catalog[t].risk) \in 1..5
                                           /\ Rank(catalog[t].risk) <= Rank(RiskOfTools(spec))
  BY <1>2, <1>5, <1>6, RankIs
<1> QED
  BY <1>7, <1>8, <1>9 DEF ComputedRisk

(* Of the providers that list a tool one is the last. *)
LEMMA ListerIs ==
  ASSUME NEW s \in Setups, NEW t, Listing(s, t) # {}
  PROVE  Lister(s, t) \in Listing(s, t)
<1>1. Len(s) \in Nat /\ Listing(s, t) \subseteq 1..Len(s)
  BY DefinitionAssumption DEF Listing
<1>2. \E p \in Listing(s, t) : \A q \in Listing(s, t) : q <= p
  BY <1>1, Largest
<1> QED
  BY <1>2 DEF Lister

LEMMA RegisteredIs ==
  ASSUME NEW s \in Setups, NEW t \in Tools
  PROVE  /\ Registered(s, t) \in Definition \cup {NoTool}
         /\ Listing(s, t) # {} =>
              /\ Lister(s, t) \in 1..Len(s) /\ Registered(s, t) = s[Lister(s, t)].lists[t]
              /\ Registered(s, t) \in Definition
<1>1. CASE Listing(s, t) = {}
  BY <1>1, DefinitionAssumption DEF Registered
<1>2. CASE Listing(s, t) # {}
  <2>1. Lister(s, t) \in Listing(s, t)
    BY <1>2, ListerIs
  <2>2. Lister(s, t) \in 1..Len(s) /\ t \in DOMAIN s[Lister(s, t)].lists
    BY <2>1 DEF Listing
  <2>3. s[Lister(s, t)].lists[t] \in Definition
    BY <2>2, DefinitionAssumption
  <2> QED
    BY <1>2, <2>2, <2>3 DEF Registered
<1> QED
  BY <1>1, <1>2

-----------------------------------------------------------------------------
(***************************************************************************)
(* Part 2.  The invariant.                                                 *)
(***************************************************************************)

Skills == {NoSkill, [status |-> "FAILED"]} \cup
          [status : {"PASSED"}, spec : Compiled, risk : Level, requires : BOOLEAN]
Runs == {NoRun} \cup
        [mode : {"LIVE", "SHADOW"}, given : SUBSET Inputs, offer : Offers, approved : BOOLEAN,
         status : {"DENIED", "WAITING", "RUNNING", "FAILED", "SUCCEEDED"}]
Reasons == {"", "TEMPLATE_ERROR", "PREVIEW", "TOOL_FAILED"}
RowSet == [id : STRING, status : {"SKIPPED", "FAILED", "SHADOWED", "SUCCEEDED"}, why : Reasons,
           gave : [by : Nat, fields : SUBSET STRING]]

Types ==
  /\ up \in BOOLEAN /\ changed \in BOOLEAN /\ working \in BOOLEAN /\ chosen \in BOOLEAN
  /\ catalog \in [Tools -> Definition \cup {NoTool}]
  /\ skill \in Skills /\ run \in Runs
  /\ cursor \in Nat /\ rows \in Seq(RowSet)

(* The catalog and the routes of a process are those of its providers. *)
ServerInv ==
  up => /\ setup \in Setups
        /\ catalog = [t \in Tools |-> Registered(setup, t)]
        /\ routes = [t \in Tools |-> IF Listing(setup, t) = {} THEN NoProvider
                                     ELSE Lister(setup, t)]

(* A version that has passed is sound, and as long as the catalog is the   *)
(* one it was validated against its tools are known and within its risk.   *)
WithinRisk ==
  \A t \in ToolsOf(skill.spec) : Known(t) /\ Rank(catalog[t].risk) <= Rank(skill.risk)
SkillInv ==
  /\ skill.status = "PASSED" =>
       /\ NamesUnique(skill.spec) /\ RefsOK(skill.spec)
       /\ \A i \in Steps(skill.spec) : skill.spec.steps[i].save \notin Inputs
       /\ ~changed => WithinRisk
  /\ run # NoRun => skill.status = "PASSED"
  /\ run = NoRun => ~working /\ ~chosen /\ rows = <<>> /\ cursor = 0 /\ acted = {}

(* The rows are those of the first steps, in their order, and tell what    *)
(* they gave.                                                              *)
RowIs(i) ==
  /\ rows[i].id = skill.spec.steps[i].id
  /\ OkRow(rows[i]) => rows[i].gave.by = i
  /\ rows[i].status = "SUCCEEDED" /\ ~changed =>
       rows[i].gave.fields = catalog[skill.spec.steps[i].tool].outputs
RowsInv ==
  /\ run # NoRun => /\ Len(rows) <= Len(skill.spec.steps)
                    /\ \A i \in 1..Len(rows) : RowIs(i)
  /\ run.status = "RUNNING" => Len(rows) \in {cursor, Turn} /\ Turn <= Len(skill.spec.steps)
  /\ run.status = "WAITING" => rows = <<>> /\ cursor = 0
  /\ working => up /\ run.status = "RUNNING"

Base == Types /\ ServerInv /\ SkillInv /\ RowsInv

-----------------------------------------------------------------------------
(***************************************************************************)
(* Part 3.  The base.                                                      *)
(***************************************************************************)

(* What is known of a version that has passed. *)
LEMMA PassedIs ==
  ASSUME Types, skill.status = "PASSED"
  PROVE  /\ skill \in [status : {"PASSED"}, spec : Compiled, risk : Level, requires : BOOLEAN]
         /\ skill # NoSkill
         /\ skill.spec \in Compiled /\ skill.risk \in Level /\ skill.requires \in BOOLEAN
         /\ Len(skill.spec.steps) \in Nat /\ Len(skill.spec.steps) > 0
         /\ \A i \in Steps(skill.spec) : skill.spec.steps[i] \in SkillStep
<1>1. skill \in Skills
  BY DEF Types
<1>2. NoSkill.status # "PASSED" /\ [status |-> "FAILED"].status # "PASSED"
  BY DEF NoSkill
<1>3. skill \in [status : {"PASSED"}, spec : Compiled, risk : Level, requires : BOOLEAN]
  BY <1>1, <1>2 DEF Skills
<1>4. skill.spec \in Compiled
  BY <1>3
<1> QED
  BY <1>2, <1>3, <1>4, StepsAre

LEMMA RunIs ==
  ASSUME Types, run # NoRun
  PROVE  run \in [mode : {"LIVE", "SHADOW"}, given : SUBSET Inputs, offer : Offers,
                  approved : BOOLEAN,
                  status : {"DENIED", "WAITING", "RUNNING", "FAILED", "SUCCEEDED"}]
BY DEF Types, Runs

(* What is known of an execution that is running. *)
LEMMA RunningIs ==
  ASSUME Base, run.status = "RUNNING"
  PROVE  /\ run # NoRun /\ skill.status = "PASSED"
         /\ Turn \in Steps(skill.spec) /\ Step \in SkillStep
         /\ Len(rows) \in {cursor, Turn} /\ cursor \in Nat /\ rows \in Seq(RowSet)
         /\ NamesUnique(skill.spec)
<1>1. run # NoRun /\ skill.status = "PASSED"
  BY DEF Base, NoRun, SkillInv
<1>2. Turn \in Steps(skill.spec) /\ cursor \in Nat /\ Len(rows) \in {cursor, Turn}
  BY <1>1, PassedIs DEF Base, Types, RowsInv, Turn, Steps
<1>3. Step \in SkillStep
  BY <1>1, <1>2, PassedIs DEF Base, Step
<1> QED
  BY <1>1, <1>2, <1>3 DEF Base, Types, SkillInv

(* The provider that is asked has listed the tool as the catalog has it. *)
LEMMA ServedAsListed ==
  ASSUME Types, ServerInv, up, NEW t \in Tools, routes[t] # NoProvider
  PROVE  setup[routes[t]].lists[t] = catalog[t] /\ catalog[t] \in Definition
<1>1. Listing(setup, t) # {} /\ routes[t] = Lister(setup, t) /\ setup \in Setups
      /\ catalog[t] = Registered(setup, t)
  BY DEF ServerInv
<1> QED
  BY <1>1, RegisteredIs

(* A known tool has a provider, or is a built-in one. *)
LEMMA KnownIsServed ==
  ASSUME ServerInv, up, NEW t \in Tools, Known(t)
  PROVE  routes[t] # NoProvider \/ Default[t] # NoTool
<1>1. setup \in Setups /\ catalog[t] = Registered(setup, t)
      /\ routes[t] = IF Listing(setup, t) = {} THEN NoProvider ELSE Lister(setup, t)
  BY DEF ServerInv
<1>2. CASE Listing(setup, t) # {}
  BY <1>1, <1>2, RegisteredIs, DefinitionAssumption
<1>3. CASE Listing(setup, t) = {}
  BY <1>1, <1>3 DEF Registered, Known
<1> QED
  BY <1>2, <1>3

(* A step that is taken or skipped writes one row; what it gave is bound,  *)
(* or nothing changes, or the execution has failed.                        *)
WritesRow(row) ==
  /\ AtStep /\ row \in RowSet /\ row.id = Step.id
  /\ rows' = Append(rows, row)
  /\ UNCHANGED <<server, version, chosen, cursor>>
Binds(row) ==
  /\ OkRow(row) /\ row.gave.by = Turn /\ row.why = ""
  /\ row.status = "SUCCEEDED" => Routed /\ row.gave.fields = Contract.outputs
  /\ bindings' = IF Step.save = NoName THEN bindings
                 ELSE [n \in DOMAIN bindings \cup {Step.save} |->
                         IF n = Step.save THEN row.gave ELSE bindings[n]]
  /\ UNCHANGED <<run, working>>
FailsExecution ==
  run' = [run EXCEPT !.status = "FAILED"] /\ working' = FALSE /\ bindings' = Empty
BindsNot(row) ==
  /\ ~OkRow(row)
  /\ row.why = "TEMPLATE_ERROR" => Unresolved
  /\ UNCHANGED <<run, working, bindings>> \/ FailsExecution

TakesStep == Skip \/ Unresolved \/ Preview \/ CallFails \/ Call

LEMMA RowFields ==
  ASSUME Step \in SkillStep, NEW status \in {"SKIPPED", "FAILED", "SHADOWED", "SUCCEEDED"},
         NEW why \in Reasons, NEW by \in Nat, NEW fields \in SUBSET STRING,
         NEW row,
         row = [id |-> Step.id, status |-> status, why |-> why,
                gave |-> [by |-> by, fields |-> fields]]
  PROVE  /\ row \in RowSet /\ row.id = Step.id /\ row.status = status /\ row.why = why
         /\ row.gave = [by |-> by, fields |-> fields]
         /\ row.gave.by = by /\ row.gave.fields = fields
<1>1. Step.id \in STRING
  BY DEF SkillStep
<1>2. [by |-> by, fields |-> fields] \in [by : Nat, fields : SUBSET STRING]
  OBVIOUS
<1>4. row \in RowSet
  BY <1>1, <1>2 DEF RowSet
<1>5. row.gave = [by |-> by, fields |-> fields]
  OBVIOUS
<1>6. row.id = Step.id /\ row.status = status /\ row.why = why
  OBVIOUS
<1> QED
  BY <1>4, <1>5, <1>6

LEMMA FailIs ==
  ASSUME Base, AtStep, NEW why \in {"TEMPLATE_ERROR", "PREVIEW", "TOOL_FAILED"}, Fail(why),
         why = "TEMPLATE_ERROR" => Unresolved,
         UNCHANGED <<server, version, chosen, cursor>>
  PROVE  \E row : WritesRow(row) /\ BindsNot(row)
<1>0. PICK row : row = Row("FAILED", why, 0, {})
  OBVIOUS
<1>1. Step \in SkillStep
  BY RunningIs DEF AtStep, Running
<1>2. why \in Reasons
  BY DEF Reasons
<1>7. row = [id |-> Step.id, status |-> "FAILED", why |-> why,
             gave |-> [by |-> 0, fields |-> {}]]
  BY <1>0 DEF Row
<1>8. row \in RowSet /\ row.id = Step.id /\ row.status = "FAILED" /\ row.why = why
  BY <1>1, <1>2, <1>7, RowFields
<1>6. ~OkRow(row)
  BY <1>8 DEF OkRow
<1>3. WritesRow(row)
  BY <1>0, <1>8 DEF WritesRow, Fail, Write
<1>4. UNCHANGED <<run, working, bindings>> \/ FailsExecution
  BY DEF Fail, AfterFailure, FailsExecution
<1>5. BindsNot(row)
  BY <1>4, <1>6, <1>8 DEF BindsNot
<1> QED
  BY <1>3, <1>5

LEMMA SucceedIs ==
  ASSUME Base, AtStep, NEW status \in {"SHADOWED", "SUCCEEDED"}, NEW fields \in SUBSET STRING,
         Succeed(status, fields), status = "SUCCEEDED" => Routed /\ fields = Contract.outputs,
         UNCHANGED <<server, version, chosen, cursor>>
  PROVE  \E row : WritesRow(row) /\ Binds(row)
<1>0. PICK row : row = Row(status, "", Turn, fields)
  OBVIOUS
<1>1. Step \in SkillStep /\ Turn \in Nat
  BY RunningIs DEF AtStep, Running, Turn
<1>5. PICK none \in Reasons : none = ""
  BY DEF Reasons
<1>2. row = [id |-> Step.id, status |-> status, why |-> none,
             gave |-> [by |-> Turn, fields |-> fields]]
  BY <1>0, <1>5 DEF Row
<1>6. row \in RowSet /\ row.id = Step.id /\ row.status = status /\ row.why = none
  BY <1>1, <1>2, RowFields
<1>7. /\ row.gave = [by |-> Turn, fields |-> fields] /\ row.gave.by = Turn
      /\ row.gave.fields = fields
  BY <1>1, <1>2, <1>5, RowFields
<1>8. OkRow(row)
  BY <1>6 DEF OkRow
<1>3. WritesRow(row)
  BY <1>0, <1>6 DEF WritesRow, Succeed, Write
<1>4. Binds(row)
  BY <1>5, <1>6, <1>7, <1>8 DEF Binds, Succeed
<1> QED
  BY <1>3, <1>4

LEMMA StepWrites ==
  ASSUME Base, TakesStep
  PROVE  \E row : WritesRow(row) /\ (Binds(row) \/ BindsNot(row))
<1>1. CASE Skip
  <2>0. PICK row : row = Row("SKIPPED", "", 0, {})
    OBVIOUS
  <2>1. AtStep /\ rows' = Append(rows, row) /\ UNCHANGED <<server, version, run, chosen, working,
                                                           cursor, bindings>>
    BY <1>1, <2>0 DEF Skip, Write
  <2>2. Step \in SkillStep
    BY <2>1, RunningIs DEF AtStep, Running
  <2>5. PICK none \in Reasons : none = ""
    BY DEF Reasons
  <2>6. row = [id |-> Step.id, status |-> "SKIPPED", why |-> none,
               gave |-> [by |-> 0, fields |-> {}]]
    BY <2>0, <2>5 DEF Row
  <2>7. row \in RowSet /\ row.id = Step.id /\ row.status = "SKIPPED" /\ row.why = none
    BY <2>2, <2>6, RowFields
  <2>3. row \in RowSet /\ row.id = Step.id /\ ~OkRow(row) /\ row.why = ""
    BY <2>5, <2>7 DEF OkRow
  <2>4. WritesRow(row) /\ BindsNot(row)
    BY <2>1, <2>3 DEF WritesRow, BindsNot
  <2> QED
    BY <2>4
<1>2. CASE Unresolved
  <2>1. AtStep /\ Fail("TEMPLATE_ERROR") /\ UNCHANGED <<server, version, chosen, cursor>>
    BY <1>2 DEF Unresolved, Taken
  <2>2. \E row : WritesRow(row) /\ BindsNot(row)
    BY <1>2, <2>1, FailIs
  <2> QED
    BY <2>2
<1>3. CASE Preview
  <2>1. AtStep /\ UNCHANGED <<server, version, chosen, cursor>>
    BY <1>3 DEF Preview, Resolved, Taken
  <2>2. CASE Fail("PREVIEW")
    <3>1. \E row : WritesRow(row) /\ BindsNot(row)
      BY <2>1, <2>2, FailIs
    <3> QED
      BY <3>1
  <2>3. CASE Succeed("SHADOWED", {})
    <3>1. \E row : WritesRow(row) /\ Binds(row)
      BY <2>1, <2>3, SucceedIs
    <3> QED
      BY <3>1
  <2> QED
    BY <1>3, <2>2, <2>3 DEF Preview
<1>4. CASE CallFails
  <2>1. AtStep /\ Fail("TOOL_FAILED") /\ UNCHANGED <<server, version, chosen, cursor>>
    BY <1>4 DEF CallFails, Resolved, Taken
  <2>2. \E row : WritesRow(row) /\ BindsNot(row)
    BY <2>1, FailIs
  <2> QED
    BY <2>2
<1>5. CASE Call
  <2>1. /\ AtStep /\ Routed /\ Succeed("SUCCEEDED", Contract.outputs)
        /\ UNCHANGED <<server, version, chosen, cursor>>
    BY <1>5 DEF Call, Resolved, Taken
  <2>2. up /\ Step.tool \in Tools
    BY <2>1, RunningIs DEF AtStep, Running, Base, RowsInv, SkillStep
  <2>3. Contract \in Definition
    BY <2>1, <2>2, ServedAsListed DEF Base, Routed, Served, Contract
  <2>4. Contract.outputs \in SUBSET STRING
    BY <2>3 DEF Definition
  <2>5. \E row : WritesRow(row) /\ Binds(row)
    BY <2>1, <2>4, SucceedIs
  <2> QED
    BY <2>5
<1> QED
  BY <1>1, <1>2, <1>3, <1>4, <1>5 DEF TakesStep

(* A row is written at the place of its step. *)
LEMMA WritesAt ==
  ASSUME Base, NEW row, WritesRow(row)
  PROVE  /\ run # NoRun /\ run.status = "RUNNING" /\ working /\ up /\ skill.status = "PASSED"
         /\ Turn \in Steps(skill.spec) /\ Step \in SkillStep /\ cursor \in Nat
         /\ Len(rows) = cursor /\ Len(rows') = Turn /\ rows' \in Seq(RowSet)
         /\ rows'[Turn] = row /\ \A i \in 1..Len(rows) : rows'[i] = rows[i]
         /\ 1..Turn = 1..Len(rows) \cup {Turn} /\ Turn \notin 1..Len(rows)
         /\ row \in RowSet /\ row.id = Step.id
<1>1. run.status = "RUNNING" /\ working /\ ~(Len(rows) > cursor) /\ row \in RowSet
      /\ row.id = Step.id /\ rows' = Append(rows, row)
  BY DEF WritesRow, AtStep, Running, Written
<1>2. /\ run # NoRun /\ skill.status = "PASSED" /\ Turn \in Steps(skill.spec)
      /\ Step \in SkillStep /\ cursor \in Nat /\ Len(rows) \in {cursor, Turn}
      /\ rows \in Seq(RowSet)
  BY <1>1, RunningIs
<1>3. Len(rows) = cursor /\ Turn = cursor + 1
  BY <1>1, <1>2 DEF Turn
<1>4. /\ rows' \in Seq(RowSet) /\ Len(rows') = cursor + 1 /\ rows'[cursor + 1] = row
      /\ \A i \in 1..Len(rows) : rows'[i] = rows[i]
  BY <1>1, <1>2, <1>3
<1>5. up
  BY <1>1 DEF Base, RowsInv
<1> QED
  BY <1>1, <1>2, <1>3, <1>4, <1>5

LEMMA RunAfter ==
  ASSUME Base, NEW row, WritesRow(row), Binds(row) \/ BindsNot(row)
  PROVE  /\ run' \in Runs /\ run' # NoRun /\ working' \in BOOLEAN
         /\ run'.status \in {"RUNNING", "FAILED"} /\ (working' => run'.status = "RUNNING")
         /\ run'.mode = run.mode /\ run'.given = run.given /\ run'.offer = run.offer
         /\ run'.approved = run.approved
<1>1. run.status = "RUNNING" /\ working /\ run # NoRun
  BY WritesAt
<1>2. /\ run \in [mode : {"LIVE", "SHADOW"}, given : SUBSET Inputs, offer : Offers,
                  approved : BOOLEAN,
                  status : {"DENIED", "WAITING", "RUNNING", "FAILED", "SUCCEEDED"}]
      /\ NoRun.status = "NONE"
  BY <1>1, RunIs DEF Base, NoRun
<1>3. CASE UNCHANGED <<run, working>>
  BY <1>1, <1>2, <1>3 DEF Runs
<1>4. CASE FailsExecution
  <2>1. /\ run' \in [mode : {"LIVE", "SHADOW"}, given : SUBSET Inputs, offer : Offers,
                  approved : BOOLEAN,
                  status : {"DENIED", "WAITING", "RUNNING", "FAILED", "SUCCEEDED"}]
        /\ run'.status = "FAILED" /\ run'.mode = run.mode /\ run'.given = run.given
        /\ run'.offer = run.offer /\ run'.approved = run.approved /\ working' = FALSE
    BY <1>2, <1>4 DEF FailsExecution
  <2> QED
    BY <1>2, <2>1 DEF Runs
<1> QED
  BY <1>3, <1>4 DEF Binds, BindsNot

LEMMA WritesBase ==
  ASSUME Base, NEW row, WritesRow(row), Binds(row) \/ BindsNot(row)
  PROVE  Base'
<1>1. /\ run # NoRun /\ up /\ skill.status = "PASSED"
      /\ Turn \in Steps(skill.spec) /\ Step \in SkillStep /\ cursor \in Nat
      /\ Len(rows) = cursor /\ Len(rows') = Turn /\ rows' \in Seq(RowSet)
      /\ rows'[Turn] = row /\ \A i \in 1..Len(rows) : rows'[i] = rows[i]
      /\ 1..Turn = 1..Len(rows) \cup {Turn}
      /\ row \in RowSet /\ row.id = Step.id
  BY WritesAt
<1>2. /\ run' \in Runs /\ run' # NoRun /\ working' \in BOOLEAN
      /\ run'.status \in {"RUNNING", "FAILED"} /\ (working' => run'.status = "RUNNING")
  BY RunAfter
<1>3. UNCHANGED <<up, starts, setup, catalog, routes, skill, changed, chosen, cursor>>
  BY DEF WritesRow
<1>4. Types'
  BY <1>1, <1>2, <1>3 DEF Base, Types
<1>5. ServerInv'
  BY <1>3 DEF Base, ServerInv
<1>6. SkillInv'
  BY <1>1, <1>2, <1>3 DEF Base, SkillInv, WithinRisk, Known
<1>7. \A i \in 1..Len(rows) : RowIs(i)'
  BY <1>1, <1>3 DEF Base, RowsInv, RowIs, OkRow
<1>10. PICK t : t = Turn
  OBVIOUS
<1>8. RowIs(t)'
  <2>1. OkRow(row) => row.gave.by = Turn
    BY DEF Binds, BindsNot
  <2>2. row.status = "SUCCEEDED" => row.gave.fields = catalog[Step.tool].outputs
    <3>1. SUFFICES ASSUME row.status = "SUCCEEDED"
                   PROVE  row.gave.fields = catalog[Step.tool].outputs
      OBVIOUS
    <3>2. Routed /\ row.gave.fields = Contract.outputs
      BY <3>1 DEF Binds, BindsNot, OkRow
    <3>3. Contract = catalog[Step.tool]
      BY <1>1, <3>2, ServedAsListed DEF Base, Routed, Served, Contract, SkillStep
    <3> QED
      BY <3>2, <3>3
  <2>3. Turn' = Turn /\ Step = skill.spec.steps[Turn]
    BY <1>3 DEF Turn, Step
  <2>4. row.id = skill.spec.steps[t].id /\ rows'[t] = row /\ skill' = skill
        /\ catalog' = catalog
    BY <1>1, <1>3, <1>10, <2>3
  <2> QED
    BY <1>10, <2>1, <2>2, <2>3, <2>4 DEF RowIs, OkRow
<1>9. RowsInv'
  <2>1. \A i \in 1..t : RowIs(i)'
    BY <1>1, <1>7, <1>8, <1>10
  <2>2. Turn' = Turn /\ Turn <= Len(skill.spec.steps)
    BY <1>1, <1>3 DEF Turn, Steps
  <2> QED
    BY <1>1, <1>2, <1>3, <1>10, <2>1, <2>2 DEF RowsInv
<1> QED
  BY <1>4, <1>5, <1>6, <1>9 DEF Base

(* The rows of a step are the one at its place, if there is one.           *)
LEMMA RowsOfStep ==
  ASSUME Base, run # NoRun, NEW i \in Steps(skill.spec)
  PROVE  /\ RowsOf(skill.spec.steps[i].id) # {} <=> i <= Len(rows)
         /\ i <= Len(rows) => LastRow(skill.spec.steps[i].id) = rows[i]
<1>1. /\ skill.status = "PASSED" /\ NamesUnique(skill.spec) /\ Len(rows) \in Nat
      /\ Len(skill.spec.steps) \in Nat /\ Len(rows) <= Len(skill.spec.steps)
      /\ \A r \in 1..Len(rows) : rows[r].id = skill.spec.steps[r].id
  BY PassedIs DEF Base, SkillInv, Types, RowsInv, RowIs
<1>2. 1..Len(rows) \subseteq Steps(skill.spec) /\ i \in Nat /\ i >= 1
  BY <1>1 DEF Steps
<1>3. \A r \in 1..Len(rows) : rows[r].id = skill.spec.steps[i].id <=> r = i
  BY <1>1, <1>2 DEF NamesUnique
<1> DEFINE id == skill.spec.steps[i].id
<1>4. RowsOf(id) = {r \in 1..Len(rows) : r = i}
  BY <1>3 DEF RowsOf
<1>5. i <= Len(rows) => RowsOf(id) = {i}
  BY <1>1, <1>2, <1>4
<1>6. i <= Len(rows) => (CHOOSE r \in RowsOf(id) : \A o \in RowsOf(id) : o <= r) = i
  BY <1>2, <1>5
<1> HIDE DEF id
<1>7. i <= Len(rows) => LastRow(id) = rows[i]
  BY <1>6 DEF LastRow
<1> QED
  BY <1>1, <1>2, <1>4, <1>7 DEF id

LEMMA StartBase ==
  ASSUME Base, NEW s \in Setups, Start(s)
  PROVE  Base'
<1>1. /\ ~up /\ up' = TRUE /\ setup' = s /\ UNCHANGED <<skill, exec, acted>>
      /\ catalog' = [t \in Tools |-> Registered(s, t)]
      /\ routes' = [t \in Tools |-> IF Listing(s, t) = {} THEN NoProvider ELSE Lister(s, t)]
      /\ changed' = (changed \/ (skill # NoSkill /\ catalog' # catalog))
  BY DEF Start
<1>2. catalog' \in [Tools -> Definition \cup {NoTool}]
  BY <1>1, RegisteredIs
<1>3. Types'
  BY <1>1, <1>2 DEF Base, Types
<1>4. ServerInv'
  BY <1>1 DEF ServerInv
<1>5. skill.status = "PASSED" /\ ~changed' => ~changed /\ catalog' = catalog
  BY <1>1, PassedIs DEF Base, Types
<1>6. SkillInv'
  BY <1>1, <1>5 DEF Base, SkillInv, WithinRisk, Known
<1>7. ~working
  BY <1>1 DEF Base, RowsInv
<1>8. run # NoRun => \A i \in 1..Len(rows) : RowIs(i)'
  BY <1>1, <1>5 DEF Base, RowsInv, RowIs, OkRow, SkillInv
<1>9. Turn' = Turn
  BY <1>1 DEF Turn
<1>10. RowsInv'
  BY <1>1, <1>7, <1>8, <1>9 DEF Base, RowsInv
<1> QED
  BY <1>3, <1>4, <1>6, <1>10 DEF Base

(* A report that passes vouches for the names, the references and the risk. *)
LEMMA ValidatedIs ==
  ASSUME catalog \in [Tools -> Definition \cup {NoTool}], NEW spec \in Specs,
         NEW s, s = Validated(Normalize(spec))
  PROVE  /\ s \in Skills
         /\ s.status = "PASSED" =>
              /\ NamesUnique(s.spec) /\ RefsOK(s.spec)
              /\ \A i \in Steps(s.spec) : s.spec.steps[i].save \notin Inputs
              /\ \A t \in ToolsOf(s.spec) :
                   Known(t) /\ Rank(catalog[t].risk) <= Rank(s.risk)
<1>1. PICK n : n = Normalize(spec)
  OBVIOUS
<1>2. n \in Compiled
  BY <1>1, NormalizeIs
<1>3. ComputedRisk(n) \in Level
      /\ \A t \in ToolsOf(n) : Known(t) => Rank(catalog[t].risk) <= Rank(ComputedRisk(n))
  BY <1>2, ComputedRiskIs
<1>4. CASE Valid(n)
  <2>1. s = [status |-> "PASSED", spec |-> n, risk |-> ComputedRisk(n),
             requires |-> RequiresApproval(n)]
    BY <1>1, <1>4 DEF Validated
  <2>2. RequiresApproval(n) \in BOOLEAN
    BY <1>2 DEF RequiresApproval, Compiled
  <2>3. s \in Skills
    BY <1>2, <1>3, <2>1, <2>2 DEF Skills
  <2>4. NamesUnique(n) /\ RefsOK(n) /\ \A i \in Steps(n) : n.steps[i].save \notin Inputs
    BY <1>4 DEF Valid, SchemaOK
  <2>5. \A t \in ToolsOf(n) : Known(t)
    BY <1>4 DEF Valid, ToolsOK, ToolsOf
  <2>6. s.spec = n /\ s.risk = ComputedRisk(n)
    BY <2>1
  <2> QED
    BY <1>3, <2>3, <2>4, <2>5, <2>6
<1>5. CASE ~Valid(n)
  <2>1. s = [status |-> "FAILED"]
    BY <1>1, <1>5 DEF Validated
  <2> QED
    BY <2>1 DEF Skills
<1> QED
  BY <1>4, <1>5

LEMMA CompileBase ==
  ASSUME Base, NEW spec \in Specs, Compile(spec)
  PROVE  Base'
<1>1. /\ skill = NoSkill /\ skill' = Validated(Normalize(spec))
      /\ UNCHANGED <<server, changed, exec, acted>>
  BY DEF Compile
<1>2. run = NoRun
  BY <1>1 DEF Base, SkillInv, NoSkill
<1>3. PICK s : s = Validated(Normalize(spec))
  OBVIOUS
<1>4. /\ s \in Skills
      /\ s.status = "PASSED" =>
              /\ NamesUnique(s.spec) /\ RefsOK(s.spec)
              /\ \A i \in Steps(s.spec) : s.spec.steps[i].save \notin Inputs
              /\ \A t \in ToolsOf(s.spec) :
                   Known(t) /\ Rank(catalog[t].risk) <= Rank(s.risk)
  BY <1>3, ValidatedIs DEF Base, Types
<1>5. skill' = s
  BY <1>1, <1>3
<1>6. Types'
  BY <1>1, <1>4, <1>5 DEF Base, Types
<1>7. SkillInv'
  BY <1>1, <1>2, <1>4, <1>5 DEF Base, SkillInv, WithinRisk, Known
<1>8. ServerInv' /\ RowsInv'
  BY <1>1, <1>2 DEF Base, ServerInv, RowsInv, NoRun
<1> QED
  BY <1>6, <1>7, <1>8 DEF Base

(* Where nothing but the execution moves, and its rows stay.               *)
LEMMA MovesBase ==
  ASSUME Base, run # NoRun, run' \in Runs, run' # NoRun,
         UNCHANGED <<server, version, rows>>, chosen' \in BOOLEAN, cursor' \in Nat,
         working' \in BOOLEAN, working' => up /\ run'.status = "RUNNING",
         run'.status # "WAITING",
         run'.status = "RUNNING" =>
           Len(rows) \in {cursor', cursor' + 1} /\ cursor' + 1 <= Len(skill.spec.steps)
  PROVE  Base'
<1>1. Types'
  BY DEF Base, Types
<1>2. ServerInv'
  BY DEF Base, ServerInv
<1>3. SkillInv'
  BY DEF Base, SkillInv, WithinRisk, Known
<1>4. \A i \in 1..Len(rows) : RowIs(i)'
  BY DEF Base, RowsInv, RowIs, OkRow
<1>5. RowsInv'
  BY <1>4 DEF Base, RowsInv, Turn
<1> QED
  BY <1>1, <1>2, <1>3, <1>5 DEF Base

(* What a failure, an end or an approval does to the execution.            *)
LEMMA RunUpdate ==
  ASSUME Types, run # NoRun, NEW r,
         NEW status \in {"DENIED", "WAITING", "RUNNING", "FAILED", "SUCCEEDED"},
         r = [run EXCEPT !.status = status]
  PROVE  /\ r \in Runs /\ r # NoRun /\ r.status = status
         /\ r.mode = run.mode /\ r.given = run.given /\ r.offer = run.offer
         /\ r.approved = run.approved
<1>1. run \in [mode : {"LIVE", "SHADOW"}, given : SUBSET Inputs, offer : Offers,
               approved : BOOLEAN,
               status : {"DENIED", "WAITING", "RUNNING", "FAILED", "SUCCEEDED"}]
  BY RunIs
<1>2. r \in [mode : {"LIVE", "SHADOW"}, given : SUBSET Inputs, offer : Offers,
             approved : BOOLEAN,
             status : {"DENIED", "WAITING", "RUNNING", "FAILED", "SUCCEEDED"}]
      /\ r.status = status /\ r.mode = run.mode /\ r.given = run.given
      /\ r.offer = run.offer /\ r.approved = run.approved
  BY <1>1
<1> QED
  BY <1>2 DEF Runs, NoRun

LEMMA RunApproved ==
  ASSUME Types, run # NoRun, NEW r, NEW offer \in Offers,
         NEW status \in {"DENIED", "WAITING", "RUNNING", "FAILED", "SUCCEEDED"},
         r = [run EXCEPT !.approved = TRUE, !.offer = offer, !.status = status]
  PROVE  /\ r \in Runs /\ r # NoRun /\ r.status = status /\ r.approved
         /\ r.mode = run.mode /\ r.given = run.given
<1>1. run \in [mode : {"LIVE", "SHADOW"}, given : SUBSET Inputs, offer : Offers,
               approved : BOOLEAN,
               status : {"DENIED", "WAITING", "RUNNING", "FAILED", "SUCCEEDED"}]
  BY RunIs
<1>2. r \in [mode : {"LIVE", "SHADOW"}, given : SUBSET Inputs, offer : Offers,
             approved : BOOLEAN,
             status : {"DENIED", "WAITING", "RUNNING", "FAILED", "SUCCEEDED"}]
      /\ r.status = status /\ r.approved /\ r.mode = run.mode /\ r.given = run.given
  BY <1>1
<1> QED
  BY <1>2 DEF Runs, NoRun

LEMMA ExecuteBase ==
  ASSUME Base, NEW mode \in {"LIVE", "SHADOW"}, NEW given \in SUBSET Inputs,
         NEW offer \in Offers, NEW asked \in BOOLEAN, Execute(mode, given, offer, asked)
  PROVE  Base'
<1>1. /\ up /\ run = NoRun /\ skill.status = "PASSED" /\ chosen' = asked
      /\ UNCHANGED <<server, version, cursor, rows, acted>>
      /\ working' = (run'.status = "RUNNING")
      /\ run' = [mode |-> mode, given |-> given, offer |-> offer, approved |-> FALSE,
                 status |-> IF Denied(mode, offer) THEN "DENIED"
                            ELSE IF Held(mode) THEN "WAITING" ELSE "RUNNING"]
  BY DEF Execute
<1>2. PICK status \in {"DENIED", "WAITING", "RUNNING"} :
        run' = [mode |-> mode, given |-> given, offer |-> offer, approved |-> FALSE,
                status |-> status]
  BY <1>1
<1>3. run' \in Runs /\ run' # NoRun /\ run'.status = status
  BY <1>2 DEF Runs, NoRun
<1>4. rows = <<>> /\ cursor = 0 /\ Len(skill.spec.steps) \in Nat /\ Len(skill.spec.steps) > 0
  BY <1>1, PassedIs DEF Base, SkillInv
<1>5. Types'
  BY <1>1, <1>3 DEF Base, Types
<1>6. ServerInv' /\ SkillInv'
  BY <1>1, <1>3 DEF Base, ServerInv, SkillInv, WithinRisk, Known
<1>7. Len(rows) = 0
  BY <1>4
<1>9. Len(rows') = 0 /\ cursor' = 0 /\ Turn' = 1 /\ 1..Len(rows') = {}
      /\ skill' = skill /\ up' = up /\ rows' = <<>>
  BY <1>1, <1>4, <1>7 DEF Turn
<1>10. working' \in BOOLEAN /\ (working' => run'.status = "RUNNING") /\ up
  BY <1>1
<1>11. run'.status = "RUNNING" =>
         Len(rows') \in {cursor', Turn'} /\ Turn' <= Len(skill'.spec.steps)
  BY <1>4, <1>9
<1>12. Len(rows') <= Len(skill'.spec.steps) /\ \A i \in 1..Len(rows') : RowIs(i)'
  BY <1>4, <1>9
<1>8. RowsInv'
  BY <1>9, <1>10, <1>11, <1>12 DEF RowsInv
<1> QED
  BY <1>5, <1>6, <1>8 DEF Base

LEMMA ResumeBase ==
  ASSUME Base, NEW offer \in Offers, Resume(offer)
  PROVE  Base'
<1>1. /\ up /\ run.status = "WAITING" /\ UNCHANGED <<server, version, chosen, cursor, rows>>
      /\ working' = (run'.status = "RUNNING")
      /\ run' = [run EXCEPT !.approved = TRUE, !.offer = offer,
                            !.status = IF Denied(run.mode, offer) THEN "DENIED" ELSE "RUNNING"]
  BY DEF Resume
<1>2. PICK status \in {"DENIED", "RUNNING"} :
        run' = [run EXCEPT !.approved = TRUE, !.offer = offer, !.status = status]
  BY <1>1
<1>3. run # NoRun /\ rows = <<>> /\ cursor = 0 /\ skill.status = "PASSED"
  BY <1>1 DEF Base, RowsInv, NoRun, SkillInv
<1>4. Len(rows) = 0 /\ Len(skill.spec.steps) \in Nat /\ Len(skill.spec.steps) > 0
  BY <1>3, PassedIs DEF Base
<1>5. run' \in Runs /\ run' # NoRun /\ run'.status = status
  BY <1>2, <1>3, RunApproved DEF Base
<1>6. working' \in BOOLEAN /\ (working' => run'.status = "RUNNING") /\ up
  BY <1>1
<1>7. cursor' = 0 /\ UNCHANGED <<server, version, rows>> /\ chosen' \in BOOLEAN
  BY <1>1, <1>3 DEF Base, Types
<1> QED
  BY <1>3, <1>4, <1>5, <1>6, <1>7, MovesBase

LEMMA UnmetBase ==
  ASSUME Base, Unmet
  PROVE  Base'
<1>1. /\ run.status = "RUNNING" /\ UNCHANGED <<server, version, chosen, cursor, rows>>
      /\ run' = [run EXCEPT !.status = "FAILED"] /\ working' = FALSE
  BY DEF Unmet, Running
<1>2. run # NoRun
  BY <1>1, RunningIs
<1>3. PICK status \in {"FAILED"} : run' = [run EXCEPT !.status = status]
  BY <1>1
<1>4. run' \in Runs /\ run' # NoRun /\ run'.status = status
  BY <1>2, <1>3, RunUpdate DEF Base
<1> QED
  BY <1>1, <1>2, <1>4, MovesBase DEF Base, Types

LEMMA AdvanceBase ==
  ASSUME Base, Advance
  PROVE  Base'
<1>1. /\ run.status = "RUNNING" /\ working /\ Len(rows) > cursor /\ cursor' = Turn
      /\ UNCHANGED <<server, version, chosen, rows>>
  BY DEF Advance, Running, Written
<1>2. /\ run # NoRun /\ Turn \in Steps(skill.spec) /\ cursor \in Nat
      /\ Len(rows) \in {cursor, Turn} /\ skill.status = "PASSED"
  BY <1>1, RunningIs
<1>3. Len(rows) = Turn /\ Turn \in Nat /\ Len(skill.spec.steps) \in Nat
  BY <1>1, <1>2, PassedIs DEF Base, Steps
<1>4. up
  BY <1>1 DEF Base, RowsInv
<1>5. CASE Turn = Len(skill.spec.steps)
  <2>1. run' = [run EXCEPT !.status = "SUCCEEDED"] /\ working' = FALSE
    BY <1>5 DEF Advance
  <2>2. PICK status \in {"SUCCEEDED"} : run' = [run EXCEPT !.status = status]
    BY <2>1
  <2>3. run' \in Runs /\ run' # NoRun /\ run'.status = status
    BY <1>2, <2>2, RunUpdate DEF Base
  <2> QED
    BY <1>1, <1>2, <1>3, <2>1, <2>3, MovesBase DEF Base, Types
<1>6. CASE Turn # Len(skill.spec.steps)
  <2>1. run' = run /\ working' = working
    BY <1>6 DEF Advance
  <2>2. cursor' + 1 <= Len(skill.spec.steps) /\ Len(rows) = cursor'
    BY <1>1, <1>2, <1>3, <1>6 DEF Steps
  <2>3. run \in Runs /\ working \in BOOLEAN /\ chosen \in BOOLEAN
    BY DEF Base, Types
  <2> QED
    BY <1>1, <1>2, <1>3, <1>4, <2>1, <2>2, <2>3, MovesBase
<1> QED
  BY <1>5, <1>6

(* A recovery fails the execution, ends it, or takes it up where its rows  *)
(* end.                                                                    *)
RecoversTo(past) ==
  /\ up /\ ~working /\ run.status = "RUNNING"
  /\ past = Len(rows) /\ cursor' = past /\ past < Len(skill.spec.steps)
  /\ run' = run /\ working' = TRUE /\ bindings' = Rebuilt(skill.spec, past)
EndsIt ==
  \E status \in {"FAILED", "SUCCEEDED"} :
    /\ run.status = "RUNNING"
    /\ run' = [run EXCEPT !.status = status] /\ working' = FALSE /\ cursor' \in Nat

LEMMA RecoverIs ==
  ASSUME Base, Recover
  PROVE  /\ EndsIt \/ \E past \in Nat : RecoversTo(past)
         /\ UNCHANGED <<server, version, chosen, rows, acted>>
<1>1. /\ up /\ ~working /\ run.status = "RUNNING"
      /\ UNCHANGED <<server, version, chosen, rows, acted>>
  BY DEF Recover
<1>2. /\ run # NoRun /\ Turn \in Steps(skill.spec) /\ cursor \in Nat /\ working \in BOOLEAN
      /\ Len(rows) \in {cursor, Turn} /\ skill.status = "PASSED"
  BY <1>1, RunningIs DEF Base, Types
<1>3. Turn = cursor + 1 /\ Len(skill.spec.steps) \in Nat /\ Turn <= Len(skill.spec.steps)
  BY <1>2, PassedIs DEF Base, Steps, Turn
<1>4. RowsOf(Step.id) # {} <=> Turn <= Len(rows)
  BY <1>2, RowsOfStep DEF Step
<1>5. PICK past : past = IF RowsOf(Step.id) # {} THEN Turn ELSE cursor
  OBVIOUS
<1>6. past = Len(rows) /\ past \in Nat
  BY <1>2, <1>3, <1>4, <1>5
<1> SUFFICES EndsIt \/ \E p \in Nat : RecoversTo(p)
  BY <1>1
<1>7. CASE RowsOf(Step.id) # {} /\ LastRow(Step.id).status = "FAILED" /\ ~Step.continue
  BY <1>1, <1>2, <1>7 DEF Recover, EndsIt
<1>8. CASE ~(RowsOf(Step.id) # {} /\ LastRow(Step.id).status = "FAILED" /\ ~Step.continue)
  <2>1. /\ cursor' = past
        /\ run' = IF past = Len(skill.spec.steps) THEN [run EXCEPT !.status = "SUCCEEDED"]
                  ELSE run
        /\ working' = (past # Len(skill.spec.steps))
        /\ past # Len(skill.spec.steps) => bindings' = Rebuilt(skill.spec, past)
    BY <1>5, <1>8 DEF Recover
  <2>2. CASE past = Len(skill.spec.steps)
    <3>1. working' = FALSE /\ cursor' \in Nat /\ run' = [run EXCEPT !.status = "SUCCEEDED"]
      BY <1>6, <2>1, <2>2
    <3> QED
      BY <1>1, <3>1 DEF EndsIt
  <2>3. CASE past # Len(skill.spec.steps)
    <3>1. past < Len(skill.spec.steps)
      BY <1>2, <1>3, <1>6, <2>3
    <3>2. RecoversTo(past)
      BY <1>1, <1>6, <2>1, <2>3, <3>1 DEF RecoversTo
    <3> QED
      BY <1>6, <3>2
  <2> QED
    BY <2>2, <2>3
<1> QED
  BY <1>1, <1>7, <1>8

LEMMA RecoverBase ==
  ASSUME Base, Recover
  PROVE  Base'
<1>1. UNCHANGED <<server, version, chosen, rows>> /\ chosen \in BOOLEAN
  BY RecoverIs DEF Base, Types
<1>2. CASE EndsIt
  <2>1. PICK status \in {"FAILED", "SUCCEEDED"} :
          /\ run.status = "RUNNING"
          /\ run' = [run EXCEPT !.status = status] /\ working' = FALSE /\ cursor' \in Nat
    BY <1>2 DEF EndsIt
  <2>2. run # NoRun
    BY <2>1, RunningIs
  <2>3. run' \in Runs /\ run' # NoRun /\ run'.status = status
    BY <2>1, <2>2, RunUpdate DEF Base
  <2> QED
    BY <1>1, <2>1, <2>2, <2>3, MovesBase
<1>3. CASE \E past \in Nat : RecoversTo(past)
  <2>1. PICK past \in Nat : RecoversTo(past)
    BY <1>3
  <2>2. /\ up /\ run.status = "RUNNING" /\ past = Len(rows) /\ cursor' = past
        /\ past < Len(skill.spec.steps) /\ run' = run /\ working' = TRUE
    BY <2>1 DEF RecoversTo
  <2>3. run # NoRun /\ run \in Runs /\ Len(skill.spec.steps) \in Nat
    BY <2>2, RunningIs, PassedIs DEF Base, Types
  <2> QED
    BY <1>1, <2>2, <2>3, MovesBase
<1> QED
  BY <1>2, <1>3, RecoverIs

LEMMA StopBase ==
  ASSUME Base, Stop
  PROVE  Base'
<1>1. /\ up' = FALSE /\ working' = FALSE
      /\ UNCHANGED <<starts, setup, catalog, routes, version, run, chosen, cursor, rows, acted>>
  BY DEF Stop
<1>2. Types'
  BY <1>1 DEF Base, Types
<1>3. ServerInv'
  BY <1>1 DEF Base, ServerInv
<1>4. SkillInv'
  BY <1>1 DEF Base, SkillInv, WithinRisk, Known
<1>5. run # NoRun => \A i \in 1..Len(rows) : RowIs(i)'
  BY <1>1 DEF Base, RowsInv, RowIs, OkRow
<1>6. RowsInv'
  BY <1>1, <1>5 DEF Base, RowsInv, Turn
<1> QED
  BY <1>2, <1>3, <1>4, <1>6 DEF Base

LEMMA SameBase ==
  ASSUME Base, UNCHANGED <<up, setup, catalog, routes, version, exec, acted>>
  PROVE  Base'
<1>1. Types'
  BY DEF Base, Types
<1>2. ServerInv'
  BY DEF Base, ServerInv
<1>3. SkillInv'
  BY DEF Base, SkillInv, WithinRisk, Known
<1>4. run # NoRun => \A i \in 1..Len(rows) : RowIs(i)'
  BY DEF Base, RowsInv, RowIs, OkRow
<1>5. RowsInv'
  BY <1>4 DEF Base, RowsInv, Turn
<1> QED
  BY <1>1, <1>2, <1>3, <1>5 DEF Base

LEMMA BaseInit == Init => Base
<1> SUFFICES ASSUME Init PROVE Base
  OBVIOUS
<1>4. catalog \in [Tools -> Definition \cup {NoTool}]
  BY DefinitionAssumption DEF Init
<1>5. skill \in Skills /\ run \in Runs
  BY DEF Init, Skills, Runs
<1>6. rows \in Seq(RowSet) /\ cursor \in Nat
  BY DEF Init
<1>7. up \in BOOLEAN /\ changed \in BOOLEAN /\ working \in BOOLEAN /\ chosen \in BOOLEAN
  BY DEF Init
<1>1. Types
  BY <1>4, <1>5, <1>6, <1>7 DEF Types
<1>2. ServerInv /\ SkillInv
  BY DEF Init, ServerInv, SkillInv, NoSkill
<1>3. RowsInv
  BY DEF Init, RowsInv, NoRun
<1> QED
  BY <1>1, <1>2, <1>3 DEF Base

LEMMA BaseNext == Base /\ [Next]_vars => Base'
<1> SUFFICES ASSUME Base, [Next]_vars PROVE Base'
  OBVIOUS
<1>1. CASE UNCHANGED vars
  BY <1>1, SameBase
<1>2. ASSUME NEW s \in Setups, Start(s) PROVE Base'
  BY <1>2, StartBase
<1>3. ASSUME NEW s \in Setups, Refuse(s) PROVE Base'
  BY <1>3, SameBase DEF Refuse
<1>4. CASE Stop
  BY <1>4, StopBase
<1>5. ASSUME NEW spec \in Specs, Compile(spec) PROVE Base'
  BY <1>5, CompileBase
<1>6. ASSUME NEW mode \in {"LIVE", "SHADOW"}, NEW given \in SUBSET Inputs, NEW offer \in Offers,
             NEW asked \in BOOLEAN, Execute(mode, given, offer, asked)
      PROVE  Base'
  BY <1>6, ExecuteBase
<1>7. ASSUME NEW offer \in Offers, Resume(offer) PROVE Base'
  BY <1>7, ResumeBase
<1>8. CASE Unmet
  BY <1>8, UnmetBase
<1>9. CASE TakesStep
  BY <1>9, StepWrites, WritesBase
<1>10. CASE Advance
  BY <1>10, AdvanceBase
<1>11. CASE Recover
  BY <1>11, RecoverBase
<1> QED
  BY <1>1, <1>2, <1>3, <1>4, <1>5, <1>6, <1>7, <1>8, <1>9, <1>10, <1>11 DEF Next, TakesStep

LEMMA BaseAlways == Spec => []Base
BY BaseInit, BaseNext, PTL DEF Spec

-----------------------------------------------------------------------------
(***************************************************************************)
(* Part 4.  The bindings.                                                  *)
(***************************************************************************)

(* The names of a handler are bound to what the rows gave, and otherwise   *)
(* as at the start.                                                        *)
Saving == {i \in 1..Len(rows) : OkRow(rows[i]) /\ skill.spec.steps[i].save # NoName}
BoundTo(b) ==
  /\ DOMAIN b = DOMAIN Bound(run.given) \cup {skill.spec.steps[i].save : i \in Saving}
  /\ \A i \in Saving : b[skill.spec.steps[i].save] = rows[i].gave
  /\ \A n \in DOMAIN Bound(run.given) :
       (\A i \in Saving : skill.spec.steps[i].save # n) => b[n] = Bound(run.given)[n]
BindingsInv == Running => BoundTo(bindings)

(* No two steps that save share a name.                                    *)
LEMMA SaversDiffer ==
  ASSUME Base, run # NoRun, NEW i \in Steps(skill.spec), NEW j \in Steps(skill.spec),
         skill.spec.steps[i].save # NoName, skill.spec.steps[i].save = skill.spec.steps[j].save
  PROVE  i = j
BY DEF Base, SkillInv, NamesUnique

LEMMA RowsAreSteps ==
  ASSUME Base, run # NoRun
  PROVE  1..Len(rows) \subseteq Steps(skill.spec) /\ Len(rows) \in Nat
<1>1. Len(rows) \in Nat /\ Len(rows) <= Len(skill.spec.steps) /\ skill.status = "PASSED"
  BY DEF Base, Types, RowsInv, SkillInv
<1>2. Len(skill.spec.steps) \in Nat
  BY <1>1, PassedIs DEF Base
<1> QED
  BY <1>1, <1>2 DEF Steps


(* What a recovery binds anew is what the interrupted handler had bound.   *)
LEMMA RebuiltIs ==
  ASSUME Base, run # NoRun, NEW past \in Nat, past = Len(rows)
  PROVE  BoundTo(Rebuilt(skill.spec, past))
<1> DEFINE spec == skill.spec
           I == IF past > 0 /\ rows # <<>> THEN Restored(spec) ELSE {}
           saved == {spec.steps[i].save : i \in I}
           start == Bound(run.given)
           b == Rebuilt(spec, past)
<1>1. 1..Len(rows) \subseteq Steps(spec) /\ Len(rows) \in Nat
  BY RowsAreSteps
<1>2. \A i \in Steps(spec) : /\ RowsOf(spec.steps[i].id) # {} <=> i <= Len(rows)
                             /\ i <= Len(rows) => LastRow(spec.steps[i].id) = rows[i]
  BY RowsOfStep
<1>3. \A i \in Steps(spec) : i <= Len(rows) <=> i \in 1..Len(rows)
  BY <1>1 DEF Steps
<1>4. Restored(spec) = Saving
  BY <1>1, <1>2, <1>3 DEF Restored, Saving
<1>5. ~(past > 0 /\ rows # <<>>) => Saving = {}
  <2>1. SUFFICES ASSUME ~(past > 0 /\ rows # <<>>) PROVE 1..Len(rows) = {}
    BY DEF Saving
  <2>2. Len(rows) = 0
    BY <1>1, <2>1
  <2> QED
    BY <2>2
<1>6. I = Saving
  BY <1>4, <1>5
<1>7. b = [n \in DOMAIN start \cup saved |->
             IF n \in saved THEN LastRow(spec.steps[Saver(spec, I, n)].id).gave ELSE start[n]]
  BY DEF Rebuilt
<1> HIDE DEF I, b
<1>8. ASSUME NEW i \in I
      PROVE  LastRow(spec.steps[Saver(spec, I, spec.steps[i].save)].id).gave = rows[i].gave
  <2>1. \A j \in I : spec.steps[j].save = spec.steps[i].save => j = i
    BY <1>1, <1>6, SaversDiffer DEF Saving
  <2>2. i \in Nat /\ i \in Steps(spec) /\ i <= Len(rows)
    BY <1>1, <1>3, <1>6 DEF Saving
  <2> DEFINE Last(j) == /\ spec.steps[j].save = spec.steps[i].save
                        /\ \A k \in I : spec.steps[k].save = spec.steps[i].save => k <= j
  <2>4. Last(i)
    BY <2>1, <2>2
  <2>5. \A j \in I : Last(j) => j = i
    BY <2>1
  <2>6. Saver(spec, I, spec.steps[i].save) = CHOOSE j \in I : Last(j)
    BY DEF Saver
  <2> HIDE DEF Last
  <2>3. Saver(spec, I, spec.steps[i].save) = i
    BY <2>4, <2>5, <2>6
  <2> QED
    BY <1>2, <2>2, <2>3
<1>9. \A i \in I : b[spec.steps[i].save] = rows[i].gave
  BY <1>7, <1>8
<1>10. \A n \in DOMAIN start : n \notin saved => b[n] = start[n]
  BY <1>7
<1>11. DOMAIN b = DOMAIN start \cup saved
  BY <1>7
<1> QED
  BY <1>6, <1>9, <1>10, <1>11 DEF BoundTo, b

LEMMA StartIsBound ==
  ASSUME rows = <<>>
  PROVE  BoundTo(Bound(run.given))
<1>1. Saving = {}
  BY DEF Saving
<1> QED
  BY <1>1 DEF BoundTo

(* The rows of a running handler grow by what is bound, and by what is not. *)
LEMMA SavingGrows ==
  ASSUME Base, NEW row, WritesRow(row)
  PROVE  /\ OkRow(row) /\ Step.save # NoName => Saving' = Saving \cup {Turn}
         /\ ~(OkRow(row) /\ Step.save # NoName) => Saving' = Saving
         /\ Turn \notin Saving
<1>1. /\ Len(rows') = Turn /\ rows'[Turn] = row /\ \A i \in 1..Len(rows) : rows'[i] = rows[i]
      /\ 1..Turn = 1..Len(rows) \cup {Turn} /\ Turn \notin 1..Len(rows)
  BY WritesAt
<1>2. skill' = skill /\ Step = skill.spec.steps[Turn]
  BY DEF WritesRow, Step
<1>3. Saving' = {i \in 1..Turn : OkRow(rows'[i]) /\ skill.spec.steps[i].save # NoName}
  BY <1>1, <1>2 DEF Saving, OkRow
<1> QED
  BY <1>1, <1>2, <1>3 DEF Saving

LEMMA WritesBinds ==
  ASSUME Base, BindingsInv, NEW row, WritesRow(row), Binds(row)
  PROVE  BindingsInv'
<1>1. /\ run # NoRun /\ run.status = "RUNNING" /\ working /\ Turn \in Steps(skill.spec)
      /\ rows'[Turn] = row /\ \A i \in 1..Len(rows) : rows'[i] = rows[i]
      /\ Turn \notin 1..Len(rows)
  BY WritesAt
<1>2. skill' = skill /\ Step = skill.spec.steps[Turn] /\ run' = run /\ OkRow(row)
      /\ bindings' = IF Step.save = NoName THEN bindings
                     ELSE [n \in DOMAIN bindings \cup {Step.save} |->
                             IF n = Step.save THEN row.gave ELSE bindings[n]]
  BY DEF WritesRow, Step, Binds
<1>3. BoundTo(bindings)
  BY <1>1 DEF BindingsInv, Running
<1> DEFINE Name(i) == skill.spec.steps[i].save
           start == Bound(run.given)
<1>4. /\ DOMAIN bindings = DOMAIN start \cup {Name(i) : i \in Saving}
      /\ \A i \in Saving : bindings[Name(i)] = rows[i].gave
      /\ \A n \in DOMAIN start : (\A i \in Saving : Name(i) # n) => bindings[n] = start[n]
  BY <1>3 DEF BoundTo
<1>5. \A i \in Saving : i \in 1..Len(rows) /\ i \in Steps(skill.spec) /\ Name(i) # NoName
  BY <1>1, RowsAreSteps DEF Saving
<1>6. start' = start
  BY <1>2
<1>7. SUFFICES /\ DOMAIN bindings' = DOMAIN start \cup {Name(i) : i \in Saving'}
               /\ \A i \in Saving' : bindings'[Name(i)] = rows'[i].gave
               /\ \A n \in DOMAIN start :
                    (\A i \in Saving' : Name(i) # n) => bindings'[n] = start[n]
  <2>1. {skill'.spec.steps[i].save : i \in Saving'} = {Name(i) : i \in Saving'}
    BY <1>2
  <2>2. BoundTo(bindings)' <=>
          /\ DOMAIN bindings' = DOMAIN start' \cup {skill'.spec.steps[i].save : i \in Saving'}
          /\ \A i \in Saving' : bindings'[skill'.spec.steps[i].save] = rows'[i].gave
          /\ \A n \in DOMAIN start' :
               (\A i \in Saving' : skill'.spec.steps[i].save # n) => bindings'[n] = start'[n]
    BY DEF BoundTo
  <2> QED
    BY <1>2, <1>6, <2>1, <2>2 DEF BindingsInv
<1>8. CASE Step.save = NoName
  <2>1. Saving' = Saving /\ bindings' = bindings
    BY <1>2, <1>8, SavingGrows
  <2> QED
    BY <1>1, <1>4, <1>5, <2>1
<1>9. CASE Step.save # NoName
  <2>1. Saving' = Saving \cup {Turn} /\ Turn \notin Saving /\ Name(Turn) = Step.save
    BY <1>2, <1>9, SavingGrows
  <2>2. bindings' = [n \in DOMAIN bindings \cup {Name(Turn)} |->
                       IF n = Name(Turn) THEN row.gave ELSE bindings[n]]
    BY <1>2, <1>9
  <2>3. \A i \in Saving : Name(i) # Name(Turn)
    BY <1>1, <1>5, <2>1, SaversDiffer
  <2>4. DOMAIN bindings' = DOMAIN start \cup {Name(i) : i \in Saving'}
    BY <1>4, <2>1, <2>2
  <2>5. \A i \in Saving' : bindings'[Name(i)] = rows'[i].gave
    BY <1>1, <1>4, <1>5, <2>1, <2>2, <2>3
  <2>6. \A n \in DOMAIN start : (\A i \in Saving' : Name(i) # n) => bindings'[n] = start[n]
    BY <1>4, <2>1, <2>2
  <2> QED
    BY <2>4, <2>5, <2>6
<1> QED
  BY <1>8, <1>9

LEMMA WritesUnbound ==
  ASSUME Base, BindingsInv, NEW row, WritesRow(row), BindsNot(row)
  PROVE  BindingsInv'
<1>1. SUFFICES ASSUME Running' PROVE BoundTo(bindings)'
  BY DEF BindingsInv
<1>2. UNCHANGED <<run, working, bindings>> /\ Running
  BY <1>1 DEF BindsNot, FailsExecution, Running
<1>3. BoundTo(bindings) /\ ~OkRow(row) /\ skill' = skill
  BY <1>2 DEF BindingsInv, BindsNot, WritesRow
<1>4. Saving' = Saving
  BY <1>3, SavingGrows
<1>5. \A i \in Saving : rows'[i] = rows[i]
  BY WritesAt DEF Saving
<1> QED
  BY <1>2, <1>3, <1>4, <1>5 DEF BoundTo

LEMMA SameBinds ==
  ASSUME BindingsInv, UNCHANGED <<skill, run, working, rows, bindings>>
  PROVE  BindingsInv'
<1>1. Saving' = Saving
  BY DEF Saving, OkRow
<1> QED
  BY <1>1 DEF BindingsInv, BoundTo, Running

LEMMA BindingsNext == Base /\ BindingsInv /\ [Next]_vars => BindingsInv'
<1> SUFFICES ASSUME Base, BindingsInv, [Next]_vars PROVE BindingsInv'
  OBVIOUS
<1>1. CASE UNCHANGED vars
  BY <1>1, SameBinds
<1>2. ASSUME NEW s \in Setups, Start(s) PROVE BindingsInv'
  BY <1>2, SameBinds DEF Start
<1>3. ASSUME NEW s \in Setups, Refuse(s) PROVE BindingsInv'
  BY <1>3, SameBinds DEF Refuse
<1>4. CASE Stop
  BY <1>4 DEF Stop, BindingsInv, Running
<1>5. ASSUME NEW spec \in Specs, Compile(spec) PROVE BindingsInv'
  <2>1. run = NoRun /\ run' = run
    BY <1>5 DEF Compile, Base, SkillInv, NoSkill
  <2> QED
    BY <2>1 DEF BindingsInv, Running, NoRun
<1>6. ASSUME NEW mode \in {"LIVE", "SHADOW"}, NEW given \in SUBSET Inputs, NEW offer \in Offers,
             NEW asked \in BOOLEAN, Execute(mode, given, offer, asked)
      PROVE  BindingsInv'
  <2>1. run = NoRun /\ rows' = rows
    BY <1>6 DEF Execute
  <2>2. rows' = <<>>
    BY <2>1 DEF Base, SkillInv
  <2>3. working' => bindings' = Bound(given) /\ run'.given = given
    BY <1>6 DEF Execute
  <2>4. Saving' = {}
    BY <2>2 DEF Saving
  <2> QED
    BY <2>3, <2>4 DEF BindingsInv, Running, BoundTo
<1>7. ASSUME NEW offer \in Offers, Resume(offer) PROVE BindingsInv'
  <2>1. /\ run.status = "WAITING" /\ rows' = rows
        /\ run' = [run EXCEPT !.approved = TRUE, !.offer = offer,
                              !.status = IF Denied(run.mode, offer) THEN "DENIED" ELSE "RUNNING"]
        /\ working' => bindings' = Bound(run.given)
    BY <1>7 DEF Resume
  <2>2. rows' = <<>> /\ run # NoRun
    BY <2>1 DEF Base, RowsInv, NoRun
  <2>3. run'.given = run.given
    BY <2>1, <2>2, RunIs DEF Base
  <2>4. Saving' = {}
    BY <2>2 DEF Saving
  <2> QED
    BY <2>1, <2>3, <2>4 DEF BindingsInv, Running, BoundTo
<1>8. CASE Unmet
  BY <1>8 DEF Unmet, BindingsInv, Running
<1>9. CASE TakesStep
  BY <1>9, StepWrites, WritesBinds, WritesUnbound
<1>10. CASE Advance
  <2>1. UNCHANGED <<skill, rows>>
    BY <1>10 DEF Advance
  <2>2. CASE working' = FALSE
    BY <2>2 DEF BindingsInv, Running
  <2>3. CASE UNCHANGED <<run, working, bindings>>
    BY <2>1, <2>3, SameBinds
  <2> QED
    BY <1>10, <2>2, <2>3 DEF Advance
<1>11. CASE Recover
  <2>1. UNCHANGED <<skill, rows>>
    BY <1>11, RecoverIs
  <2>2. CASE EndsIt
    BY <2>2 DEF EndsIt, BindingsInv, Running
  <2>3. ASSUME NEW past \in Nat, RecoversTo(past) PROVE BindingsInv'
    <3>1. run # NoRun /\ run' = run /\ past = Len(rows)
      BY <2>3, RunningIs DEF RecoversTo
    <3>2. PICK b : b = Rebuilt(skill.spec, past)
      OBVIOUS
    <3>3. BoundTo(b)
      BY <3>1, <3>2, RebuiltIs
    <3>4. Saving' = Saving
      BY <2>1 DEF Saving, OkRow
    <3>5. bindings' = b
      BY <2>3, <3>2 DEF RecoversTo
    <3> QED
      BY <2>1, <3>1, <3>3, <3>4, <3>5 DEF BindingsInv, BoundTo
  <2> QED
    BY <1>11, <2>2, <2>3, RecoverIs
<1> QED
  BY <1>1, <1>2, <1>3, <1>4, <1>5, <1>6, <1>7, <1>8, <1>9, <1>10, <1>11 DEF Next, TakesStep

LEMMA BindingsAlways == Spec => []BindingsInv
<1>1. Init => BindingsInv
  BY DEF Init, BindingsInv, Running
<1> QED
  BY <1>1, BaseAlways, BindingsNext, PTL DEF Spec

(* Whatever the interleaving of steps, crashes, restarts and               *)
(* configurations, a handler that goes on has the rows of the steps before *)
(* its cursor and no others, and binds each name to what the step that     *)
(* saves it gave (runtime.go:997, recovery.go:54).                         *)
THEOREM ContinuesAsBefore == Spec => []RecoveredAsRun
<1>1. ASSUME Base, BindingsInv PROVE RecoveredAsRun
  <2>1. SUFFICES ASSUME Running PROVE
          /\ Len(rows) \in {cursor, Turn}
          /\ \A i \in 1..Len(rows) : \A n \in {skill.spec.steps[i].save} \ {NoName} :
               IF OkRow(rows[i]) THEN bindings[n].by = i
               ELSE n # "inputs" => n \notin DOMAIN bindings
          /\ \A n \in DOMAIN Bound(run.given) :
               SavedBy(n) = {} => bindings[n] = Bound(run.given)[n]
    BY DEF RecoveredAsRun
  <2>2. run # NoRun /\ skill.status = "PASSED" /\ Len(rows) \in {cursor, Turn}
    BY <1>1, <2>1, RunningIs DEF Running
  <2>3. BoundTo(bindings) /\ 1..Len(rows) \subseteq Steps(skill.spec)
    BY <1>1, <2>1, <2>2, RowsAreSteps DEF BindingsInv
  <2>4. \A n \in DOMAIN Bound(run.given) : n = "inputs" \/ n \in Inputs
    BY <1>1, <2>2, RunIs DEF Base, Bound
  <2>5. ASSUME NEW i \in 1..Len(rows), NEW n, n = skill.spec.steps[i].save, n # NoName
        PROVE  IF OkRow(rows[i]) THEN bindings[n].by = i
               ELSE n # "inputs" => n \notin DOMAIN bindings
    <3>1. CASE OkRow(rows[i])
      <4>1. i \in Saving /\ rows[i].gave.by = i
        BY <1>1, <2>2, <2>5, <3>1 DEF Saving, Base, RowsInv, RowIs
      <4> QED
        BY <2>3, <2>5, <3>1, <4>1 DEF BoundTo
    <3>2. CASE ~OkRow(rows[i])
      <4>1. n \notin Inputs
        BY <1>1, <2>2, <2>3, <2>5 DEF Base, SkillInv
      <4>2. \A j \in Saving : j \in Steps(skill.spec) /\ j # i
        BY <2>3, <3>2 DEF Saving
      <4>3. \A j \in Saving : skill.spec.steps[j].save # n
        BY <1>1, <2>2, <2>3, <2>5, <4>2, SaversDiffer
      <4> QED
        BY <2>3, <2>4, <3>2, <4>1, <4>3 DEF BoundTo
    <3> QED
      BY <3>1, <3>2
  <2>6. \A n \in DOMAIN Bound(run.given) :
          SavedBy(n) = {} => \A i \in Saving : skill.spec.steps[i].save # n
    BY DEF SavedBy, Saving
  <2> QED
    BY <2>2, <2>3, <2>5, <2>6 DEF BoundTo
<1> QED
  BY <1>1, BaseAlways, BindingsAlways, PTL

-----------------------------------------------------------------------------
(***************************************************************************)
(* Part 5.  References, effects and offers.                                *)
(***************************************************************************)

Excused(i) ==
  LET path == skill.spec.steps[i].arg
  IN NotGiven(path) \/ OfAnInput(path) \/ Unsaved(i, path) \/ NoSuchField(i, path)
       \/ Shadowing(i, path)

LEMMA ExcusedStays ==
  ASSUME NEW i, UNCHANGED <<skill, catalog>>, run'.given = run.given,
         \A j \in 1..(i - 1) : rows'[j] = rows[j], Excused(i)
  PROVE  Excused(i)'
<1> DEFINE path == skill.spec.steps[i].arg
<1>2. path' = path
  OBVIOUS
<1>3. NotGiven(path) => NotGiven(path)'
  BY DEF NotGiven
<1>4. OfAnInput(path) => OfAnInput(path)'
  BY DEF OfAnInput
<1>5. Unsaved(i, path) => Unsaved(i, path)'
  BY <1>2 DEF Unsaved, OkRow
<1>6. NoSuchField(i, path) => NoSuchField(i, path)'
  BY <1>2 DEF NoSuchField, Known
<1>7. Shadowing(i, path) => Shadowing(i, path)'
  BY DEF Shadowing
<1> QED
  BY <1>3, <1>4, <1>5, <1>6, <1>7 DEF Excused

(* A reference that leads nowhere has its cause.                           *)
LEMMA UnresolvedIsExcused ==
  ASSUME Base, BindingsInv, ~changed, Unresolved, Len(rows) = cursor
  PROVE  Excused(Turn)
<1>1. Running /\ Step.arg # NoArg /\ ~Lookup(Step.arg)
  BY DEF Unresolved, Taken, AtStep
<1>2. /\ run # NoRun /\ skill.status = "PASSED" /\ Turn \in Steps(skill.spec)
      /\ cursor \in Nat /\ Step = skill.spec.steps[Turn]
  BY <1>1, RunningIs DEF Running, Step
<1> DEFINE spec == skill.spec
           path == skill.spec.steps[Turn].arg
           start == Bound(run.given)
<1>3. RefAvailable(spec, Turn, path)
  BY <1>1, <1>2 DEF Base, SkillInv, RefsOK
<1>4. path[1] \in DOMAIN bindings =>
        Len(path) > 1 /\ path[2] \notin bindings[path[1]].fields
  BY <1>1, <1>2 DEF Lookup
<1>5. BoundTo(bindings) /\ 1..Len(rows) \subseteq Steps(spec) /\ 1..Len(rows) = 1..(Turn - 1)
  BY <1>1, <1>2, RowsAreSteps DEF BindingsInv, Turn
<1>6. /\ DOMAIN bindings = DOMAIN start \cup {spec.steps[i].save : i \in Saving}
      /\ \A i \in Saving : bindings[spec.steps[i].save] = rows[i].gave
      /\ \A n \in DOMAIN start :
           (\A i \in Saving : spec.steps[i].save # n) => bindings[n] = start[n]
  BY <1>5 DEF BoundTo
<1>7. /\ DOMAIN start = {"inputs"} \cup run.given
      /\ start["inputs"].fields = run.given
  BY DEF Bound
<1>8. CASE path \in {<<"inputs", n>> : n \in Inputs}
  <2>1. PICK n \in Inputs : path = <<"inputs", n>>
    BY <1>8
  <2>2. path[1] = "inputs" /\ path[2] = n
    BY <2>1
  <2>3. CASE \E j \in Saving : spec.steps[j].save = "inputs"
    <3>1. Shadowing(Turn, path)
      BY <1>5, <2>2, <2>3 DEF Shadowing, Saving
    <3> QED
      BY <3>1 DEF Excused
  <2>4. CASE \A j \in Saving : spec.steps[j].save # "inputs"
    <3>1. n \notin run.given
      BY <1>4, <1>6, <1>7, <2>2, <2>4
    <3>2. NotGiven(path)
      BY <2>2, <3>1 DEF NotGiven
    <3> QED
      BY <3>2 DEF Excused
  <2> QED
    BY <2>3, <2>4
<1>9. CASE path[1] \in Inputs
  <2>1. CASE Len(path) > 1
    <3>1. OfAnInput(path)
      BY <1>9, <2>1 DEF OfAnInput
    <3> QED
      BY <3>1 DEF Excused
  <2>2. CASE ~(Len(path) > 1)
    <3>1. path[1] \notin run.given /\ path[1] # "inputs"
      BY <1>4, <1>6, <1>7, <2>2
    <3>2. NotGiven(path)
      BY <1>9, <3>1 DEF NotGiven
    <3> QED
      BY <3>2 DEF Excused
  <2> QED
    BY <2>1, <2>2
<1>10. CASE path[1] \in SavedBefore(spec, Turn)
  <2>1. PICK j \in Steps(spec) : j < Turn /\ spec.steps[j].save = path[1] /\ path[1] # NoName
    BY <1>10 DEF SavedBefore
  <2>2. j \in 1..(Turn - 1) /\ j \in 1..Len(rows)
    BY <1>2, <1>5, <2>1 DEF Steps
  <2>3. CASE ~OkRow(rows[j])
    <3>1. Unsaved(Turn, path)
      BY <2>1, <2>2, <2>3 DEF Unsaved
    <3> QED
      BY <3>1 DEF Excused
  <2>4. CASE OkRow(rows[j])
    <3>1. j \in Saving
      BY <2>1, <2>2, <2>4 DEF Saving
    <3>2. bindings[path[1]] = rows[j].gave /\ path[1] \in DOMAIN bindings
      BY <1>6, <2>1, <3>1
    <3>3. Len(path) > 1 /\ path[2] \notin rows[j].gave.fields
      BY <1>4, <3>2
    <3>4. rows[j].status = "SUCCEEDED" =>
            rows[j].gave.fields = catalog[spec.steps[j].tool].outputs
      BY <1>2, <2>2 DEF Base, RowsInv, RowIs
    <3>5. NoSuchField(Turn, path)
      BY <2>1, <2>2, <2>4, <3>3, <3>4 DEF NoSuchField, OkRow
    <3> QED
      BY <3>5 DEF Excused
  <2> QED
    BY <2>3, <2>4
<1> QED
  BY <1>3, <1>8, <1>9, <1>10 DEF RefAvailable, Roots

(* What a step leaves alone of that.                                       *)
Keeps ==
  /\ UNCHANGED <<skill, rows>> /\ (rows # <<>> => run'.given = run.given)
  /\ ~changed' => ~changed /\ catalog' = catalog

LEMMA KeepsResolved ==
  ASSUME Base, ReferencesResolve, Keeps
  PROVE  ReferencesResolve'
<1>1. SUFFICES ASSUME NEW i \in 1..Len(rows), rows[i].why = "TEMPLATE_ERROR", ~changed'
               PROVE  Excused(i)'
  BY DEF ReferencesResolve, Excused, Keeps
<1>2. ~changed /\ catalog' = catalog /\ skill' = skill /\ rows' = rows /\ Len(rows) \in Nat
  BY <1>1 DEF Keeps, Base, Types
<1>3. run'.given = run.given
  BY <1>1 DEF Keeps
<1>4. Excused(i)
  BY <1>1, <1>2 DEF ReferencesResolve, Excused
<1> QED
  BY <1>1, <1>2, <1>3, <1>4, ExcusedStays

LEMMA WritesResolved ==
  ASSUME Base, BindingsInv, ReferencesResolve, NEW row, WritesRow(row),
         Binds(row) \/ BindsNot(row)
  PROVE  ReferencesResolve'
<1>1. /\ rows'[Turn] = row /\ \A i \in 1..Len(rows) : rows'[i] = rows[i]
      /\ Len(rows') = Turn /\ 1..Turn = 1..Len(rows) \cup {Turn} /\ Len(rows) \in Nat
      /\ Len(rows) = cursor
  BY WritesAt
<1>2. UNCHANGED <<skill, catalog, changed, cursor>> /\ run'.given = run.given
  BY RunAfter DEF WritesRow
<1>3. PICK t : t = Turn
  OBVIOUS
<1>4. SUFFICES ASSUME NEW i \in 1..t, rows'[i].why = "TEMPLATE_ERROR", ~changed
               PROVE  Excused(i)'
  BY <1>1, <1>2, <1>3 DEF ReferencesResolve, Excused
<1>5. CASE i \in 1..Len(rows)
  <2>1. Excused(i)
    BY <1>1, <1>4, <1>5 DEF ReferencesResolve, Excused
  <2>2. \A j \in 1..(i - 1) : rows'[j] = rows[j]
    BY <1>1, <1>5
  <2> QED
    BY <1>2, <2>1, <2>2, ExcusedStays
<1>6. CASE i = t
  <2>1. row.why = "TEMPLATE_ERROR"
    BY <1>1, <1>3, <1>4, <1>6
  <2>2. Unresolved
    BY <2>1 DEF Binds, BindsNot
  <2>3. Excused(t)
    BY <1>1, <1>3, <1>4, <2>2, UnresolvedIsExcused
  <2>4. \A j \in 1..(t - 1) : rows'[j] = rows[j]
    BY <1>1, <1>3 DEF Turn
  <2>5. Excused(t)'
    BY <1>2, <2>3, <2>4, ExcusedStays
  <2> QED
    BY <1>6, <2>5
<1> QED
  BY <1>1, <1>3, <1>4, <1>5, <1>6

LEMMA ResolvedNext == Base /\ BindingsInv /\ ReferencesResolve /\ [Next]_vars => ReferencesResolve'
<1> SUFFICES ASSUME Base, BindingsInv, ReferencesResolve, [Next]_vars PROVE ReferencesResolve'
  OBVIOUS
<1>1. CASE UNCHANGED vars
  BY <1>1, KeepsResolved DEF Keeps
<1>2. ASSUME NEW s \in Setups, Start(s) PROVE ReferencesResolve'
  <2>1. /\ UNCHANGED <<skill, exec>>
        /\ changed' = (changed \/ (skill # NoSkill /\ catalog' # catalog))
    BY <1>2 DEF Start
  <2>2. CASE run = NoRun
    BY <2>1, <2>2 DEF Base, SkillInv, ReferencesResolve
  <2>3. CASE run # NoRun
    BY <2>1, <2>3, PassedIs, KeepsResolved DEF Base, SkillInv, Keeps
  <2> QED
    BY <2>2, <2>3
<1>3. ASSUME NEW s \in Setups, Refuse(s) PROVE ReferencesResolve'
  BY <1>3, KeepsResolved DEF Refuse, Keeps
<1>4. CASE Stop
  BY <1>4, KeepsResolved DEF Stop, Keeps
<1>5. ASSUME NEW spec \in Specs, Compile(spec) PROVE ReferencesResolve'
  <2>1. run = NoRun /\ rows' = rows
    BY <1>5 DEF Compile, Base, SkillInv, NoSkill
  <2>2. rows' = <<>>
    BY <2>1 DEF Base, SkillInv
  <2> QED
    BY <2>2 DEF ReferencesResolve
<1>6. ASSUME NEW mode \in {"LIVE", "SHADOW"}, NEW given \in SUBSET Inputs, NEW offer \in Offers,
             NEW asked \in BOOLEAN, Execute(mode, given, offer, asked)
      PROVE  ReferencesResolve'
  <2>1. run = NoRun /\ rows' = rows
    BY <1>6 DEF Execute
  <2>2. rows' = <<>>
    BY <2>1 DEF Base, SkillInv
  <2> QED
    BY <2>2 DEF ReferencesResolve
<1>7. ASSUME NEW offer \in Offers, Resume(offer) PROVE ReferencesResolve'
  <2>1. run.status = "WAITING" /\ rows' = rows
    BY <1>7 DEF Resume
  <2>2. rows' = <<>>
    BY <2>1 DEF Base, RowsInv
  <2> QED
    BY <2>2 DEF ReferencesResolve
<1>8. CASE Unmet
  <2>1. run' = [run EXCEPT !.status = "FAILED"] /\ run.status = "RUNNING"
    BY <1>8 DEF Unmet, Running
  <2>2. run'.given = run.given
    BY <2>1, RunningIs, RunUpdate DEF Base
  <2> QED
    BY <1>8, <2>2, KeepsResolved DEF Unmet, Keeps
<1>9. CASE TakesStep
  BY <1>9, StepWrites, WritesResolved
<1>10. CASE Advance
  <2>1. run.status = "RUNNING" /\ (run' = [run EXCEPT !.status = "SUCCEEDED"] \/ run' = run)
    BY <1>10 DEF Advance, Running
  <2>2. run'.given = run.given
    BY <2>1, RunningIs, RunUpdate DEF Base
  <2> QED
    BY <1>10, <2>2, KeepsResolved DEF Advance, Keeps
<1>11. CASE Recover
  <2>1. \/ run.status = "RUNNING" /\ \E status \in {"FAILED", "SUCCEEDED"} :
                                       run' = [run EXCEPT !.status = status]
        \/ run' = run
    BY <1>11, RecoverIs DEF EndsIt, RecoversTo
  <2>2. run'.given = run.given
    BY <2>1, RunningIs, RunUpdate DEF Base
  <2> QED
    BY <1>11, <2>2, RecoverIs, KeepsResolved DEF Keeps
<1> QED
  BY <1>1, <1>2, <1>3, <1>4, <1>5, <1>6, <1>7, <1>8, <1>9, <1>10, <1>11 DEF Next, TakesStep

(* A step fails on a reference of a version that passed only because an    *)
(* input was left out, a step was skipped, failed or previewed, or a tool  *)
(* has no such field (validator.go:255); nothing the validator looks at    *)
(* is ever missing, in a first run or in one that was recovered.           *)
THEOREM ReferencesLead == Spec => []ReferencesResolve
<1>1. Init => ReferencesResolve
  BY DEF Init, ReferencesResolve
<1> QED
  BY <1>1, BaseAlways, BindingsAlways, ResolvedNext, PTL DEF Spec

(* What runs has been let through by the policy.                           *)
PolicyInv ==
  run.status = "RUNNING" =>
    /\ skill.risk # "CRITICAL"
    /\ run.mode = "LIVE" => /\ skill.risk = "HIGH" => run.approved
                            /\ skill.risk = "MEDIUM" => AllowMedium

LEMMA SamePolicy ==
  ASSUME PolicyInv, skill' = skill, run' = run \/ run'.status # "RUNNING"
  PROVE  PolicyInv'
BY DEF PolicyInv

LEMMA PolicyNext == Base /\ PolicyInv /\ [Next]_vars => PolicyInv'
<1> SUFFICES ASSUME Base, PolicyInv, [Next]_vars PROVE PolicyInv'
  OBVIOUS
<1>1. CASE UNCHANGED vars
  BY <1>1, SamePolicy
<1>2. ASSUME NEW s \in Setups, Start(s) PROVE PolicyInv'
  BY <1>2, SamePolicy DEF Start
<1>3. ASSUME NEW s \in Setups, Refuse(s) PROVE PolicyInv'
  BY <1>3, SamePolicy DEF Refuse
<1>4. CASE Stop
  BY <1>4, SamePolicy DEF Stop
<1>5. ASSUME NEW spec \in Specs, Compile(spec) PROVE PolicyInv'
  <2>1. run = NoRun /\ run' = run
    BY <1>5 DEF Compile, Base, SkillInv, NoSkill
  <2> QED
    BY <2>1 DEF PolicyInv, NoRun
<1>6. ASSUME NEW mode \in {"LIVE", "SHADOW"}, NEW given \in SUBSET Inputs, NEW offer \in Offers,
             NEW asked \in BOOLEAN, Execute(mode, given, offer, asked)
      PROVE  PolicyInv'
  <2>1. skill' = skill /\ run'.mode = mode /\ run'.approved = FALSE
        /\ (run'.status = "RUNNING" => ~Denied(mode, offer) /\ ~Held(mode))
    BY <1>6 DEF Execute
  <2> QED
    BY <2>1 DEF PolicyInv, Denied, Held
<1>7. ASSUME NEW offer \in Offers, Resume(offer) PROVE PolicyInv'
  <2>1. /\ skill' = skill /\ run.status = "WAITING"
        /\ run' = [run EXCEPT !.approved = TRUE, !.offer = offer,
                              !.status = IF Denied(run.mode, offer) THEN "DENIED" ELSE "RUNNING"]
    BY <1>7 DEF Resume
  <2>2. run # NoRun
    BY <2>1 DEF NoRun
  <2>3. run'.approved = TRUE /\ run'.mode = run.mode
        /\ (run'.status = "RUNNING" => ~Denied(run.mode, offer))
    BY <2>1, <2>2, RunIs DEF Base
  <2> QED
    BY <2>1, <2>3 DEF PolicyInv, Denied
<1>8. CASE Unmet
  <2>1. run' = [run EXCEPT !.status = "FAILED"] /\ run.status = "RUNNING" /\ skill' = skill
    BY <1>8 DEF Unmet, Running
  <2>2. run'.status # "RUNNING"
    BY <2>1, RunningIs, RunUpdate DEF Base
  <2> QED
    BY <2>1, <2>2, SamePolicy
<1>9. CASE TakesStep
  <2>1. PICK row : WritesRow(row) /\ (Binds(row) \/ BindsNot(row))
    BY <1>9, StepWrites
  <2>2. run' = run \/ run' = [run EXCEPT !.status = "FAILED"]
    BY <2>1 DEF Binds, BindsNot, FailsExecution
  <2>3. run' = run \/ run'.status # "RUNNING"
    BY <2>1, <2>2, WritesAt, RunUpdate DEF Base
  <2> QED
    BY <2>1, <2>3, SamePolicy DEF WritesRow
<1>10. CASE Advance
  <2>1. /\ run.status = "RUNNING" /\ skill' = skill
        /\ run' = [run EXCEPT !.status = "SUCCEEDED"] \/ run' = run
    BY <1>10 DEF Advance, Running
  <2>2. run' = run \/ run'.status # "RUNNING"
    BY <2>1, RunningIs, RunUpdate DEF Base
  <2> QED
    BY <2>1, <2>2, SamePolicy
<1>11. CASE Recover
  <2>1. /\ skill' = skill
        /\ \/ run.status = "RUNNING" /\ \E status \in {"FAILED", "SUCCEEDED"} :
                                          run' = [run EXCEPT !.status = status]
           \/ run' = run
    BY <1>11, RecoverIs DEF EndsIt, RecoversTo
  <2>2. run' = run \/ run'.status # "RUNNING"
    BY <2>1, RunningIs, RunUpdate DEF Base
  <2> QED
    BY <2>1, <2>2, SamePolicy
<1> QED
  BY <1>1, <1>2, <1>3, <1>4, <1>5, <1>6, <1>7, <1>8, <1>9, <1>10, <1>11 DEF Next, TakesStep

(* A call with effects is of a LIVE run, and within what was let through.  *)
LEMMA CallIsVetted ==
  ASSUME Base, PolicyInv, Call, Contract.side
  PROVE  /\ run.mode = "LIVE"
         /\ ~changed => /\ Contract.risk # "CRITICAL"
                        /\ Contract.risk = "HIGH" => run.approved
                        /\ Contract.risk = "MEDIUM" => AllowMedium \/ run.approved
<1>1. Running /\ ~Previews /\ Routed
  BY DEF Call, Resolved, Taken, AtStep
<1>2. /\ run # NoRun /\ skill.status = "PASSED" /\ Turn \in Steps(skill.spec)
      /\ Step \in SkillStep /\ Step = skill.spec.steps[Turn] /\ up
  BY <1>1, RunningIs DEF Running, Step, Base, RowsInv
<1>3. Step.tool \in Tools /\ Step.tool \in ToolsOf(skill.spec)
  BY <1>2 DEF SkillStep, ToolsOf
<1>4. Contract = catalog[Step.tool] /\ Contract \in Definition
  BY <1>1, <1>2, <1>3, ServedAsListed DEF Base, Routed, Served, Contract
<1>5. Known(Step.tool)
  BY <1>4, DefinitionAssumption DEF Known
<1>6. run.mode = "LIVE"
  BY <1>1, <1>2, <1>4, <1>5, RunIs DEF Base, Previews
<1>7. ASSUME ~changed
      PROVE  /\ Contract.risk # "CRITICAL"
             /\ Contract.risk = "HIGH" => run.approved
             /\ Contract.risk = "MEDIUM" => AllowMedium \/ run.approved
  <2>1. Rank(Contract.risk) <= Rank(skill.risk) /\ skill.risk \in Level
    BY <1>2, <1>3, <1>4, <1>7, PassedIs DEF Base, SkillInv, WithinRisk
  <2>2. Contract.risk \in Level
    BY <1>4 DEF Definition
  <2>3. /\ skill.risk # "CRITICAL" /\ (skill.risk = "HIGH" => run.approved)
        /\ (skill.risk = "MEDIUM" => AllowMedium)
    BY <1>1, <1>6 DEF PolicyInv, Running
  <2>4. skill.risk \in {"READ_ONLY", "LOW", "MEDIUM", "HIGH"} /\ Rank(skill.risk) <= 4
    BY <2>1, <2>3, LevelIs
  <2>5. Contract.risk # "CRITICAL"
    BY <2>1, <2>2, <2>4, LevelIs
  <2>6. Contract.risk = "HIGH" => skill.risk = "HIGH"
    BY <2>1, <2>4, LevelIs
  <2>7. Contract.risk = "MEDIUM" => skill.risk \in {"MEDIUM", "HIGH"}
    BY <2>1, <2>4, LevelIs
  <2> QED
    BY <2>3, <2>5, <2>6, <2>7
<1> QED
  BY <1>6, <1>7

LEMMA VettedNext == Base /\ PolicyInv /\ ActsAreVetted /\ [Next]_vars => ActsAreVetted'
<1> SUFFICES ASSUME Base, PolicyInv, ActsAreVetted, [Next]_vars PROVE ActsAreVetted'
  OBVIOUS
<1>1. CASE acted' = acted /\ (changed => changed')
  BY <1>1 DEF ActsAreVetted
<1>2. CASE Call
  <2>1. changed' = changed
        /\ acted' = IF Contract.side
                    THEN acted \cup {[mode |-> run.mode, approved |-> run.approved,
                                      risk |-> Contract.risk]}
                    ELSE acted
    BY <1>2 DEF Call
  <2>2. CASE ~Contract.side
    BY <1>1, <2>1, <2>2
  <2>3. CASE Contract.side
    <3>1. PICK a : a = [mode |-> run.mode, approved |-> run.approved, risk |-> Contract.risk]
      OBVIOUS
    <3>2. acted' = acted \cup {a}
      BY <2>1, <2>3, <3>1
    <3>3. /\ a.mode = "LIVE"
          /\ ~changed => /\ a.risk # "CRITICAL" /\ (a.risk = "HIGH" => a.approved)
                         /\ (a.risk = "MEDIUM" => AllowMedium \/ a.approved)
      BY <1>2, <2>3, <3>1, CallIsVetted
    <3> QED
      BY <2>1, <3>2, <3>3 DEF ActsAreVetted
  <2> QED
    BY <2>2, <2>3
<1>3. CASE UNCHANGED vars
  BY <1>1, <1>3
<1>4. ASSUME NEW s \in Setups, Start(s) PROVE ActsAreVetted'
  <2>1. acted' = acted /\ changed' = (changed \/ (skill # NoSkill /\ catalog' # catalog))
    BY <1>4 DEF Start
  <2>2. changed => changed'
    BY <2>1
  <2> QED
    BY <1>1, <2>1, <2>2
<1>9. ASSUME NEW s \in Setups, Refuse(s) PROVE ActsAreVetted'
  BY <1>1, <1>9 DEF Refuse
<1>5. ASSUME NEW spec \in Specs, Compile(spec) PROVE ActsAreVetted'
  BY <1>1, <1>5 DEF Compile
<1>6. ASSUME NEW mode \in {"LIVE", "SHADOW"}, NEW given \in SUBSET Inputs, NEW offer \in Offers,
             NEW asked \in BOOLEAN, Execute(mode, given, offer, asked)
      PROVE  ActsAreVetted'
  BY <1>1, <1>6 DEF Execute
<1>7. ASSUME NEW offer \in Offers, Resume(offer) PROVE ActsAreVetted'
  BY <1>1, <1>7 DEF Resume
<1>8. CASE Stop
  BY <1>1, <1>8 DEF Stop
<1>14. CASE Unmet
  <2>1. changed' = changed /\ acted' = acted
    BY <1>14 DEF Unmet
  <2> QED
    BY <1>1, <2>1
<1>12. CASE Skip
  BY <1>1, <1>12 DEF Skip
<1>13. CASE Unresolved
  BY <1>1, <1>13 DEF Unresolved
<1>10. CASE Preview \/ CallFails
  BY <1>1, <1>10 DEF Preview, CallFails
<1>11. CASE Advance \/ Recover
  BY <1>1, <1>11 DEF Advance, Recover
<1> QED
  BY <1>2, <1>3, <1>4, <1>5, <1>6, <1>7, <1>8, <1>9, <1>10, <1>11, <1>12,
     <1>13, <1>14 DEF Next

(* Whatever configurations follow one another, a shadow run has no effect, *)
(* and as long as the catalog is the one the version was validated against *)
(* there is no effect of HIGH risk without an approval, none of CRITICAL   *)
(* risk, and of MEDIUM risk only what is allowed or approved               *)
(* (validator.go:228, policy.go:74, runtime.go:608).                       *)
THEOREM EffectsAreVetted == Spec => []ActsAreVetted
<1>1. Init => PolicyInv /\ ActsAreVetted
  BY DEF Init, PolicyInv, NoRun, ActsAreVetted
<1> QED
  BY <1>1, BaseAlways, PolicyNext, VettedNext, PTL DEF Spec

(* An agent that was offered the skill for its tools has them all.         *)
ChosenInv ==
  chosen /\ run.offer # {} /\ ~run.approved => ToolsOf(skill.spec) \subseteq run.offer

LEMMA SameChosen ==
  ASSUME ChosenInv, UNCHANGED <<skill, chosen>>, run'.offer = run.offer,
         run'.approved = run.approved
  PROVE  ChosenInv'
BY DEF ChosenInv, ToolsOf, Steps

LEMMA ChosenNext == Base /\ ChosenInv /\ [Next]_vars => ChosenInv'
<1> SUFFICES ASSUME Base, ChosenInv, [Next]_vars PROVE ChosenInv'
  OBVIOUS
<1>1. CASE UNCHANGED <<skill, chosen, run>>
  BY <1>1, SameChosen
<1>2. ASSUME run.status = "RUNNING", UNCHANGED <<skill, chosen>>,
             NEW status \in {"FAILED", "SUCCEEDED"}, run' = [run EXCEPT !.status = status]
      PROVE  ChosenInv'
  <2>1. run'.offer = run.offer /\ run'.approved = run.approved
    BY <1>2, RunningIs, RunUpdate DEF Base
  <2> QED
    BY <1>2, <2>1, SameChosen
<1>3. CASE UNCHANGED vars
  BY <1>1, <1>3
<1>4. ASSUME NEW s \in Setups, Start(s) \/ Refuse(s) PROVE ChosenInv'
  BY <1>1, <1>4 DEF Start, Refuse
<1>5. ASSUME NEW spec \in Specs, Compile(spec) PROVE ChosenInv'
  <2>1. ~chosen /\ chosen' = chosen
    BY <1>5 DEF Compile, Base, SkillInv, NoSkill
  <2> QED
    BY <2>1 DEF ChosenInv
<1>6. ASSUME NEW mode \in {"LIVE", "SHADOW"}, NEW given \in SUBSET Inputs, NEW offer \in Offers,
             NEW asked \in BOOLEAN, Execute(mode, given, offer, asked)
      PROVE  ChosenInv'
  <2>1. /\ skill' = skill /\ chosen' = asked /\ run'.offer = offer
        /\ asked => skill \in Choice(offer)
    BY <1>6 DEF Execute
  <2>2. asked /\ offer # {} => ToolsOf(skill.spec) \subseteq offer
    BY <2>1 DEF Choice, Eligible, Available
  <2> QED
    BY <2>1, <2>2 DEF ChosenInv, ToolsOf, Steps
<1>7. ASSUME NEW offer \in Offers, Resume(offer) PROVE ChosenInv'
  <2>1. /\ run.status = "WAITING"
        /\ run' = [run EXCEPT !.approved = TRUE, !.offer = offer,
                              !.status = IF Denied(run.mode, offer) THEN "DENIED" ELSE "RUNNING"]
    BY <1>7 DEF Resume
  <2>2. run # NoRun
    BY <2>1 DEF NoRun
  <2>3. run'.approved = TRUE
    BY <2>1, <2>2, RunIs DEF Base
  <2> QED
    BY <2>3 DEF ChosenInv
<1>8. CASE Stop
  BY <1>1, <1>8 DEF Stop
<1>9. CASE Unmet
  BY <1>2, <1>9 DEF Unmet, Running
<1>10. CASE TakesStep
  <2>1. PICK row : WritesRow(row) /\ (Binds(row) \/ BindsNot(row))
    BY <1>10, StepWrites
  <2>2. run'.offer = run.offer /\ run'.approved = run.approved
    BY <2>1, RunAfter
  <2> QED
    BY <2>1, <2>2, SameChosen DEF WritesRow
<1>11. CASE Advance
  BY <1>1, <1>2, <1>11 DEF Advance, Running
<1>12. CASE Recover
  BY <1>1, <1>2, <1>12, RecoverIs DEF EndsIt, RecoversTo
<1> QED
  BY <1>3, <1>4, <1>5, <1>6, <1>7, <1>8, <1>9, <1>10, <1>11, <1>12 DEF Next, TakesStep

(* A skill that retrieval offered for the tools an agent names is never    *)
(* denied for want of one, and while the catalog stays each of its tools   *)
(* has a provider or is built in (retrieve.go:185, policy.go:59,           *)
(* router.go:91).                                                          *)
THEOREM OffersHold == Spec => []ChosenIsRunnable
<1>1. Init => ChosenInv
  BY DEF Init, ChosenInv
<1>2. ASSUME Base, ChosenInv PROVE ChosenIsRunnable
  <2>1. SUFFICES ASSUME chosen, run.offer # {}
                 PROVE  /\ ~run.approved => ToolsOf(skill.spec) \subseteq run.offer
                        /\ up /\ ~changed => \A t \in ToolsOf(skill.spec) :
                             routes[t] # NoProvider \/ Default[t] # NoTool
    BY DEF ChosenIsRunnable, MissingTool
  <2>2. skill.status = "PASSED"
    BY <1>2, <2>1 DEF Base, SkillInv
  <2>3. ToolsOf(skill.spec) \subseteq Tools
    BY <1>2, <2>2, PassedIs, ToolsAre DEF Base
  <2>4. ~changed => \A t \in ToolsOf(skill.spec) : Known(t)
    BY <1>2, <2>2 DEF Base, SkillInv, WithinRisk
  <2> QED
    BY <1>2, <2>1, <2>3, <2>4, KnownIsServed DEF Base, ChosenInv
<1> QED
  BY <1>1, <1>2, BaseAlways, ChosenNext, PTL DEF Spec

=============================================================================
