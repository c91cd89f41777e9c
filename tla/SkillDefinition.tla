-------------------------- MODULE SkillDefinition --------------------------
(***************************************************************************)
(* From the text of a skill to the values its steps compute with.          *)
(*                                                                         *)
(* A server registers the tools its providers list, compiles and validates *)
(* a skill against that catalog (skillvalidator), offers it to agents      *)
(* whose tools suffice (skill.Retriever), lets the policy decide and runs  *)
(* it: every step is skipped or not by its condition, takes its argument   *)
(* from the inputs and from what earlier steps saved, and is routed to the *)
(* provider of its tool.  The process may be replaced by one with another  *)
(* configuration; the execution then goes on from the rows it left.        *)
(*                                                                         *)
(* Attempts, leases and ambiguous answers are in SkillExecution, approvals *)
(* in SkillApproval, the life of a version in SkillLifecycle.              *)
(***************************************************************************)
EXTENDS Naturals, Sequences, FiniteSets

CONSTANTS
  Tools,        \* names of tools
  Default,      \* the built-in catalog: tool -> definition, or NoTool
  Setups,       \* configurations of a server: sequences of providers
  RejectDuplicateRoutes,  \* a tool that two providers list is refused
  Inputs,       \* names of the skill's inputs
  Specs,        \* skills that are compiled
  Offers,       \* sets of tools that agents have
  AllowCritical,\* the validator lets CRITICAL skills pass
  AllowMedium,  \* the server's allow_medium_risk_live
  DefaultMaxSteps, \* of a skill that names no max_steps
  MaxStarts,    \* bound: processes
  NoTool, NoProvider, NoName, NoArg, NoWhen, NoLevel   \* nothing

Levels == <<"READ_ONLY", "LOW", "MEDIUM", "HIGH", "CRITICAL">>
Rank(level) == CHOOSE n \in 1..Len(Levels) : Levels[n] = level
Level == {Levels[n] : n \in 1..Len(Levels)}

\* A definition: what the tool may do, the fields of its answers, whether its argument is
\* declared and required, whether it is kept to some tenants, what a preview does.
Definition == [risk : Level, side : BOOLEAN, outputs : SUBSET STRING, declared : BOOLEAN,
               needs : BOOLEAN, restricted : BOOLEAN, preview : {"NONE", "LOCAL", "DRY_RUN"}]

\* A skill's text: a reference is a path of names, a condition looks at one; a step calls a tool.
Path == Seq(STRING) \ {<<>>}
Condition == [op : {"is", "eq", "ne", "exists"}, path : Path]
SkillStep == [id : STRING, tool : Tools, save : {NoName} \cup STRING, arg : {NoArg} \cup Path,
              when : {NoWhen} \cup Condition, continue : BOOLEAN]
SkillSpec == [steps : Seq(SkillStep) \ {<<>>}, maxSteps : Nat, risk : {NoLevel} \cup Level,
              requires : BOOLEAN, pre : {NoWhen} \cup Condition]

ASSUME DefinitionAssumption ==
  /\ Default \in [Tools -> Definition \cup {NoTool}] /\ NoTool \notin Definition
  /\ \A s \in Setups : /\ Len(s) \in Nat /\ NoProvider \notin 1..Len(s)
                       /\ \A p \in 1..Len(s) :
                            \A t \in DOMAIN s[p].lists : s[p].lists[t] \in Definition
  /\ Specs \subseteq SkillSpec
  /\ RejectDuplicateRoutes \in BOOLEAN /\ AllowCritical \in BOOLEAN /\ AllowMedium \in BOOLEAN
  /\ MaxStarts \in Nat /\ DefaultMaxSteps \in Nat \ {0}
  /\ NoName \notin Inputs /\ NoLevel \notin Level

VARIABLES
  up,        \* a server process runs
  starts,    \* processes so far
  setup,     \* its providers
  catalog,   \* toolregistry.Registry: tool -> definition
  routes,    \* Router.routes: tool -> index of its provider
  skill,     \* the version: its spec, validation status, computed risk
  changed,   \* the catalog is not the one the version was validated against
  run,       \* the execution: mode, status, inputs, approval, the tools of its agent
  chosen,    \* it was chosen by retrieval for those tools
  working,   \* a handler or a recovery is at work on it
  cursor,    \* its step_cursor
  rows,      \* its step rows
  bindings,  \* what the handler binds to names
  acted      \* calls that changed something outside: mode, approval and risk

server  == <<up, starts, setup, catalog, routes>>
version == <<skill, changed>>
exec    == <<run, chosen, working, cursor, rows, bindings>>
vars    == <<server, version, exec, acted>>

NoSkill == [status |-> "NONE"]
NoRun == [status |-> "NONE"]
Empty == [n \in {} |-> 0]

Init ==
  /\ up = FALSE /\ starts = 0 /\ setup = <<>>
  /\ catalog = Default /\ routes = [t \in Tools |-> NoProvider]
  /\ skill = NoSkill /\ changed = FALSE
  /\ run = NoRun /\ chosen = FALSE /\ working = FALSE
  /\ cursor = 0 /\ rows = <<>> /\ bindings = Empty
  /\ acted = {}

-----------------------------------------------------------------------------
(* The catalog and the routes. *)

\* Lister(s, t): the provider of setup s whose listing of tool t stays, the last one.
Listing(s, t) == {p \in 1..Len(s) : t \in DOMAIN s[p].lists}
Lister(s, t) == CHOOSE p \in Listing(s, t) : \A q \in Listing(s, t) : q <= p

\* Register adds or replaces; a process starts from the built-in catalog.
Registered(s, t) ==
  IF Listing(s, t) # {} THEN s[Lister(s, t)].lists[t] ELSE Default[t]

\* SyncRegistry fails when a provider cannot list its tools, or two list the same one; the
\* server then does not start.
Syncs(s) ==
  /\ \A p \in 1..Len(s) : ~s[p].fails
  /\ RejectDuplicateRoutes => \A t \in Tools : Cardinality(Listing(s, t)) <= 1

\* The MCP provider makes a definition of the hints of a tool: a tool without hints is taken to
\* have side effects at MEDIUM risk; a destructive one is HIGH whatever else it claims.
Hinted(hints, fields, declared, needs) ==
  [risk |-> IF "destructive" \in hints THEN "HIGH"
            ELSE IF "readOnly" \in hints THEN "LOW" ELSE "MEDIUM",
   side |-> "readOnly" \notin hints \/ "destructive" \in hints,
   outputs |-> fields, declared |-> declared, needs |-> declared /\ needs, restricted |-> FALSE,
   preview |-> IF "openWorld" \in hints THEN "NONE"
               ELSE IF "readOnly" \in hints THEN "DRY_RUN" ELSE "LOCAL"]

\* A process starts. The version was validated by an earlier one, perhaps with other tools.
Start(s) ==
  /\ ~up /\ starts < MaxStarts
  /\ Syncs(s)
  /\ up' = TRUE /\ starts' = starts + 1 /\ setup' = s
  /\ catalog' = [t \in Tools |-> Registered(s, t)]
  /\ routes' = [t \in Tools |-> IF Listing(s, t) = {} THEN NoProvider ELSE Lister(s, t)]
  /\ changed' = (changed \/ (skill # NoSkill /\ catalog' # catalog))
  /\ UNCHANGED <<skill, exec, acted>>

\* A start that SyncRegistry refuses.
Refuse(s) ==
  /\ ~up /\ starts < MaxStarts
  /\ ~Syncs(s)
  /\ starts' = starts + 1
  /\ UNCHANGED <<up, setup, catalog, routes, version, exec, acted>>

\* The process ends, crashes or is replaced; its bindings go with it.
Stop ==
  /\ up
  /\ up' = FALSE /\ working' = FALSE /\ bindings' = Empty
  /\ UNCHANGED <<starts, setup, catalog, routes, version, run, chosen, cursor, rows, acted>>

-----------------------------------------------------------------------------
(* Compilation: the validator. *)

\* What is left out: max_steps is DefaultMaxSteps then, and the risk LOW.
Normalize(spec) ==
  [spec EXCEPT !.maxSteps = IF @ = 0 THEN DefaultMaxSteps ELSE @,
               !.risk = IF @ = NoLevel THEN "LOW" ELSE @]

Steps(spec) == 1..Len(spec.steps)
ToolsOf(spec) == {spec.steps[i].tool : i \in Steps(spec)}
Known(t) == catalog[t] # NoTool

(* Faulty: steps may share an id. *)
SaveNamesUnique(spec) ==
  \A i, j \in Steps(spec) :
    i # j => (spec.steps[i].save # NoName => spec.steps[i].save # spec.steps[j].save)

\* Step ids and save_as names are used once.
NamesUnique(spec) ==
  \A i, j \in Steps(spec) :
    i # j => /\ spec.steps[i].id # spec.steps[j].id
             /\ spec.steps[i].save # NoName => spec.steps[i].save # spec.steps[j].save

\* checkSchema: no more steps than max_steps, and no save_as that is the name of an input.
SchemaOK(spec) ==
  /\ Len(spec.steps) <= spec.maxSteps
  /\ NamesUnique(spec)
  /\ \A i \in Steps(spec) : spec.steps[i].save \notin Inputs

\* checkToolsAndSecurity: every tool is registered, open to every tenant (the server's validator
\* has no tenant) and gets the argument it requires.
ToolsOK(spec) ==
  \A i \in Steps(spec) :
    LET st == spec.steps[i] IN
    /\ Known(st.tool)
    /\ ~catalog[st.tool].restricted
    /\ catalog[st.tool].needs => st.arg # NoArg

(* Faulty: the risk of the last tool is the risk of the skill. *)
RiskOfLastTool(spec) ==
  LET t == spec.steps[Len(spec.steps)].tool IN IF Known(t) THEN catalog[t].risk ELSE "READ_ONLY"

\* The greatest risk of the tools that are registered.
RiskOfTools(spec) ==
  LET risks == {"READ_ONLY"} \cup {catalog[t].risk : t \in {u \in ToolsOf(spec) : Known(u)}}
  IN CHOOSE r \in risks : \A o \in risks : Rank(o) <= Rank(r)

ComputedRisk(spec) ==
  IF Rank(spec.risk) > Rank(RiskOfTools(spec)) THEN spec.risk ELSE RiskOfTools(spec)

\* A declared risk below that of the tools is an error, and so is CRITICAL.
RiskOK(spec) ==
  /\ Rank(spec.risk) >= Rank(RiskOfTools(spec))
  /\ ComputedRisk(spec) = "CRITICAL" => AllowCritical

RequiresApproval(spec) == spec.requires \/ ComputedRisk(spec) \in {"HIGH", "CRITICAL"}

(* Faulty: the names are gathered before the references are looked at. *)
SavedAnywhere(spec, i) == {spec.steps[j].save : j \in Steps(spec)} \ {NoName}

\* Names that the steps before step i save.
SavedBefore(spec, i) == {spec.steps[j].save : j \in {k \in Steps(spec) : k < i}} \ {NoName}

\* Roots a reference may start from: an input by its bare name, or an earlier save_as, each with
\* any field below it.
Roots(spec, i) == Inputs \cup SavedBefore(spec, i)

\* refAvailable: "inputs" is no root, its fields are listed one by one.
RefAvailable(spec, i, path) ==
  /\ path[1] # spec.steps[i].save
  /\ path[1] \in Roots(spec, i) \/ path \in {<<"inputs", n>> : n \in Inputs}

\* The condition is looked up whole, operator and all: what remains is the part before its first
\* dot. A comparison of a bare name, and every "exists", is unknown.
WhenAvailable(spec, i, when) ==
  CASE when.op = "is" -> RefAvailable(spec, i, when.path)
    [] when.op \in {"eq", "ne"} ->
         Len(when.path) > 1 /\ when.path[1] # spec.steps[i].save
         /\ when.path[1] \in Roots(spec, i)
    [] when.op = "exists" -> FALSE

\* checkControlFlowAndRefs.
RefsOK(spec) ==
  \A i \in Steps(spec) :
    /\ spec.steps[i].arg # NoArg => RefAvailable(spec, i, spec.steps[i].arg)
    /\ spec.steps[i].when # NoWhen => WhenAvailable(spec, i, spec.steps[i].when)

Valid(spec) == SchemaOK(spec) /\ ToolsOK(spec) /\ RiskOK(spec) /\ RefsOK(spec)

\* ApplyValidationReport: the report decides the validation status, and a version that passed
\* keeps the computed risk.
Validated(spec) ==
  IF Valid(spec) THEN [status |-> "PASSED", spec |-> spec, risk |-> ComputedRisk(spec),
                       requires |-> RequiresApproval(spec)]
  ELSE [status |-> "FAILED"]

\* A request to compile a skill.
Compile(spec) ==
  /\ up /\ skill = NoSkill
  /\ skill' = Validated(Normalize(spec))
  /\ UNCHANGED <<server, changed, exec, acted>>

-----------------------------------------------------------------------------
(* Retrieval and the policy. *)

(* Faulty: the tools of the agent are not looked at. *)
AvailableHere(spec, offer) == \A t \in ToolsOf(spec) : Known(t)

\* skillAvailability: every tool is registered and, if the agent names its tools, among them.
Available(spec, offer) ==
  \A t \in ToolsOf(spec) : Known(t) /\ (offer # {} => t \in offer)

\* A candidate's score is a product: it is positive when all of its factors are.
Eligible(offer) == skill.status = "PASSED" /\ Available(skill.spec, offer)

\* Greedy, Thompson and epsilon-greedy alike choose among the candidates of a positive score.
Choice(offer) == IF Eligible(offer) THEN {skill} ELSE {}

\* DefaultPolicy.Decide.
MissingTool(spec, offer) == ~(ToolsOf(spec) \subseteq offer)
Denied(mode, offer) ==
  \/ MissingTool(skill.spec, offer)
  \/ skill.risk = "CRITICAL"
  \/ skill.risk = "MEDIUM" /\ mode = "LIVE" /\ ~AllowMedium
Held(mode) ==
  /\ mode = "LIVE"
  /\ \/ skill.risk = "HIGH"
     \/ skill.risk \in {"READ_ONLY", "LOW"} /\ skill.requires

\* What a run starts from: the inputs, together and each by its name. A value is known by the step
\* that gave it, 0 for an input, and by its fields.
Bound(given) ==
  [n \in {"inputs"} \cup given |->
     IF n = "inputs" THEN [by |-> 0, fields |-> given] ELSE [by |-> 0, fields |-> {}]]

\* Execute: an agent that has the tools of offer asks for a run with the inputs it has; in LIVE
\* mode it may have been offered the skill by retrieval before.
Execute(mode, given, offer, asked) ==
  /\ up /\ run = NoRun
  /\ skill.status = "PASSED"
  /\ asked => skill \in Choice(offer)
  /\ run' = [mode |-> mode, given |-> given, offer |-> offer, approved |-> FALSE,
             status |-> IF Denied(mode, offer) THEN "DENIED"
                        ELSE IF Held(mode) THEN "WAITING" ELSE "RUNNING"]
  /\ chosen' = asked
  /\ working' = (run'.status = "RUNNING")
  /\ bindings' = IF working' THEN Bound(given) ELSE Empty
  /\ UNCHANGED <<server, version, cursor, rows, acted>>

\* Resume, after an approval: the policy decides again.
Resume(offer) ==
  /\ up /\ run.status = "WAITING"
  /\ run' = [run EXCEPT !.approved = TRUE, !.offer = offer,
                        !.status = IF Denied(run.mode, offer) THEN "DENIED" ELSE "RUNNING"]
  /\ working' = (run'.status = "RUNNING")
  /\ bindings' = IF working' THEN Bound(run.given) ELSE Empty
  /\ UNCHANGED <<server, version, chosen, cursor, rows, acted>>

-----------------------------------------------------------------------------
(* A step. *)

Running == working /\ run.status = "RUNNING"
Written == Len(rows) > cursor          \* the row of the step at the cursor is written
Turn == cursor + 1                     \* the step at the cursor
Step == skill.spec.steps[Turn]
\* lookupPath: a name, or a field of what a name is bound to.
Lookup(path) ==
  /\ path[1] \in DOMAIN bindings
  /\ Len(path) > 1 => path[2] \in bindings[path[1]].fields

\* EvalCondition: what a value is, when there is one, is anybody's guess; a comparison with
\* nothing fails, but for an inequality.
Holds(when) ==
  IF Lookup(when.path) THEN IF when.op = "exists" THEN {TRUE} ELSE BOOLEAN
  ELSE {when.op = "ne"}

\* The preconditions hold before the first step is taken; the validator does not look at them.
Met == cursor = 0 /\ skill.spec.pre # NoWhen => TRUE \in Holds(skill.spec.pre)

AtStep == Running /\ ~Written /\ Met

\* A row: the step by its id, its status, the reason of a failure, its output.
Row(status, why, by, fields) ==
  [id |-> Step.id, status |-> status, why |-> why, gave |-> [by |-> by, fields |-> fields]]

Write(row) == rows' = Append(rows, row)

\* What becomes of the execution when a step fails.
AfterFailure ==
  IF Step.continue THEN UNCHANGED <<run, working, bindings>>
  ELSE /\ run' = [run EXCEPT !.status = "FAILED"]
       /\ working' = FALSE /\ bindings' = Empty

Fail(why) == Write(Row("FAILED", why, 0, {})) /\ AfterFailure

\* The output is bound to the save_as name of the step.
Succeed(status, fields) ==
  /\ Write(Row(status, "", Turn, fields))
  /\ bindings' = IF Step.save = NoName THEN bindings
                 ELSE [n \in DOMAIN bindings \cup {Step.save} |->
                         IF n = Step.save THEN [by |-> Turn, fields |-> fields] ELSE bindings[n]]
  /\ UNCHANGED <<run, working>>

\* A precondition is false.
Unmet ==
  /\ Running /\ ~Written /\ cursor = 0
  /\ skill.spec.pre # NoWhen /\ FALSE \in Holds(skill.spec.pre)
  /\ run' = [run EXCEPT !.status = "FAILED"]
  /\ working' = FALSE /\ bindings' = Empty
  /\ UNCHANGED <<server, version, chosen, cursor, rows, acted>>

\* The condition is false: the step is skipped.
Skip ==
  /\ AtStep
  /\ Step.when # NoWhen /\ FALSE \in Holds(Step.when)
  /\ Write(Row("SKIPPED", "", 0, {}))
  /\ UNCHANGED <<server, version, run, chosen, working, cursor, bindings, acted>>

Taken == AtStep /\ (Step.when # NoWhen => TRUE \in Holds(Step.when))

\* ResolveArgs fails on a reference that leads nowhere.
Unresolved ==
  /\ Taken
  /\ Step.arg # NoArg /\ ~Lookup(Step.arg)
  /\ Fail("TEMPLATE_ERROR")
  /\ UNCHANGED <<server, version, chosen, cursor, acted>>

Resolved == Taken /\ (Step.arg # NoArg => Lookup(Step.arg))

\* A shadow run only previews a tool that has side effects.
Previews == run.mode = "SHADOW" /\ Known(Step.tool) /\ catalog[Step.tool].side

Routed == routes[Step.tool] # NoProvider
Served == setup[routes[Step.tool]]           \* by this provider
Contract == Served.lists[Step.tool]          \* which has listed the tool so

\* ValidateInput: a required argument is missing.
InputRefused == catalog[Step.tool].needs /\ Step.arg = NoArg

\* PreviewCall checks the argument against the catalog, then asks the provider, which answers
\* with the argument it was given: the fields of a real answer are not among it.
PreviewRefused ==
  \/ InputRefused
  \/ catalog[Step.tool].preview = "NONE"
  \/ ~Routed
  \/ Served.strict /\ ~Contract.declared

Preview ==
  /\ Resolved /\ Previews
  /\ IF PreviewRefused THEN Fail("PREVIEW") ELSE Succeed("SHADOWED", {})
  /\ UNCHANGED <<server, version, chosen, cursor, acted>>

\* A call that is routed may fail; one that succeeds answers with the fields of its contract.
CallFails ==
  /\ Resolved /\ ~Previews
  /\ Fail("TOOL_FAILED")
  /\ UNCHANGED <<server, version, chosen, cursor, acted>>

Call ==
  /\ Resolved /\ ~Previews /\ Routed
  /\ Succeed("SUCCEEDED", Contract.outputs)
  /\ acted' = IF Contract.side
             THEN acted \cup {[mode |-> run.mode, approved |-> run.approved,
                              risk |-> Contract.risk]}
             ELSE acted
  /\ UNCHANGED <<server, version, chosen, cursor>>

\* The cursor is persisted past the step; after the last one the execution has SUCCEEDED.
Advance ==
  /\ Running /\ Written
  /\ cursor' = Turn
  /\ IF Turn = Len(skill.spec.steps)
     THEN /\ run' = [run EXCEPT !.status = "SUCCEEDED"]
          /\ working' = FALSE /\ bindings' = Empty
     ELSE UNCHANGED <<run, working, bindings>>
  /\ UNCHANGED <<server, version, chosen, rows, acted>>

-----------------------------------------------------------------------------
(* Recovery. *)

OkRow(row) == row.status \in {"SUCCEEDED", "SHADOWED"}

\* The rows of a step, by its id; the last one counts.
RowsOf(id) == {r \in 1..Len(rows) : rows[r].id = id}
LastRow(id) == rows[CHOOSE r \in RowsOf(id) : \A o \in RowsOf(id) : o <= r]

\* rebuildBindings: the steps whose output is bound again.
Restored(spec) ==
  {i \in Steps(spec) : /\ spec.steps[i].save # NoName /\ RowsOf(spec.steps[i].id) # {}
                       /\ OkRow(LastRow(spec.steps[i].id))}

\* Two steps of one save_as: the later one in the specification wins.
Saver(spec, I, n) == CHOOSE i \in I : /\ spec.steps[i].save = n
                                     /\ \A j \in I : spec.steps[j].save = n => j <= i

Rebuilt(spec, past) ==
  LET I == IF past > 0 /\ rows # <<>> THEN Restored(spec) ELSE {}
      saved == {spec.steps[i].save : i \in I}
      start == Bound(run.given)
  IN [n \in DOMAIN start \cup saved |->
        IF n \in saved THEN LastRow(spec.steps[Saver(spec, I, n)].id).gave ELSE start[n]]

\* Recover, with RecoveryPlanner.Plan on the last row of the step at the cursor: a settled step is
\* passed, a failed one fails the execution, and one without a row is taken as it comes.
Recover ==
  LET done == RowsOf(Step.id) # {}
      last == LastRow(Step.id)
      fails == done /\ last.status = "FAILED" /\ ~Step.continue
      past == IF done THEN Turn ELSE cursor
      over == past = Len(skill.spec.steps)
  IN
  /\ up /\ ~working /\ run.status = "RUNNING"
  /\ IF fails
     THEN /\ run' = [run EXCEPT !.status = "FAILED"]
          /\ UNCHANGED <<working, cursor, bindings>>
     ELSE /\ cursor' = past
          /\ run' = IF over THEN [run EXCEPT !.status = "SUCCEEDED"] ELSE run
          /\ working' = ~over
          /\ bindings' = IF over THEN Empty ELSE Rebuilt(skill.spec, past)
  /\ UNCHANGED <<server, version, chosen, rows, acted>>

Next ==
  \/ \E s \in Setups : Start(s) \/ Refuse(s)
  \/ Stop
  \/ \E spec \in Specs : Compile(spec)
  \/ \E mode \in {"LIVE", "SHADOW"}, given \in SUBSET Inputs, offer \in Offers,
        asked \in BOOLEAN : Execute(mode, given, offer, asked)
  \/ \E offer \in Offers : Resume(offer)
  \/ Unmet \/ Skip \/ Unresolved \/ Preview \/ CallFails \/ Call \/ Advance
  \/ Recover

Spec == Init /\ [][Next]_vars

-----------------------------------------------------------------------------
(* What must hold. *)

\* A recovered execution is where the interrupted one was (runtime.go:997, recovery.go:54): every
\* step before the cursor has left its row, and the names are bound to what those steps gave,
\* each step found by its place here and by its id there.
SavedBy(n) == {i \in 1..Len(rows) : OkRow(rows[i]) /\ skill.spec.steps[i].save = n}

RecoveredAsRun ==
  Running =>
    /\ Len(rows) \in {cursor, Turn}
    /\ \A i \in 1..Len(rows) : \A n \in {skill.spec.steps[i].save} \ {NoName} :
         IF OkRow(rows[i])
         THEN bindings[n].by = i
         ELSE n # "inputs" => n \notin DOMAIN bindings
    /\ \A n \in DOMAIN Bound(run.given) : SavedBy(n) = {} => bindings[n] = Bound(run.given)[n]

\* A reference that the validator let pass (validator.go:255) leads somewhere when the step is
\* taken, but for the causes named here.
NotGiven(path) ==        \* the agent left out an input
  (IF path[1] = "inputs" THEN path[2] ELSE path[1]) \in Inputs \ run.given
OfAnInput(path) ==       \* a field of an input that has none
  path[1] \in Inputs /\ Len(path) > 1
Unsaved(i, path) ==      \* the step that saves it was skipped, or failed and was passed over
  \E j \in 1..(i - 1) : skill.spec.steps[j].save = path[1] /\ ~OkRow(rows[j])
NoSuchField(i, path) ==  \* the tool does not declare the field, or was only previewed
  \E j \in 1..(i - 1) :
    /\ skill.spec.steps[j].save = path[1] /\ Len(path) > 1
    /\ \/ rows[j].status = "SHADOWED"
       \/ Known(skill.spec.steps[j].tool) => path[2] \notin catalog[skill.spec.steps[j].tool].outputs
Shadowing(i, path) ==    \* an earlier step saves as "inputs", which is no input's name
  path[1] = "inputs" /\ \E j \in 1..(i - 1) : skill.spec.steps[j].save = "inputs"

ReferencesResolve ==
  \A i \in 1..Len(rows) :
    rows[i].why = "TEMPLATE_ERROR" /\ ~changed =>
      LET path == skill.spec.steps[i].arg IN
      NotGiven(path) \/ OfAnInput(path) \/ Unsaved(i, path) \/ NoSuchField(i, path)
        \/ Shadowing(i, path)

\* Whatever happens outside was let through. A shadow run changes nothing there (runtime.go:608),
\* whatever catalog the process has: the contract it goes by is that of the provider that would
\* serve the call. And nothing of HIGH risk happens without an approval, nothing CRITICAL, and
\* nothing of MEDIUM risk unless it is allowed, as long as the tools are those the skill was
\* validated with: the risk is computed once (validator.go:228, policy.go:74).
ActsAreVetted ==
  \A a \in acted :
    /\ a.mode = "LIVE"
    /\ ~changed =>
         /\ a.risk # "CRITICAL"
         /\ a.risk = "HIGH" => a.approved
         /\ a.risk = "MEDIUM" => AllowMedium \/ a.approved

\* A skill that was chosen for the tools an agent names is not denied for want of a tool, and each
\* call finds a provider (retrieve.go:185, policy.go:59, router.go:91), unless the tool is a
\* built-in one that no provider lists.
ChosenIsRunnable ==
  chosen /\ run.offer # {} =>
    /\ run.status = "DENIED" /\ ~run.approved => ~MissingTool(skill.spec, run.offer)
    /\ up /\ ~changed => \A t \in ToolsOf(skill.spec) :
         routes[t] # NoProvider \/ Default[t] # NoTool

=============================================================================
