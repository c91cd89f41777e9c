------------------------- MODULE MCSkillDefinition -------------------------
(* SkillDefinition with three tools, two of them built in, and skills of one or two steps. *)
EXTENDS SkillDefinition, TLC

Tool(risk, side, fields) ==
  [risk |-> risk, side |-> side, outputs |-> fields, declared |-> TRUE, needs |-> TRUE,
   restricted |-> FALSE, preview |-> IF side THEN "LOCAL" ELSE "DRY_RUN"]

\* The built-in catalog: a search, and something of HIGH risk.
BuiltIn == ("search" :> Tool("READ_ONLY", FALSE, {"key"})) @@ ("delete" :> Tool("HIGH", TRUE, {}))
             @@ ("create" :> NoTool)

Lists(f, strict) == [lists |-> f, fails |-> FALSE, strict |-> strict]

\* The simulator lists the built-in tools; an MCP server lists tools of its own, among them one of
\* a built-in name with other effects.
Simulator == Lists([t \in {"search", "delete"} |-> BuiltIn[t]], FALSE)
Server == Lists(("search" :> Hinted({"readOnly"}, {"key"}, TRUE, FALSE)) @@
                ("create" :> Hinted({}, {"key"}, TRUE, TRUE)), TRUE)
OtherServer == Lists(("search" :> Hinted({"destructive", "openWorld"}, {"key"}, FALSE, FALSE)) @@
                     ("create" :> Hinted({"idempotent"}, {}, TRUE, TRUE)), TRUE)
Broken == [lists |-> <<>>, fails |-> TRUE, strict |-> TRUE]

EverySetup == {<<Simulator>>, <<Server>>, <<OtherServer>>, <<Simulator, Server>>, <<Broken>>}

\* A first step of every kind, and a second one that refers to it.
When(op, path) == [op |-> op, path |-> path]
StepOf(id, tool, save, arg, when, continue) ==
  [id |-> id, tool |-> tool, save |-> save, arg |-> arg, when |-> when, continue |-> continue]
First == {StepOf("a", tool, save, arg, when, continue) :
            tool \in Tools, save \in {"s", "inputs"}, arg \in {<<"title">>, <<"r">>},
            when \in {NoWhen, When("is", <<"title">>)}, continue \in BOOLEAN}
Second == {StepOf(id, tool, save, arg, when, FALSE) :
             id \in {"a", "b"}, tool \in {"search", "delete"}, save \in {"s", "r"},
             arg \in {<<"s">>, <<"s", "key">>, <<"inputs", "title">>, <<"r">>},
             when \in {NoWhen, When("ne", <<"s", "key">>)}}
Odd == {StepOf("a", "search", "title", NoArg, When("exists", <<"title">>), FALSE),
        StepOf("a", "search", NoName, <<"title", "key">>, When("eq", <<"title">>), FALSE),
        StepOf("a", "create", NoName, <<"title", "key">>, When("eq", <<"title", "key">>), TRUE)}

\* Declared HIGH, the risk of the worst tool; understated for some.
SpecOf(steps) ==
  [steps |-> steps, maxSteps |-> 0, risk |-> "HIGH", requires |-> FALSE, pre |-> NoWhen]
Pairs == {SpecOf(<<f, g>>) : f \in First, g \in Second}
Understated == {[SpecOf(<<f, g>>) EXCEPT !.risk = "LOW"] :
                  f \in {x \in First : x.when = NoWhen /\ x.save = "s"},
                  g \in {x \in Second : x.when = NoWhen /\ x.arg = <<"s">>}}
Singles == {[steps |-> <<f>>, maxSteps |-> 1, risk |-> r, requires |-> q, pre |-> w] :
              f \in First \cup Odd, r \in Level \cup {NoLevel}, q \in BOOLEAN,
              w \in {NoWhen, When("exists", <<"title">>)}}
TooLong == {[SpecOf(<<f, f>>) EXCEPT !.maxSteps = 1] : f \in Odd}
EverySpec == Pairs \cup Understated \cup Singles \cup TooLong

EveryOffer == {Tools, {"search", "delete"}, {}}

=============================================================================
