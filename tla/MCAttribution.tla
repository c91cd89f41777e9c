--------------------------- MODULE MCAttribution ---------------------------
(* Attribution with two experiences, two patterns, a version, two actions and two feedbacks. *)
EXTENDS Attribution, TLC

Generalised == {<<"x", "p">>, <<"y", "p">>}
GivenTo == ("p" :> <<3, 4>>) @@ ("q" :> <<2, 5>>) @@ ("v" :> <<0, 1>>)
Tools == ("a" :> "tool") @@ ("b" :> "tool")

Link(x, a, influence, fields) ==
  [exp |-> x, action |-> a, influence |-> influence, fields |-> fields]

\* An influence that is denied, and counts in full, on a field; and one that is halved.
SomeLinks == {Link("x", "a", 0, {<<"input", "priority">>}), Link("y", "b", 1, {})}

Target(type, of, field) == [type |-> type, of |-> of, field |-> field]
Say(target, reward, confidence) ==
  [target |-> target, reward |-> reward, confidence |-> confidence]
SomeRows ==
  {Say(Target("EPISODE", NoRow, <<>>), 10, 10), Say(Target("EPISODE", NoRow, <<>>), -5, 10),
   Say(Target("ACTION", "a", <<>>), -10, 5),
   Say(Target("ACTION_FIELD", "a", <<"priority">>), 0, 10),
   Say(Target("TOOL", "tool", <<>>), 10, 10), Say(Target("EXPERIENCE", "x", <<>>), -8, 0),
   Say(Target("SKILL_EXECUTION", "v", <<>>), -10, 10)}

SomeDirects == {Say(Target("PATTERN", "q", <<>>), 30, 10)}

KeysAlike == Permutations(Feedbacks)

=============================================================================
