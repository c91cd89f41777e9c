---------------------------- MODULE Attribution ----------------------------
(***************************************************************************)
(* How much each experience, pattern and skill version learns from a       *)
(* feedback, and what that does to its utility.                            *)
(*                                                                         *)
(* Contexts leave usages of experiences and patterns in an episode, agents *)
(* record actions and link experiences to them.  A feedback has a target:  *)
(* on the whole episode it is shared among the used experiences by their   *)
(* scores, and among the patterns shown; on an action, a field of it, a    *)
(* tool or an experience it is kept to those with evidence.  Every share   *)
(* becomes a learning event that moves a Beta count.  A repeated feedback  *)
(* reads usages and links anew.                                            *)
(*                                                                         *)
(* A feedback is worked through in one step here; its interleavings,       *)
(* failures and crashes are in FeedbackLearning.                           *)
(***************************************************************************)
EXTENDS Integers, Sequences, FiniteSetsExt

CONSTANTS
  Experiences, Patterns, Versions,
  Members,      \* <<x, p>>: pattern p generalises experience x
  Given,        \* the utility a pattern or a version is created with: <<n, d>>, n of d
  Actions,      \* actions the agent may record
  ToolOf,       \* the tool of an action
  Links,        \* links that may be made: experience, action, influence, affected fields
  Scores,       \* final scores of usages (or retrieval scores, when there is none)
  Feedbacks,    \* idempotency keys
  Rows,         \* what a feedback may say: target, reward, confidence
  Directs,      \* what a reward given to a pattern itself may say
  Whole,        \* a credit of 1; every share must be a whole number of it
  Full,         \* an influence of 1
  MaxUsages,    \* bound: usage rows of experiences
  NoRow         \* no feedback

\* Rewards and confidences count in tenths, a Beta count of 1 is Unit.
Unit == 100 * Whole

Artifacts == Experiences \cup Patterns \cup Versions

\* A feedback on an ACTION, ACTION_FIELD, TOOL, EXPERIENCE, SKILL_EXECUTION or on the EPISODE. A
\* field is a path, a sequence of names.
Types == {"EPISODE", "ACTION", "ACTION_FIELD", "TOOL", "EXPERIENCE", "SKILL_EXECUTION"}
Evidenced == {"ACTION", "ACTION_FIELD", "TOOL"}

\* Where a learning event comes from: an experience learns by its credit, a pattern by a member or
\* by its usage.
Credit == "CREDIT"
Usage == "PATTERN_USAGE"
Skill == "SKILL"
Direct == "DIRECT"

\* An influence of 0 counts as a full one.
Influence(l) == IF l.influence = 0 THEN Full ELSE l.influence

\* The weights of the experiences that are linked: the sums of their influences.
Weights(ls) ==
  LET Of(x) == {l \in ls : l.exp = x}
  IN [x \in {l.exp : l \in ls} |-> SumFunction([l \in Of(x) |-> Influence(l)])]

\* normalizeInfluenceCredits: the share of each in proportion to its weight.
InProportion(weight) ==
  LET total == SumFunction(weight) IN [x \in DOMAIN weight |-> (weight[x] * Whole) \div total]

\* The score of a pattern that is shown; 0 counts as 1.
PatternScore(score) == IF score = 0 THEN 1 ELSE score

ASSUME AttributionAssumption ==
  /\ \A S \in {Experiences, Patterns, Versions} : IsFiniteSet(S)
  /\ Members \subseteq Experiences \X Patterns
  /\ {Credit, Usage, Skill, Direct} \cap Experiences = {}
  /\ \A a \in Patterns \cup Versions : Given[a] \in Nat \X (Nat \ {0}) /\ Given[a][1] <= Given[a][2]
  /\ Scores \subseteq Nat /\ Whole \in Nat \ {0} /\ Full \in Nat \ {0} /\ MaxUsages \in Nat
  /\ \A l \in Links : l.influence \in 0..Full
  /\ \A fb \in Rows : /\ fb.target.type \in Types
                      /\ fb.reward \in -10..10 /\ fb.confidence \in 0..10
  /\ \A fb \in Directs : /\ fb.target.type = "PATTERN" /\ fb.target.of \in Patterns
                         /\ fb.reward \in Int /\ fb.confidence \in 0..10
  /\ NoRow \notin Rows \cup Directs

\* The units are fine enough for every share and for every seed to be a whole number of them. (In
\* the code they are fractions.)
Divides(m, n) == n % m = 0
SharesWell(weight) ==
  SumFunction(weight) > 0 =>
    \A x \in DOMAIN weight : Divides(SumFunction(weight), weight[x] * Whole)

ASSUME WholeAssumption ==
  /\ \A n \in 1..MaxUsages :
       Divides(n, Whole) /\ \A score \in [1..n -> Scores] : SharesWell(score)
  /\ \A ls \in SUBSET Links : SharesWell(Weights(ls))
  /\ \A S \in SUBSET Patterns : \A score \in [S -> Scores] :
       SharesWell([p \in S |-> PatternScore(score[p])])
  /\ \A a \in Patterns \cup Versions :
       LET n == Given[a][1]
           rest == Given[a][2] - n
       IN n > 0 /\ rest > 0 =>
            IF n >= rest THEN Divides(rest, Unit * n) ELSE Divides(n, Unit * rest)

VARIABLES
  used,      \* experience_usages of the episode, as they were created
  shown,     \* pattern_usages: the sum of a pattern's scores, 0 if it was not shown
  done,      \* actions recorded
  links,     \* experience_action_links
  row,       \* feedbacks, and what a direct reward said
  ledger,    \* learning_events and pattern_learning_events of a feedback: the reward of each
  revisited, \* feedbacks from which a repetition learnt more
  alpha, beta, utility, wins, losses,   \* of every artifact
  active     \* patterns that are ACTIVE, no longer CANDIDATE

episode  == <<used, shown, done, links>>
learnt   == <<ledger, revisited, alpha, beta, utility, wins, losses, active>>
attributionVars == <<episode, row, learnt>>

(* Faulty: the halves of the scale are mixed up. *)
SeedSwapped(n, d) ==
  CASE n = 0 -> <<Unit, 9 * Unit>> [] n = d -> <<9 * Unit, Unit>>
    [] 0 < n /\ n < d /\ 2 * n >= d -> <<Unit, (Unit * n) \div (d - n)>>
    [] 0 < n /\ 2 * n < d -> <<(Unit * (d - n)) \div n, Unit>>

\* SeedBetaFromUtility: the counts whose mean is n of d, but at the ends of the scale.
SeedBetaFromUtility(n, d) ==
  CASE n = 0 -> <<Unit, 9 * Unit>> [] n = d -> <<9 * Unit, Unit>>
    [] 0 < n /\ n < d /\ 2 * n >= d -> <<(Unit * n) \div (d - n), Unit>>
    [] 0 < n /\ 2 * n < d -> <<Unit, (Unit * (d - n)) \div n>>

\* An experience starts with one of each.
Seed(a) ==
  IF a \in Experiences THEN <<Unit, Unit>> ELSE SeedBetaFromUtility(Given[a][1], Given[a][2])

AttributionInit ==
  /\ used = <<>> /\ shown = [p \in Patterns |-> 0]
  /\ done = {} /\ links = {}
  /\ row = [f \in Feedbacks |-> NoRow]
  /\ ledger = [f \in Feedbacks |-> <<>>] /\ revisited = {}
  /\ alpha = [a \in Artifacts |-> Seed(a)[1]]
  /\ beta = [a \in Artifacts |-> Seed(a)[2]]
  /\ utility = [a \in Artifacts |-> IF a \in Experiences THEN <<1, 2>> ELSE Given[a]]
  /\ wins = [a \in Artifacts |-> 0] /\ losses = [a \in Artifacts |-> 0]
  /\ active = {}

-----------------------------------------------------------------------------
(* What happens in the episode. *)

\* A context shows an experience: another usage row, even if it was shown before.
Use(x, score) ==
  /\ Len(used) < MaxUsages
  /\ used' = Append(used, [exp |-> x, score |-> score])
  /\ UNCHANGED <<shown, done, links, row, learnt>>

\* A context shows a pattern; a score of 0 counts as 1. (A pattern is shown once here.)
Show(p, score) ==
  /\ shown[p] = 0
  /\ shown' = [shown EXCEPT ![p] = PatternScore(score)]
  /\ UNCHANGED <<used, done, links, row, learnt>>

RecordAction(a) ==
  /\ a \notin done
  /\ done' = done \cup {a}
  /\ UNCHANGED <<used, shown, links, row, learnt>>

\* LinkExperience: one link of an experience to an action; the experience need not be a used one.
LinkExperience(l) ==
  /\ l.action \in done
  /\ \A k \in links : <<k.exp, k.action>> # <<l.exp, l.action>>
  /\ links' = links \cup {l}
  /\ UNCHANGED <<used, shown, done, row, learnt>>

-----------------------------------------------------------------------------
(* Attribution. *)

UsedOnes == {used[i].exp : i \in DOMAIN used}
FirstUse(x) == Min({i \in DOMAIN used : used[i].exp = x})

\* attributeByScores: a share for every usage row. Rows of one experience make events of one key:
\* the first one stands, the shares of the others are nobody's.
ByScores ==
  LET n == Len(used)
      score == [i \in 1..n |-> used[i].score]
      share == IF n = 1 \/ SumFunction(score) = 0
               THEN [i \in 1..n |-> Whole \div n] ELSE InProportion(score)
  IN [x \in UsedOnes |-> share[FirstUse(x)]]

\* FieldPathMatches: the last names are equal. (So are they when the paths are, or when one ends
\* with the other.)
FieldPathMatches(field, affected) ==
  field # <<>> /\ \E g \in affected : g # <<>> /\ g[Len(g)] = field[Len(field)]

\* The links a precise target is about; the tool of a link is that of its action.
Evidence(t) ==
  {l \in links : CASE t.type = "ACTION" -> l.action = t.of
                   [] t.type = "ACTION_FIELD" ->
                        l.action = t.of /\ FieldPathMatches(t.field, l.fields)
                   [] t.type = "TOOL" -> ToolOf[l.action] = t.of}

(* Faulty: the influence of experiences that were not used is in the sum. *)
ByLinksUnused(t) ==
  LET share == InProportion(Weights(Evidence(t)))
  IN [x \in DOMAIN share \cap UsedOnes |-> share[x]]

\* creditByAction: the used experiences that are linked share by their influence.
ByLinks(t) == InProportion(Weights({l \in Evidence(t) : l.exp \in UsedOnes}))

(* Faulty: without evidence the reward is shared as if it were the episode's. *)
AttributeAnyway(t) ==
  CASE t.type \in Evidenced -> IF DOMAIN ByLinks(t) = {} THEN ByScores ELSE ByLinks(t)
    [] t.type = "EXPERIENCE" -> [x \in UsedOnes \cap {t.of} |-> Whole]
    [] t.type = "EPISODE" -> ByScores

\* Targeted.Attribute: a precise target without evidence gives no credit.
Attribute(t) ==
  CASE t.type \in Evidenced -> ByLinks(t)
    [] t.type = "EXPERIENCE" -> [x \in UsedOnes \cap {t.of} |-> Whole]
    [] t.type = "EPISODE" -> ByScores

-----------------------------------------------------------------------------
(* Learning events. *)

\* The experiences that have an event of feedback f; a repetition takes these for the credits.
Credited(f) == {x \in Experiences : <<Credit, x>> \in DOMAIN ledger[f]}

Shown == {p \in Patterns : shown[p] > 0}

\* No usage at all: nothing is learnt, and nothing is tried again.
Unused(t) == used = <<>> /\ ~(t.type = "EPISODE" /\ Shown # {})

CreditEvents(f, t, r) ==
  IF Credited(f) # {} THEN [x \in Credited(f) |-> ledger[f][<<Credit, x>>]]
  ELSE LET c == Attribute(t) IN [x \in DOMAIN c |-> r * c[x]]

\* enqueueMemberPatternEvents: patterns that an episode-level feedback credits by their usage are
\* passed over.
MemberEvents(t, credits) ==
  [m \in {m \in Members : /\ m[1] \in DOMAIN credits
                          /\ ~(t.type = "EPISODE" /\ m[2] \in Shown)} |-> credits[m[1]]]

\* enqueuePatternUsageEvents.
UsageEvents(t, r) ==
  LET share == InProportion([p \in Shown |-> shown[p]])
  IN [k \in IF t.type = "EPISODE" THEN {Usage} \X Shown ELSE {} |-> r * share[k[2]]]

\* applySkillFeedback: the version learns the whole reward.
SkillEvents(t, r) == [k \in {<<Skill, t.of>>} |-> r * Whole]

\* ApplyDirectPatternReward: nothing keeps the reward within -1 and 1.
DirectEvents(t, r) == [k \in {<<Direct, t.of>>} |-> r * Whole]

\* f, and what g has besides.
Merged(f, g) ==
  [k \in DOMAIN f \cup DOMAIN g |-> IF k \in DOMAIN f THEN f[k] ELSE g[k]]

\* All events of the feedback, those it has already among them.
Events(f, t, r) ==
  IF t.type = "SKILL_EXECUTION" THEN SkillEvents(t, r)
  ELSE IF t.type = "PATTERN" THEN DirectEvents(t, r)
  ELSE IF Credited(f) = {} /\ Unused(t) THEN <<>>
  ELSE LET credits == CreditEvents(f, t, r)
           ofCredits == [k \in {Credit} \X DOMAIN credits |-> credits[k[2]]]
       IN Merged(ofCredits, Merged(MemberEvents(t, credits), UsageEvents(t, r)))

\* The unique keys of the ledgers: an event that exists stays as it is.
New(f, events) == [k \in DOMAIN events \ DOMAIN ledger[f] |-> events[k]]

\* ApplyBetaUpdate, of every new event: a reward that is not negative is a success and adds to
\* alpha, another one is a failure and adds to beta.
ApplyBetaUpdate(news, c) ==
  LET Of(a) == {k \in DOMAIN news : k[2] = a}
      Good(a) == {k \in Of(a) : news[k] >= 0}
      Effect(S) == SumFunction([k \in S |-> news[k] * c])
      touched == {a \in Artifacts : Of(a) # {}}
  IN
  /\ alpha' = [a \in Artifacts |-> alpha[a] + Effect(Good(a))]
  /\ beta' = [a \in Artifacts |-> beta[a] - Effect(Of(a) \ Good(a))]
  /\ wins' = [a \in Artifacts |-> wins[a] + Cardinality(Good(a))]
  /\ losses' = [a \in Artifacts |-> losses[a] + Cardinality(Of(a) \ Good(a))]
  /\ utility' = [a \in Artifacts |->
       IF a \in touched THEN <<alpha'[a], alpha'[a] + beta'[a]>> ELSE utility[a]]

\* MaybePromotePattern: a utility of 3/4 and two successes.
Proven(n, d, w) == 4 * n >= 3 * d /\ w >= 2

\* After each of its events a pattern may be promoted: before a loss that comes last, or not.
Promote(news) ==
  LET touched == {p \in Patterns : \E k \in DOMAIN news : k[2] = p}
      now == {p \in touched : Proven(alpha'[p], alpha'[p] + beta'[p], wins'[p])}
      before == {p \in touched : Proven(alpha'[p], alpha'[p] + beta[p], wins'[p])}
  IN \E late \in SUBSET (before \ now) : active' = active \cup now \cup late

\* ApplyFeedbackReward.
Learn(f, fb) ==
  LET news == New(f, Events(f, fb.target, fb.reward)) IN
  /\ ledger' = [ledger EXCEPT ![f] = Merged(@, news)]
  /\ ApplyBetaUpdate(news, fb.confidence)
  /\ Promote(news)

\* Aggregate fails when no feedback of the episode has any weight; nothing is learnt then.
Weighted ==
  \E f \in Feedbacks : row'[f] \in Rows /\ row'[f].confidence > 0

\* ValidateTarget, verifyTargetAction: the action was recorded, the version is known.
Accepted(t) == /\ t.type \in {"ACTION", "ACTION_FIELD"} => t.of \in done
               /\ t.type = "SKILL_EXECUTION" => t.of \in Versions

\* Submit: the feedback is stored, and then learnt from.
Submit(f, fb) ==
  /\ row[f] = NoRow
  /\ Accepted(fb.target)
  /\ row' = [row EXCEPT ![f] = fb]
  /\ IF Weighted THEN Learn(f, fb) /\ UNCHANGED revisited ELSE UNCHANGED learnt
  /\ UNCHANGED episode

\* A pattern is rewarded by itself, once per key.
RewardPattern(f, fb) ==
  /\ row[f] = NoRow
  /\ row' = [row EXCEPT ![f] = fb]
  /\ Learn(f, fb)
  /\ UNCHANGED <<episode, revisited>>

\* The key is submitted again: the stored feedback is learnt from, with what the episode has now.
Replay(f) ==
  /\ row[f] # NoRow
  /\ UNCHANGED <<episode, row>>
  /\ IF Weighted \/ row[f] \in Directs
     THEN /\ Learn(f, row[f])
          /\ revisited' = IF ledger' = ledger THEN revisited ELSE revisited \cup {f}
     ELSE UNCHANGED learnt

AttributionNext ==
  \/ \E x \in Experiences, score \in Scores : Use(x, score)
  \/ \E p \in Patterns, score \in Scores : Show(p, score)
  \/ \E a \in Actions : RecordAction(a)
  \/ \E l \in Links : LinkExperience(l)
  \/ \E f \in Feedbacks, fb \in Rows : Submit(f, fb)
  \/ \E f \in Feedbacks, fb \in Directs : RewardPattern(f, fb)
  \/ \E f \in Feedbacks : Replay(f)

AttributionSpec == AttributionInit /\ [][AttributionNext]_attributionVars

-----------------------------------------------------------------------------
(* What must hold. *)

\* The credits of a feedback sum to its reward, or there are none (score.go:74, types.go:38): what
\* a feedback on the episode teaches all experiences together, and what one on an action teaches
\* the linked ones, is the reward itself; so are the lessons of the patterns shown. Excused: an
\* experience that two contexts showed (learning/service.go:765), a feedback learnt from twice.
Taught(f, source, S) ==
  SumFunction([a \in {a \in S : <<source, a>> \in DOMAIN ledger[f]} |-> ledger[f][<<source, a>>]])

WholeReward ==
  \A f \in Feedbacks :
    row[f] # NoRow =>
      /\ Credited(f) # {} /\ Cardinality(UsedOnes) = Len(used) =>
           Taught(f, Credit, Experiences) = row[f].reward * Whole
      /\ (\E p \in Patterns : <<Usage, p>> \in DOMAIN ledger[f]) /\ f \notin revisited =>
           Taught(f, Usage, Patterns) = row[f].reward * Whole

\* A feedback with a precise target teaches nobody else (targeted.go:9, domain-model.md:193): only
\* a used experience that is named, or linked to the very action or tool, and only patterns that
\* generalise such a one.
OnlyTheNamed ==
  \A f \in Feedbacks : row[f] # NoRow /\ row[f].target.type # "EPISODE" =>
    LET t == row[f].target IN
    \A k \in DOMAIN ledger[f] :
      \/ k[1] \in {Skill, Direct} /\ t.type \in {"SKILL_EXECUTION", "PATTERN"} /\ k[2] = t.of
      \/ k[1] \in Credited(f) /\ k \in Members
      \/ /\ k[1] = Credit /\ k[2] \in UsedOnes
         /\ \/ k[2] = t.of
            \/ \E l \in links : l.exp = k[2] /\ t.of \in {l.action, ToolOf[l.action]}

\* A utility goes up by a success and down by a failure alone (utility.go:37, pattern_utility.go:43),
\* whatever a pattern or a version was seeded with, unless with 0 or 1.
Extreme(a) == utility[a][1] \in {0, utility[a][2]}
FollowsReward ==
  [][\A a \in Artifacts : ~Extreme(a) =>
       LET before == utility[a][1] * utility'[a][2]
           after == utility'[a][1] * utility[a][2]
       IN /\ after > before => wins'[a] > wins[a]
          /\ after < before => losses'[a] > losses[a]]_attributionVars

=============================================================================
