\* Two feedbacks on one episode.
CONSTANTS
  Experiences = {"x", "y"}
  Patterns = {"p", "q"}
  Versions = {"v"}
  Members <- Generalised
  Given <- GivenTo
  Actions = {"a", "b"}
  ToolOf <- Tools
  Links <- SomeLinks
  Scores = {0, 1}
  Feedbacks = {f, g}
  Rows <- SomeRows
  Directs <- SomeDirects
  Whole = 6
  Full = 2
  MaxUsages = 2
  NoRow = NoRow
SPECIFICATION AttributionSpec
SYMMETRY KeysAlike
INVARIANTS
  WholeReward
  OnlyTheNamed
PROPERTY
  FollowsReward
\* An episode in which everything has been said.
CHECK_DEADLOCK FALSE
