\* Two clients submit one feedback that credits two experiences, the first of which has a
\* pattern, and a pattern that was in the context; one call fails and one submission crashes.
CONSTANTS
  c1 = c1
  c2 = c2
  x1 = x1
  x2 = x2
  p1 = p1
  p2 = p2
  Nobody = Nobody
  Callers = {c1, c2}
  Experiences = {x1, x2}
  Patterns = {p1, p2}
  Members <- TwoMembers
  InContext = {p2}
  MaxFailures = 1
  MaxCrashes = 1
SPECIFICATION FairSpec
INVARIANTS
  LedgersAgree
  OnceUnlessFailed
  CreditedOneWay
  AnsweredMeansLearned
PROPERTIES
  Redriven
\* Every submission is answered.
CHECK_DEADLOCK FALSE
