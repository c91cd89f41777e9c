\* Two replicas of the server, each with its recovery loop, and a plain skill whose tools
\* have the default capability.
CONSTANTS
  h1 = h1
  r1 = r1
  r2 = r2
  Runners = {h1}
  Recoverers = {r1, r2}
  NSteps = 2
  Skills <- PlainSkills
  MaxAttempt = 2
  MaxEpoch = 3
  MaxFaults = 1
SPECIFICATION Spec
SYMMETRY Replicas
INVARIANTS
  NonIdempotentAtMostOnce
CHECK_DEADLOCK FALSE
