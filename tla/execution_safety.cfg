\* Two requests with one key, one recovery loop, and two faults of any kind.
CONSTANTS
  h1 = h1
  h2 = h2
  r1 = r1
  Runners = {h1, h2}
  Recoverers = {r1}
  NSteps = 2
  Skills <- SafetySkills
  MaxAttempt = 3
  MaxEpoch = 3
  MaxFaults = 2
SPECIFICATION Spec
SYMMETRY Handlers
INVARIANTS
  TypeOK
  NonIdempotentAtMostOnce
  CursorIsSettled
  LedgerIsTruthful
  NoHiddenEffect
PROPERTIES
  EndIsFinal
  KeepsContract
\* The execution ends.
CHECK_DEADLOCK FALSE
