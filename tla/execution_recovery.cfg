\* One request and one recovery loop that may take over as often as two faults require.
CONSTANTS
  h1 = h1
  r1 = r1
  Runners = {h1}
  Recoverers = {r1}
  NSteps = 2
  Skills <- SafetySkills
  MaxAttempt = 5
  MaxEpoch = 5
  MaxFaults = 2
SPECIFICATION FairSpec
PROPERTIES
  RunningEnds
\* The execution ends.
CHECK_DEADLOCK FALSE
