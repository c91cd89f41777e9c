\* One request at a time changes versions, while executions and feedback go on.
CONSTANTS
  o1 = o1
  e1 = e1
  f1 = f1
  k1 = k1
  k2 = k2
  MaxVersion = 2
  Operators = {o1}
  Executors = {e1}
  Reporters = {f1}
  Keys = {k1, k2}
  NoKey = NoKey
  ShadowMin = 2
  ShadowRate = 90
  SuspendWindow = 1
  SuspendRate = 30
  MaxShadow = 2
  MaxOutcomes = 1
SPECIFICATION Spec
SYMMETRY Alike
INVARIANTS
  LiveIsVetted
  OfferedIsActive
  
CHECK_DEADLOCK FALSE
