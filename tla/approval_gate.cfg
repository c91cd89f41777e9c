\* Two requests, two resume requests, an approver, a rejecter and a recovery loop, and one fault.
CONSTANTS
  q1 = q1
  q2 = q2
  u1 = u1
  u2 = u2
  a1 = a1
  j1 = j1
  r1 = r1
  Requesters = {q1, q2}
  Resumers = {u1, u2}
  Approvers = {a1}
  Rejecters = {j1}
  Runners = {q1, q2, u1, u2, a1, j1}
  Recoverers = {r1}
  Risks <- EveryVerdict
  AllowMedium = FALSE
  NSteps = 1
  Skills <- AnySkill
  MaxAttempt = 2
  MaxEpoch = 2
  MaxFaults = 1
SPECIFICATION ApprovalSpec
SYMMETRY Interchangeable
INVARIANTS
  NothingRunsUnapproved
PROPERTIES
  QuietEndIsFinal
\* Every request is answered.
CHECK_DEADLOCK FALSE
