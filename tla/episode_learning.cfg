SPECIFICATION Spec
CONSTANTS
    c1 = c1
    c2 = c2
    s1 = s1
    s2 = s2
    Episode = {e1}
    Server = {s1, s2}
    Client = {c1, c2}
    ServerOf <- MCServerOf
    TerminalStatus = {"SUCCESS", "FAILED"}
    GivenSequence = {2}
    StaleAfter = 1
    None = None
    MaxSequence = 2
    MaxTime = 3
    MaxFaults = 1
INVARIANTS
    ClosedAsRecorded
    LessonsComplete
    AppliedIsLearnt
PROPERTIES
    JobsApplied
CHECK_DEADLOCK FALSE
