SPECIFICATION Spec
CONSTANTS
    Pipeline = {p1, p2}
    Episode = {"a", "b", "c"}
    Statement <- MCStatement
    Judge <- MCJudge
    Candidates <- MCCandidates
    ActiveMin = 2
    CandidateMin = 1
    Margin = 2
    MaxLevel = 3
    MaxAttempts = 2
    None = None
    MaxRows = 3
    MaxRuns = 3
    MaxRatings = 1
    MaxOperations = 1
    MaxFaults = 1
SYMMETRY Either
INVARIANTS
    UpdatesKept
    
    
    LosersAnswered
CHECK_DEADLOCK FALSE
