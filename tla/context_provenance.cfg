SPECIFICATION Spec
CONSTANTS
    Experience = {"best", "long", "also"}
    Pattern = {"rule"}
    Episode = {ep}
    Builder = {b1, b2}
    Recorder = {r1, r2}
    Rank <- MCRank
    Grade <- MCGrade
    Evidence <- MCEvidence
    Weight <- MCWeight
    Trial = {"long"}
    Budget = 5
    Least = 1
    MaxExperiences = 2
    MaxPatterns = 1
    None = None
    MaxRequests = 2
    MaxSequence = 3
    MaxChanges = 3
    MaxFaults = 1
    MaxEvents = 3
    Covered = {"also"}
    ep = ep
    b1 = b1
    b2 = b2
    r1 = r1
    r2 = r2
SYMMETRY Either
INVARIANTS
    OppositesApart
    UseCountExact
    ProvenanceComplete
CHECK_DEADLOCK FALSE
