SPECIFICATION EvolutionSpec
CONSTANTS
    Process = {p1}
    Operator = {o1}
    Generalizer = {p1, o1}
    Exp = {1, 2, 3, 4}
    Family = {f1}
    None = None
    FamilyOf <- MCFamilyOf
    EpisodesOf <- MCEpisodesOf
    Similar <- MCSimilar
    StatusAtFirst <- MCStatus
    UtilityAtFirst <- MCUtility
    ManualCluster <- MCManual
    Deprecable = {3}
    Conflicting <- MCConflicting
    MinExperiences = 3
    MinEpisodes = 3
    MinUtility = 7
    StaleAfter = 1
    BootGap = 2
    Batch = 1
    Rated = {4}
    RaisedTo = {8}
    MaxTime = 2
    MaxChanges = 2
    MaxFaults = 1
    MaxRequests = 1
INVARIANTS
    NoMarkForgotten
    EvidenceComplete
    PatternsDisjoint

    
CHECK_DEADLOCK FALSE
