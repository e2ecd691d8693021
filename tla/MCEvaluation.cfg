SPECIFICATION Spec
CONSTANTS
    Null = Null
    c1 = c1
    c2 = c2
    k1 = k1
    Dataset <- MCDataset
    Turns <- MCTurns
    Configs <- MCConfigs
    BatchSize = 2
    Candidates = {0, 2}
    MaxRows = 7
    MaxStarts = 2
    MaxKills = 1
    Attempts = 2
    MaxJudges = 2
INVARIANTS
    LiveHoldsLocal
    LeftoversExplained
    EachCaseOnce
    VerdictsKept
CHECK_DEADLOCK FALSE
