CONSTANTS
    f1 = f1
    f2 = f2
    f3 = f3
    f4 = f4
    Null = Null
    NoPack = NoPack
    Messages = {}
    Sessions = {s1}
    Writers = {w1}
    BatchSize = 2
    MaxTime = 2
    ListLimits = {2}
    Answers <- OneAnswer
    Headings = 390
    Budgets <- OneBudget
    Paths = {f1, f2, f3, f4}
    ExcludedFiles = {f4}
    TextFiles = {f1, f3, f4}
    Changes <- ChangedPaths
    Hits <- HitPaths
    SnippetLimits = {0, 2}
    SearchItems = {0, 2}
    Rest = 250
SPECIFICATION FairSpec
CHECK_DEADLOCK FALSE
PROPERTIES
    EveryPackEnds
