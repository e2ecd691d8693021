CONSTANTS
    f1 = f1
    f2 = f2
    f3 = f3
    f4 = f4
    Null = Null
    NoPack = NoPack
    Messages = {x, y, z}
    Sessions = {s1}
    Writers = {w1, w2}
    BatchSize = 2
    MaxTime = 2
    ListLimits = {2}
    Answers <- SmallAnswers
    Headings = 390
    Budgets <- SomeBudgets
    Paths = {f1, f2, f3, f4}
    ExcludedFiles = {f4}
    TextFiles = {f1, f3, f4}
    Changes <- ChangedPaths
    Hits <- HitPaths
    SnippetLimits = {0, 2}
    SearchItems = {2}
    Rest = 250
SPECIFICATION FairSpec
CHECK_DEADLOCK FALSE
INVARIANTS
    RecentInOrder
    LargestFittingPack
    SnippetsChosen
PROPERTIES
    EveryContextEnds
