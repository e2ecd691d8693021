CONSTANTS
    d1 = d1
    d2 = d2
    Null = Null
    MaxChars = 3
    OverlapLines = 1
    Documents = {d1, d2}
    Memories = {m1, m2, m3, m4, m5, m6}
    Texts <- TwoTexts
    Statements = {"a", "b"}
    Answers <- LongAnswers
    Cut <- Beginnings
    Says <- ChunkStatements
    Notes = {"b"}
    Requests <- OneOrTwoChunks
    MaxLines = 4
    Imports = {i1, i2}
    Runs = {r1, r2}
    Replies <- ModelReplies
    MaxCandidates = 2
SPECIFICATION Spec
CHECK_DEADLOCK FALSE
INVARIANTS
    CandidateTextsDistinct
