CONSTANTS
    m1 = m1
    m2 = m2
    a1 = a1
    p1 = p1
    d1 = d1
    c1 = c1
    Null = Null
    Deleted = Deleted
    Memories = {m1, m2}
    Agents = {a1}
    Texts = {"hit", "miss"}
    Levels = {"project", "private"}
    InitialRows <- ActiveRows
    RoleOf <- AgentRoles
    Policies = {p1}
    PolicyRequests = {}
    MaxChanges = 2
    Documents = {d1}
    Chunks = {c1}
    DocOf <- ChunkDocument
    BackfillLimit = 2
    MaxAttempts = 2
    Evidence <- EvidencePairs
    Importance <- MemoryImportance
    HitTexts = {"hit"}
    HitChunks = {c1}
    SimilarTexts = {"hit"}
    SimilarChunks = {c1}
    FtsScore <- FtsScores
    Likeness <- WordSimilarity
    SearchLimit = 3
    Limit = 3
    VectorLimit = 3
SPECIFICATION Spec
CHECK_DEADLOCK FALSE
PROPERTIES
    OutOfWindowNeverCandidate
