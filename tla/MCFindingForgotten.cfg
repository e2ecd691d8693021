CONSTANTS
    m1 = m1
    m2 = m2
    t1 = t1
    t2 = t2
    project = project
    private = private
    c1 = c1
    f1 = f1
    Null = Null
    Inline = Inline
    Memories = {m1}
    Texts = {t1, t2}
    AccessLevels = {project, private}
    Chunks = {c1}
    ForeignChunks = {f1}
    Requests = {1}
    Patches <- MCOverlapPatches
    NewMemories <- MCNewMemories
    Serialized = FALSE
    MaxAudit = 4
SPECIFICATION Spec
CHECK_DEADLOCK FALSE
INVARIANTS
    ForgottenNeverRetrieved
