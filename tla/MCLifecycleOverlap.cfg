CONSTANTS
    m1 = m1
    m2 = m2
    t1 = t1
    t2 = t2
    project = project
    private = private
    c1 = c1
    f1 = f1
    Null = Null
    Inline = Inline
    Memories = {m1, m2}
    Texts = {t1, t2}
    AccessLevels = {project, private}
    Chunks = {c1}
    ForeignChunks = {f1}
    Requests = {1, 2}
    Patches <- MCOverlapPatches
    NewMemories <- MCNewMemories
    Serialized = FALSE
    MaxAudit = 3
SPECIFICATION Spec
SYMMETRY MemorySymmetry
CHECK_DEADLOCK FALSE
INVARIANTS
    TypeOK
    RevisionHistory
    AuditTrail
    SupersessionSound
PROPERTIES
    EveryChangeEvidenced
