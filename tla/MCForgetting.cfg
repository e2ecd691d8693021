CONSTANTS
    m1 = m1
    m2 = m2
    s1 = s1
    s2 = s2
    q1 = q1
    q2 = q2
    e1 = e1
    e2 = e2
    p1 = p1
    p2 = p2
    Null = Null
    Torn = Torn
    Memories = {m1}
    Changing = {m1}
    Slugs = {s1}
    Requests = {q1}
    Exports = {e1}
    Patches = {p1}
    MaxVersion = 1
    MaxRevision = 2
SPECIFICATION Spec
SYMMETRY Symmetry
CHECK_DEADLOCK FALSE
PROPERTIES
    OnlyOverlapLosesTheMark
    OnlyOverlapUndoesForgetting
    ApprovalVerified
