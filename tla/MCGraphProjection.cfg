CONSTANTS
    m1 = m1
    m2 = m2
    a1 = a1
    a2 = a2
    p1 = p1
    p2 = p2
    o1 = o1
    w = w
    u1 = u1
    u2 = u2
    y1 = y1
    y2 = y2
    Null = Null
    Deleted = Deleted
    Memories = {m1, m2}
    Agents = {a1, a2}
    Texts = {"old", "new"}
    Levels = {"project", "private"}
    InitialRows <- ProjectRows
    RoleOf <- AgentRoles
    Policies = {p1, p2}
    PolicyRequests = {u1, u2}
    MaxChanges = 3
    Others = {o1}
    Workspace = w
    NodeLimit = 1
    Syncs = {y1, y2}
SPECIFICATION ProjectionSpec
SYMMETRY Symmetry
CHECK_DEADLOCK FALSE
INVARIANTS
    AuditShowsPolicy
    LastSyncHolds
PROPERTIES
    OnlyGivenFieldsChange
    HiddenNeverShown
