CONSTANTS
    t1 = t1
    t2 = t2
    t3 = t3
    Memories = {1, 2, 3, 4}
    Transactions = {t1, t2}
    Kinds = {"create", "open", "close"}
    Detectors = {t2}
    Tokens <- WordsOf
    Serialized = TRUE
SPECIFICATION Spec
PROPERTIES
    ImplementsConflictRecords
INVARIANTS
    RestoredWhenClear
    MarkedWhileOpen
