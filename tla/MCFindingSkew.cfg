CONSTANTS
    t1 = t1
    t2 = t2
    t3 = t3
    Memories = {1, 2, 3}
    Transactions = {t1, t2}
    Kinds = {"create", "open", "close"}
    Detectors = {}
    Tokens <- WordsOf
    Serialized = FALSE
SPECIFICATION Spec
SYMMETRY TransactionSymmetry
INVARIANTS
    RestoredWhenClear
