CONSTANTS
    t1 = t1
    t2 = t2
    t3 = t3
    Memories = {1, 2, 3}
    Transactions = {t1, t2, t3}
    Kinds = {"create", "close"}
    Detectors = {t1}
    Tokens <- WordsOf
    Serialized = FALSE
SPECIFICATION FairSpec
INVARIANTS
    NoWaitCycle
PROPERTIES
    EveryTransactionEnds
