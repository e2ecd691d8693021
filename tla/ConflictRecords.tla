--------------------------- MODULE ConflictRecords ---------------------------
(***************************************************************************)
(* What conflict records promise of the statuses of their memories: the    *)
(* abstract specification of ConflictTransactions.  Opening a conflict     *)
(* marks its active endpoints, closing it restores the conflicted ones     *)
(* that no other open conflict holds, and both happen in one step.         *)
(***************************************************************************)
CONSTANTS Memories, Pairs

VARIABLES
    record,     \* record[p]: "none", "open" or "closed"
    status      \* status[m]: "active" or "conflicted"

Init ==
    /\ record = [p \in Pairs |-> "none"]
    /\ status = [m \in Memories |-> "active"]

Held(m, records) == \E p \in Pairs : m \in p /\ records[p] = "open"

OpenConflict(p) ==
    /\ record' = [record EXCEPT ![p] = "open"]
    /\ status' = [m \in Memories |-> IF m \in p THEN "conflicted" ELSE status[m]]

CloseConflict(p) ==
    /\ record[p] # "none"
    /\ record' = [record EXCEPT ![p] = "closed"]
    /\ status' = [m \in Memories |->
                    IF record[p] = "open" /\ m \in p /\ ~Held(m, record') THEN "active"
                                                                         ELSE status[m]]

Next == \E p \in Pairs : OpenConflict(p) \/ CloseConflict(p)

Spec == Init /\ [][Next]_<<record, status>>
===============================================================================
