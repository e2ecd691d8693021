------------------------- MODULE ConflictTransactions -------------------------
(***************************************************************************)
(* create_conflict and update_conflict statement by statement, as          *)
(* PostgreSQL runs them at READ COMMITTED: the row of conflict_record is   *)
(* written first, its AFTER trigger then walks the two endpoint memories,  *)
(* and everything becomes visible at COMMIT.                               *)
(*                                                                         *)
(* A statement sees what its own transaction wrote and what others have    *)
(* committed when it starts.  A written row stays locked until its         *)
(* transaction ends, and a statement that wants to write a locked row      *)
(* waits, then looks at the row again.  A row that a WHERE clause does not *)
(* match is neither locked nor waited for.                                 *)
(*                                                                         *)
(* MemoryLifecycle takes each of these transactions as one step; this      *)
(* module shows what that leaves out.  Memories here are active or         *)
(* conflicted: the triggers do not touch a memory in another status.       *)
(***************************************************************************)
EXTENDS Naturals, FiniteSets, Sequences

CONSTANTS
    Memories,       \* memory ids, ordered as UUIDs are
    Transactions,   \* concurrent requests
    Kinds,          \* the kinds of request clients send, some of RequestKinds
    Detectors,      \* transactions that run conflict detections, the others run single requests
    Tokens,         \* Tokens[m]: the words of m's text
    Serialized      \* TRUE: clients never overlap two requests

RequestKinds == {"create", "open", "close"}

ASSUME MemoriesAssumption == Memories \subseteq Nat /\ IsFiniteSet(Memories)
ASSUME DetectorsAssumption == Detectors \subseteq Transactions
ASSUME TokensAssumption == \A m \in Memories : IsFiniteSet(Tokens[m]) /\ Tokens[m] # {}
ASSUME KindsAssumption == Kinds \subseteq RequestKinds /\ Serialized \in BOOLEAN

VARIABLES
    record,     \* record[p]: committed status of the conflict of pair p
    status,     \* status[m]: committed status of memory m
    tx,         \* tx[t]: the transaction in flight for t, or Idle
    scan        \* scan[t]: the pairs that the detection run by t has left

vars == <<record, status, tx, scan>>

Pairs == {p \in SUBSET Memories : Cardinality(p) = 2}

RecordStatuses == {"none", "open", "closed"}
MemoryStatuses == {"active", "conflicted"}
Steps == {"write_record", "mark", "check", "restore", "commit"}

Idle == [at |-> "idle"]

TransactionType ==
    [at: Steps, kind: RequestKinds, pair: Pairs,
     wrote: BOOLEAN,                                \* conflict_record row written and locked
     side: 1 .. 2,                                  \* endpoint the trigger has come to
     writes: [Memories -> MemoryStatuses \cup {"none"}]]   \* memory rows written and locked

TypeOK ==
    /\ record \in [Pairs -> RecordStatuses]
    /\ status \in [Memories -> MemoryStatuses]
    /\ tx \in [Transactions -> TransactionType \cup {Idle}]
    /\ scan \in [Transactions -> SUBSET Pairs]

Init ==
    /\ record = [p \in Pairs |-> "none"]
    /\ status = [m \in Memories |-> "active"]
    /\ tx = [t \in Transactions |-> Idle]
    /\ scan = [t \in Transactions |-> {}]

InFlight == {t \in Transactions : tx[t] # Idle}
Detecting == {t \in Transactions : scan[t] # {}}

-------------------------------------------------------------------------------
(* Visibility and locks. *)

Target(x) == IF x.kind = "close" THEN "closed" ELSE "open"

SeenRecord(x, p) == IF x.wrote /\ x.pair = p THEN Target(x) ELSE record[p]
SeenStatus(x, m) == IF x.writes[m] # "none" THEN x.writes[m] ELSE status[m]

RecordHolders(p) == {u \in InFlight : tx[u].pair = p /\ tx[u].wrote}
MemoryHolders(m) == {u \in InFlight : tx[u].writes[m] # "none"}

\* Fault: the endpoints come in no order that all pairs share.
EndpointsUnordered(p) ==
    CHOOSE s \in p \X p : s[1] # s[2] /\ (s[2] = s[1] + 1 \/ s[1] > s[2] + 1)

\* _normalize_memory_pair and CHECK (left_memory_id < right_memory_id): the trigger
\* comes to left_memory_id first.
Endpoints(p) == CHOOSE s \in p \X p : s[1] < s[2]

Endpoint(x) == Endpoints(x.pair)[x.side]

\* fn_memory_has_open_conflict, with the records the statement sees.
HasOpenConflict(x, m) == \E p \in Pairs : m \in p /\ SeenRecord(x, p) = "open"

-------------------------------------------------------------------------------
(* The statements. *)

MayBegin(t) == t \notin InFlight \cup Detecting /\ (Serialized => InFlight \cup Detecting = {})

Started(kind, p) ==
    [at |-> "write_record", kind |-> kind, pair |-> p, wrote |-> FALSE, side |-> 1,
     writes |-> [m \in Memories |-> "none"]]

\* The look-up at the start of the handler: a missing or an existing record ends the
\* request there.
Begin(t, kind, p) ==
    /\ t \notin Detectors
    /\ MayBegin(t)
    /\ (kind = "create") <=> (record[p] = "none")
    /\ tx' = [tx EXCEPT ![t] = Started(kind, p)]
    /\ UNCHANGED <<record, status, scan>>

\* _token_overlap is 0.45 or more: of the words of m, or of those of n if they are fewer.
Overlap(m, n) ==
    LET shared == 100 * Cardinality(Tokens[m] \cap Tokens[n]) IN
    shared >= 45 * Cardinality(Tokens[m]) \/ shared >= 45 * Cardinality(Tokens[n])

\* _detect_conflict_type has a type for the pair, whichever it is; equal texts overlap.
Alike(p) == \A m, n \in p : Overlap(m, n)

\* detect_memory_conflicts reads the memories that are not retired, up to 50, in a
\* transaction of its own.
Detect(t, target) ==
    /\ t \in Detectors
    /\ MayBegin(t)
    /\ scan' = [scan EXCEPT ![t] =
                    {p \in Pairs : target \in p /\ Alike(p) /\ \A m \in p \ {target} : status[m] = "active"}]
    /\ UNCHANGED <<record, status, tx>>

\* One turn of its loop, in the order of updated_at: create_conflict for a pair, whose
\* memories may have changed since; a pair with a record is passed over.
DetectNext(t, p) ==
    /\ tx[t] = Idle
    /\ p \in scan[t]
    /\ scan' = [scan EXCEPT ![t] = @ \ {p}]
    /\ tx' = IF record[p] = "none" THEN [tx EXCEPT ![t] = Started("create", p)] ELSE tx
    /\ UNCHANGED <<record, status>>

\* Fault: closing a conflict restores nothing.
TriggerBranchOpenOnly(kind, old) == IF kind # "close" THEN "mark" ELSE "commit"

\* The branch of fn_conflict_after_insert or fn_conflict_after_update, on OLD.status.
TriggerBranch(kind, old) ==
    IF kind # "close" THEN "mark"
    ELSE IF old = "open" THEN "check" ELSE "commit"

\* The request fails, and with it the detection it is part of.
End(t) == tx' = [tx EXCEPT ![t] = Idle] /\ scan' = [scan EXCEPT ![t] = {}]

\* INSERT INTO or UPDATE conflict_record.  The unique index makes an insert wait for
\* another of the same pair, and fail if that one has committed.
WriteRecord(t) ==
    LET x == tx[t] IN
    /\ x.at = "write_record"
    /\ RecordHolders(x.pair) = {}
    /\ IF x.kind = "create" /\ record[x.pair] # "none" THEN End(t)
       ELSE /\ tx' = [tx EXCEPT ![t] = [x EXCEPT !.wrote = TRUE,
                                                 !.at = TriggerBranch(x.kind, record[x.pair])]]
            /\ UNCHANGED scan
    /\ UNCHANGED <<record, status>>

\* Fault: the trigger stays at the endpoint it has done.
AdvanceNowhere(x, again) == [x EXCEPT !.at = again]

\* Fault: the trigger ends after one endpoint.
AdvanceToEnd(x, again) == [x EXCEPT !.at = "commit"]

\* To the second endpoint, or to the end of the trigger.
Advance(x, again) ==
    IF x.side = 1 THEN [x EXCEPT !.side = 2, !.at = again] ELSE [x EXCEPT !.at = "commit"]

\* UPDATE memory_item SET status = new WHERE memory_id = endpoint AND status = old.
UpdateEndpoint(t, old, new, again) ==
    LET x == tx[t]
        m == Endpoint(x) IN
    /\ \/ /\ SeenStatus(x, m) # old
          /\ tx' = [tx EXCEPT ![t] = Advance(x, again)]
       \/ /\ SeenStatus(x, m) = old
          /\ MemoryHolders(m) \subseteq {t}
          /\ tx' = [tx EXCEPT ![t] = Advance([x EXCEPT !.writes[m] = new], again)]
    /\ UNCHANGED <<record, status, scan>>

\* fn_conflict_mark_memory_conflicted
Mark(t) == tx[t].at = "mark" /\ UpdateEndpoint(t, "active", "conflicted", "mark")

\* Fault: only the conflict's own record is looked at.
ClearByOwnRecord(x) == SeenRecord(x, x.pair) # "open"

Clear(x) == ~HasOpenConflict(x, Endpoint(x))

\* fn_conflict_restore_memory_if_clear: the condition and the UPDATE are two statements,
\* each with a snapshot of its own.
Check(t) ==
    /\ tx[t].at = "check"
    /\ tx' = [tx EXCEPT ![t] = IF Clear(@) THEN [@ EXCEPT !.at = "restore"]
                                           ELSE Advance(@, "check")]
    /\ UNCHANGED <<record, status, scan>>

Restore(t) == tx[t].at = "restore" /\ UpdateEndpoint(t, "conflicted", "active", "check")

\* The audit row and COMMIT.
Commit(t) ==
    LET x == tx[t] IN
    /\ x.at = "commit"
    /\ record' = [record EXCEPT ![x.pair] = Target(x)]
    /\ status' = [m \in Memories |-> SeenStatus(x, m)]
    /\ tx' = [tx EXCEPT ![t] = Idle]
    /\ UNCHANGED scan

\* An exception or a lost connection before COMMIT.
Rollback(t) ==
    /\ t \in InFlight \cup Detecting
    /\ End(t)
    /\ UNCHANGED <<record, status>>

Statement(t) ==
    \/ WriteRecord(t) \/ Mark(t) \/ Check(t) \/ Restore(t) \/ Commit(t)
    \/ \E p \in Pairs : DetectNext(t, p)

Next ==
    \E t \in Transactions :
        \/ \E kind \in Kinds, p \in Pairs : Begin(t, kind, p)
        \/ \E m \in Memories : Detect(t, m)
        \/ \E p \in Pairs : DetectNext(t, p)
        \/ WriteRecord(t)
        \/ Mark(t)
        \/ Check(t)
        \/ Restore(t)
        \/ Commit(t)
        \/ Rollback(t)

Spec == Init /\ [][Next]_vars

\* A handler goes on by itself, and a waiting transaction gets the lock in its turn:
\* PostgreSQL queues the waiters of a row.
Fairness == \A t \in Transactions : SF_vars(Statement(t))

FairSpec == Spec /\ Fairness

-------------------------------------------------------------------------------
(* Properties. *)

Quiet == InFlight = {}

OpenConflictOf(m) == \E p \in Pairs : m \in p /\ record[p] = "open"

\* "Database triggers restore related memories to active when no other open conflict
\* remains" (docs/process/15-api-contract-plan.md): with no request in flight, no memory
\* is left conflicted without an open conflict.
RestoredWhenClear ==
    Quiet => \A m \in Memories : status[m] = "conflicted" => OpenConflictOf(m)

\* "New open conflicts immediately mark both endpoint memories as conflicted"
\* (database/06_triggers.sql): with no request in flight, no memory is active while
\* one of its conflicts is open.
MarkedWhileOpen ==
    Quiet => \A m \in Memories : OpenConflictOf(m) => status[m] = "conflicted"

\* t cannot go on before u ends.
WaitsFor(t, u) ==
    LET x == tx[t] IN
    /\ x # Idle /\ u # t
    /\ \/ x.at = "write_record" /\ u \in RecordHolders(x.pair)
       \/ /\ x.at = "mark" /\ SeenStatus(x, Endpoint(x)) = "active"
          /\ u \in MemoryHolders(Endpoint(x))
       \/ /\ x.at = "restore" /\ SeenStatus(x, Endpoint(x)) = "conflicted"
          /\ u \in MemoryHolders(Endpoint(x))

\* Transactions that open and close overlapping conflicts never wait for each other in a
\* cycle, so none is chosen as a deadlock victim: they take their memories in the order
\* of the ids.
NoWaitCycle ==
    \A S \in (SUBSET Transactions) \ {{}} : \E t \in S : \A u \in S : ~WaitsFor(t, u)

\* Every request that is not rolled back ends: it waits for locks, never for good, and the
\* transactions of a detection get through the whole list.
EveryTransactionEnds ==
    \A t \in Transactions : t \in InFlight \cup Detecting ~> t \notin InFlight \cup Detecting

\* One at a time, the requests are the atomic steps of ConflictRecords.
Abstract == INSTANCE ConflictRecords
ImplementsConflictRecords == Abstract!Spec
===============================================================================
