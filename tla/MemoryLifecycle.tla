--------------------------- MODULE MemoryLifecycle ---------------------------
(***************************************************************************)
(* The life of memories under the request handlers that write them:        *)
(* create_memory (with and without supersedes_memory_id), update_memory    *)
(* (PATCH, and the approve and reject of extraction candidates, which call *)
(* it), delete_memory, the memory part of an approved forget request, and  *)
(* create_conflict and update_conflict with their triggers.                *)
(*                                                                         *)
(* FastAPI runs the synchronous handlers in a thread pool and every        *)
(* Database.connection() is a PostgreSQL transaction of its own.           *)
(* update_memory uses two of them: it reads the row, validates the status  *)
(* change against what it read and closes the connection; a second         *)
(* transaction then writes every column from the payload or from that old  *)
(* copy.  Other requests may commit in between.  A transaction that writes *)
(* one memory holds its row lock until it commits, so it is one step here; *)
(* transactions on several rows are taken apart in ConflictTransactions.   *)
(***************************************************************************)
EXTENDS MemoryItem

CONSTANTS
    Requests,       \* concurrent update_memory requests
    Patches,        \* the PATCH payloads clients send
    NewMemories,    \* the create payloads clients send
    Serialized,     \* TRUE: clients never overlap two requests
    MaxAudit        \* bound on the audit rows of one memory

PatchType ==
    [canonical_text: Texts \cup {Null}, status: Statuses \cup {Null},
     access_level: AccessLevels \cup {Null},
     evidence: (SUBSET (Chunks \cup ForeignChunks)) \cup {Null}]
NewMemoryType ==
    [canonical_text: Texts, status: Statuses, access_level: AccessLevels,
     evidence: SUBSET (Chunks \cup ForeignChunks), agent: BOOLEAN]

ASSUME PayloadAssumption == Patches \subseteq PatchType /\ NewMemories \subseteq NewMemoryType
ASSUME NullAssumption ==
    /\ Null \notin Texts \cup AccessLevels \cup Memories \cup Statuses
    /\ Null \notin StoredMemory
ASSUME FlagAssumption == Serialized \in BOOLEAN /\ MaxAudit \in Nat

VARIABLES
    memory,     \* memory[m]: the stored memory, or Null
    conflict,   \* conflict[p]: status of the conflict record of the pair p, or Null
    request     \* request[r]: what an update_memory in flight holds, or Null

vars == <<memory, conflict, request>>

ConflictStatuses == {"open", "resolved", "ignored"}

\* UNIQUE(left_memory_id, right_memory_id) and the normalised order make a pair a set.
Pairs == {p \in SUBSET Memories : \E a, b \in Memories : a # b /\ p = {a, b}}

UpdateInFlight == [memory_id: Memories, existing: MemoryRow, payload: PatchType]

TypeOK ==
    /\ memory \in [Memories -> StoredMemory \cup {Null}]
    /\ conflict \in [Pairs -> ConflictStatuses \cup {Null}]
    /\ request \in [Requests -> UpdateInFlight \cup {Null}]

Init ==
    /\ memory = [m \in Memories |-> Null]
    /\ conflict = [p \in Pairs |-> Null]
    /\ request = [r \in Requests |-> Null]

Stored == {m \in Memories : memory[m] # Null}
Idle == \A r \in Requests : request[r] = Null
MayStart == Serialized => Idle
RoomToLog(m) == Len(memory[m].audit) < MaxAudit

-------------------------------------------------------------------------------
(* create_memory *)

\* Fault: the evidence list is bound as it came.
EvidenceUnchecked(evidence) == TRUE

\* _validate_evidence_chunks: one foreign chunk rejects the whole transaction.
EvidenceInWorkspace(evidence) == evidence \subseteq Chunks

\* Agents without evidence get an inline source chunk.
BoundEvidence(payload) ==
    IF payload.evidence = {} /\ payload.agent THEN {Inline} ELSE payload.evidence

NewStored(payload) ==
    Inserted(payload.status, payload.canonical_text, payload.access_level,
             BoundEvidence(payload))

CreateMemory(m, payload) ==
    /\ MayStart
    /\ memory[m] = Null
    /\ payload.status \in ALLOWED_INITIAL_STATUSES
    /\ EvidenceInWorkspace(payload.evidence)
    /\ memory' = [memory EXCEPT ![m] = NewStored(payload)]
    /\ UNCHANGED <<conflict, request>>

\* _insert_memory: the row is read FOR UPDATE, so the check holds at the write.
MayBeSuperseded(x) == x.row.status \in {"active", "conflicted"}

CreateSuperseding(m, payload, old) ==
    /\ MayStart
    /\ memory[m] = Null
    /\ payload.status = "active"
    /\ old \in Stored /\ MayBeSuperseded(memory[old]) /\ RoomToLog(old)
    /\ EvidenceInWorkspace(payload.evidence)
    /\ memory' = [memory EXCEPT ![m] = NewStored(payload),
                                ![old] = Superseded(@, m)]
    /\ UNCHANGED <<conflict, request>>

-------------------------------------------------------------------------------
(* update_memory, approve_candidate, reject_candidate *)

\* The first transaction: read the row and validate the status change against it.
UpdateRead(r, m, payload) ==
    /\ MayStart
    /\ request[r] = Null
    /\ m \in Stored
    /\ payload.status # Null => TransitionAllowed(memory[m].row.status, payload.status)
    /\ request' = [request EXCEPT ![r] =
                    [memory_id |-> m, existing |-> memory[m].row, payload |-> payload]]
    /\ UNCHANGED <<memory, conflict>>

\* payload.field if it was sent, else the old copy.
Given(field, existing) == IF field = Null THEN existing ELSE field

\* Fault: a PATCH that does not name the access level resets it.
PatchedRowResettingAccess(row, u) ==
    [row EXCEPT !.canonical_text = Given(u.payload.canonical_text, u.existing.canonical_text),
                !.status = Given(u.payload.status, u.existing.status),
                !.access_level = Given(u.payload.access_level,
                                       CHOOSE a \in AccessLevels : a # row.access_level)]

\* The UPDATE statement: three column groups come from the payload or the old copy;
\* valid_to and superseded_by_memory_id keep what the row holds now.
PatchedRow(row, u) ==
    [row EXCEPT !.canonical_text = Given(u.payload.canonical_text, u.existing.canonical_text),
                !.status = Given(u.payload.status, u.existing.status),
                !.access_level = Given(u.payload.access_level, u.existing.access_level)]

\* The second transaction.  An evidence list with a foreign chunk raises after the
\* UPDATE, and the transaction rolls back.
UpdateWrite(r) ==
    LET u == request[r]
        m == u.memory_id
        x == memory[m] IN
    /\ u # Null
    /\ IF u.payload.evidence # Null /\ ~EvidenceInWorkspace(u.payload.evidence)
       THEN UNCHANGED memory
       ELSE /\ RoomToLog(m)
            /\ memory' = [memory EXCEPT ![m] =
                            [Updated(x, PatchedRow(x.row, u)) EXCEPT
                                !.evidence = Given(u.payload.evidence, x.evidence)]]
    /\ request' = [request EXCEPT ![r] = Null]
    /\ UNCHANGED conflict

-------------------------------------------------------------------------------
(* delete_memory, and the memory of an approved forget request *)

DeleteMemory(m) ==
    /\ MayStart
    /\ m \in Stored /\ RoomToLog(m)
    /\ memory' = [memory EXCEPT ![m] = SoftDeleted(@)]
    /\ UNCHANGED <<conflict, request>>

\* The statement of update_forget_request on memory_item; the request's own row
\* and the wiki pages it reaches are in ForgetAndExport.
ForgetMemory(m) ==
    /\ MayStart
    /\ m \in Stored /\ RoomToLog(m)
    /\ memory' = [memory EXCEPT ![m] = Forgotten(@)]
    /\ UNCHANGED <<conflict, request>>

-------------------------------------------------------------------------------
(* create_conflict and update_conflict *)

Open(p, record) == record[p] = "open"

\* fn_memory_has_open_conflict
HasOpenConflict(m, record) == \E p \in Pairs : m \in p /\ Open(p, record)

\* fn_conflict_after_insert, and fn_conflict_after_update when NEW.status = 'open'.
MarkedEndpoints(p) ==
    [m \in Memories |-> IF m \in p THEN MarkConflicted(memory[m]) ELSE memory[m]]

\* fn_conflict_after_update when OLD.status = 'open' and the record is closed.
RestoredEndpoints(p, record) ==
    [m \in Memories |-> IF m \in p /\ ~HasOpenConflict(m, record) THEN Restored(memory[m])
                                                                 ELSE memory[m]]

CreateConflict(p) ==
    /\ MayStart
    /\ p \subseteq Stored /\ \A m \in p : RoomToLog(m)
    /\ conflict[p] = Null
    /\ conflict' = [conflict EXCEPT ![p] = "open"]
    /\ memory' = MarkedEndpoints(p)
    /\ UNCHANGED request

UpdateConflict(p, status) ==
    /\ MayStart
    /\ conflict[p] # Null
    /\ \A m \in p : RoomToLog(m)
    /\ conflict' = [conflict EXCEPT ![p] = status]
    /\ memory' = IF status = "open" THEN MarkedEndpoints(p)
                 ELSE IF conflict[p] = "open" THEN RestoredEndpoints(p, conflict')
                 ELSE memory
    /\ UNCHANGED request

-------------------------------------------------------------------------------
Next ==
    \/ \E m \in Memories, payload \in NewMemories : CreateMemory(m, payload)
    \/ \E m, old \in Memories, payload \in NewMemories : CreateSuperseding(m, payload, old)
    \/ \E r \in Requests, m \in Memories, payload \in Patches : UpdateRead(r, m, payload)
    \/ \E r \in Requests : UpdateWrite(r)
    \/ \E m \in Memories : DeleteMemory(m)
    \/ \E m \in Memories : ForgetMemory(m)
    \/ \E p \in Pairs : CreateConflict(p)
    \/ \E p \in Pairs, status \in ConflictStatuses : UpdateConflict(p, status)

Spec == Init /\ [][Next]_vars

-------------------------------------------------------------------------------
(* Properties that hold however the requests overlap. *)

\* The revision rows of every memory are 1..current_revision_no and end with the
\* row's own text: the two triggers number and copy the same update.
RevisionHistory == \A m \in Stored : RevisionsMatch(memory[m])

\* The audit rows of every memory chain from its insert to its present status, and
\* name the forgets and soft deletes among them.
AuditTrail == \A m \in Stored : AuditMatches(memory[m])

\* A memory with superseded_by_memory_id has an ended validity window and a stored
\* successor, and following successors never comes back: every set of memories has
\* one whose successor is outside it.
SupersessionSound ==
    /\ \A m \in Stored : memory[m].row.superseded_by # Null =>
          memory[m].row.valid_to /\ memory[m].row.superseded_by \in Stored
    /\ \A S \in SUBSET Stored : S # {} =>
          \E m \in S : memory[m].row.superseded_by \notin S

Content(x) == [x.row EXCEPT !.current_revision_no = 0]

ChangeEvidenced(old, new) ==
    /\ old.revisions \subseteq new.revisions
    /\ \/ new.audit = old.audit
       \/ new.audit = Append(old.audit, new.audit[Len(new.audit)])
    /\ Content(new) # Content(old) <=>
          new.row.current_revision_no = old.row.current_revision_no + 1
    /\ Content(new) # Content(old) => new.audit # old.audit

\* A step that changes anything in a memory's row, its validity and its successor
\* included, adds exactly one revision and one audit row to what it had, and a step
\* that adds a revision changes the row ("Every state change has version and audit
\* evidence", docs/process/22-backend-memory-roadmap.md).
EveryChangeEvidenced ==
    [][\A m \in Stored : ChangeEvidenced(memory[m], memory'[m])]_vars

-------------------------------------------------------------------------------
(* Properties of clients that do not overlap their requests. *)

Retired == {"archived", "forgotten", "rejected", "superseded"}

\* A memory that left the working set never becomes candidate, active or conflicted
\* again, by no sequence of updates, deletes, forgets and conflicts.
RetiredStaysRetired ==
    [][\A m \in Stored :
        memory[m].row.status \in Retired => memory'[m].row.status \in Retired]_vars

\* A PATCH changes only the fields its payload names: "Request fields are partial"
\* (docs/process/15-api-contract-plan.md).
PatchIsPartial ==
    [][\A r \in Requests : request[r] # Null /\ request'[r] = Null =>
        LET u == request[r]
            old == memory[u.memory_id].row
            new == memory'[u.memory_id].row IN
        /\ u.payload.canonical_text = Null => new.canonical_text = old.canonical_text
        /\ u.payload.status = Null => new.status = old.status
        /\ u.payload.access_level = Null => new.access_level = old.access_level]_vars

\* Every request moves the statuses as MemoryStatus allows.
StatusOf(m) == IF memory[m] = Null THEN Null ELSE memory[m].row.status
Abstract == INSTANCE MemoryStatus WITH status <- [m \in Memories |-> StatusOf(m)]
ImplementsMemoryStatus == Abstract!Spec

-------------------------------------------------------------------------------
(* What the documentation says and overlapping requests do not keep. *)

\* "Forgotten memory no longer appears in retrieval": retrieval serves the active
\* memories, and no memory that was forgotten is among them again.
ForgottenNeverRetrieved ==
    \A m \in Stored :
        (\E i \in 1 .. Len(memory[m].audit) : memory[m].audit[i].action = "memory.forget")
            => memory[m].row.status # "active"
===============================================================================
