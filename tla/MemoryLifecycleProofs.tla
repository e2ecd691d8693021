------------------------ MODULE MemoryLifecycleProofs ------------------------
(***************************************************************************)
(* Proofs about MemoryLifecycle for every set of memories, requests and    *)
(* payloads, however the requests overlap.                                 *)
(***************************************************************************)
EXTENDS MemoryLifecycle, TLAPS

-------------------------------------------------------------------------------
(* One stored memory and one statement on its row. *)

SameRevision(x, new) == new.current_revision_no = x.row.current_revision_no

\* An UPDATE that leaves the revision number to its trigger keeps a stored memory
\* well typed.
LEMMA UpdatedType ==
    ASSUME NEW x \in StoredMemory, NEW new \in MemoryRow, SameRevision(x, new)
    PROVE  Updated(x, new) \in StoredMemory
<1> DEFINE row == BeforeUpdate(x.row, new)
<1>1. x.row \in MemoryRow /\ x.revisions \in SUBSET RevisionRow /\ x.audit \in Seq(AuditRow)
      /\ x.evidence \in SUBSET Evidence
  BY DEF StoredMemory
<1>2. row \in MemoryRow
  BY <1>1 DEF BeforeUpdate, MemoryRow
<1>3. [no |-> row.current_revision_no, text |-> row.canonical_text] \in RevisionRow
  BY <1>2 DEF RevisionRow, MemoryRow
<1>4. [action |-> AuditAction(x.row, row), before |-> x.row.status, after |-> row.status]
        \in AuditRow
  BY <1>1, <1>2 DEF AuditRow, AuditAction, AuditActions, MemoryRow
<1>5. Append(x.audit, [action |-> AuditAction(x.row, row), before |-> x.row.status,
                       after |-> row.status]) \in Seq(AuditRow)
  BY <1>1, <1>4
<1>6. x.revisions \cup (IF row.current_revision_no # x.row.current_revision_no
                        THEN {[no |-> row.current_revision_no, text |-> row.canonical_text]}
                        ELSE {}) \in SUBSET RevisionRow
  BY <1>1, <1>3
<1> QED
  BY <1>1, <1>2, <1>5, <1>6 DEF Updated, StoredMemory

\* An UPDATE adds the next revision, or none and then the text is the old one.
LEMMA UpdatedRevisions ==
    ASSUME NEW x \in StoredMemory, NEW new \in MemoryRow, SameRevision(x, new),
           RevisionsMatch(x)
    PROVE  RevisionsMatch(Updated(x, new))
<1> DEFINE row == BeforeUpdate(x.row, new)
           n   == x.row.current_revision_no
           rev == [no |-> n + 1, text |-> new.canonical_text]
           y   == Updated(x, new)
<1>1. n \in Nat /\ x.row \in MemoryRow /\ x.revisions \in SUBSET RevisionRow
  BY DEF StoredMemory, MemoryRow
<1>2. CASE RevisionFieldsChanged(x.row, new)
  <2>1. row.current_revision_no = n + 1 /\ row.canonical_text = new.canonical_text
    BY <1>2 DEF BeforeUpdate, MemoryRow
  <2>2. y.row = row /\ y.revisions = x.revisions \cup {rev}
    BY <2>1, <1>1 DEF Updated
  <2> HIDE DEF y, row
  <2>3. rev.no = n + 1
    OBVIOUS
  <2>4. {v.no : v \in y.revisions} = 1 .. (n + 1)
    <3> HIDE DEF rev, n
    <3>1. {v.no : v \in x.revisions} = 1 .. n
      BY DEF RevisionsMatch, n
    <3>2. {v.no : v \in y.revisions} = {v.no : v \in x.revisions} \cup {n + 1}
      BY <2>2, <2>3, Zenon
    <3>3. (1 .. n) \cup {n + 1} = 1 .. (n + 1)
      BY <1>1
    <3> QED
      BY <3>1, <3>2, <3>3
  <2>5. \A v \in x.revisions : v.no # n + 1
    BY <1>1 DEF RevisionsMatch
  <2>6. \A v, w \in y.revisions : v.no = w.no => v = w
    BY <2>2, <2>5 DEF RevisionsMatch
  <2>7. [no |-> row.current_revision_no, text |-> row.canonical_text] \in y.revisions
    BY <2>1, <2>2
  <2> QED
    BY <2>1, <2>2, <2>4, <2>6, <2>7 DEF RevisionsMatch, y
<1>3. CASE ~RevisionFieldsChanged(x.row, new)
  <2>1. row.current_revision_no = n /\ row.canonical_text = x.row.canonical_text
    BY <1>3 DEF BeforeUpdate, RevisionFieldsChanged, MemoryRow
  <2>2. y.row = row /\ y.revisions = x.revisions
    BY <2>1 DEF Updated
  <2> QED
    BY <2>1, <2>2 DEF RevisionsMatch
<1> QED
  BY <1>2, <1>3

\* An UPDATE continues the chain of audit rows from the status it finds.
LEMMA UpdatedAudit ==
    ASSUME NEW x \in StoredMemory, NEW new \in MemoryRow, AuditMatches(x)
    PROVE  AuditMatches(Updated(x, new))
<1> DEFINE row == BeforeUpdate(x.row, new)
           a   == [action |-> AuditAction(x.row, row), before |-> x.row.status,
                   after |-> row.status]
           y   == Updated(x, new)
<1>1. y.row = row /\ y.audit = Append(x.audit, a)
  BY DEF Updated
<1>2. x.audit \in Seq(AuditRow) /\ Len(x.audit) \in Nat /\ Len(x.audit) > 0
  BY DEF StoredMemory, AuditMatches
<1>3. /\ Len(y.audit) = Len(x.audit) + 1
      /\ y.audit[Len(x.audit) + 1] = a
      /\ \A i \in 1 .. Len(x.audit) : y.audit[i] = x.audit[i]
  BY <1>1, <1>2
<1>4. /\ a.before = x.audit[Len(x.audit)].after
      /\ a.action # "memory.insert"
      /\ a.action = "memory.soft_delete" <=> (a.after = "archived"  /\ a.before # "archived")
      /\ a.action = "memory.forget"      <=> (a.after = "forgotten" /\ a.before # "forgotten")
  BY DEF AuditAction, AuditMatches
<1> HIDE DEF y, a, row
<1>5. ASSUME NEW i \in 2 .. Len(y.audit)
      PROVE  LET b == y.audit[i] IN
             /\ b.before = y.audit[i - 1].after
             /\ b.action # "memory.insert"
             /\ b.action = "memory.soft_delete" <=> (b.after = "archived"  /\ b.before # "archived")
             /\ b.action = "memory.forget"      <=> (b.after = "forgotten" /\ b.before # "forgotten")
  <2>1. CASE i = Len(x.audit) + 1
    BY <2>1, <1>2, <1>3, <1>4
  <2>2. CASE i \in 2 .. Len(x.audit)
    <3>1. y.audit[i] = x.audit[i] /\ y.audit[i - 1] = x.audit[i - 1]
      BY <2>2, <1>2, <1>3
    <3> QED
      BY <3>1, <2>2 DEF AuditMatches
  <2> QED
    BY <2>1, <2>2, <1>2, <1>3
<1>6. y.audit[1].action = "memory.insert" /\ y.audit[1].before = Null
  BY <1>2, <1>3 DEF AuditMatches
<1>7. y.audit[Len(y.audit)].after = y.row.status
  BY <1>1, <1>2, <1>3 DEF a
<1> QED
  BY <1>2, <1>3, <1>5, <1>6, <1>7 DEF AuditMatches, y

\* y is x after at most one UPDATE, which may replace the evidence too.
AfterUpdate(x, y) ==
    \/ y = x
    \/ \E new \in MemoryRow, e \in SUBSET Evidence :
          SameRevision(x, new) /\ y = [Updated(x, new) EXCEPT !.evidence = e]

Good(x) == x \in StoredMemory /\ RevisionsMatch(x) /\ AuditMatches(x)

\* One UPDATE keeps a memory typed, its audit rows a chain, its revisions numbered and
\* its newest revision current.
LEMMA AfterUpdateGood ==
    ASSUME NEW x, NEW y, Good(x), AfterUpdate(x, y)
    PROVE  Good(y)
<1>1. SUFFICES ASSUME NEW new \in MemoryRow, NEW e \in SUBSET Evidence, SameRevision(x, new),
                      y = [Updated(x, new) EXCEPT !.evidence = e]
               PROVE  Good(y)
  BY DEF AfterUpdate
<1> DEFINE z == Updated(x, new)
<1>2. z \in StoredMemory /\ RevisionsMatch(z) /\ AuditMatches(z)
  BY <1>1, UpdatedType, UpdatedRevisions, UpdatedAudit DEF Good
<1> HIDE DEF z
<1>3. y \in StoredMemory
  BY <1>1, <1>2 DEF StoredMemory, z
<1>4. y.row = z.row /\ y.revisions = z.revisions /\ y.audit = z.audit
  BY <1>1, <1>2 DEF StoredMemory, z
<1> QED
  BY <1>2, <1>3, <1>4 DEF Good, RevisionsMatch, AuditMatches

\* One UPDATE evidences what it changes of a memory and nothing else.
LEMMA AfterUpdateEvidenced ==
    ASSUME NEW x, NEW y, Good(x), AfterUpdate(x, y)
    PROVE  ChangeEvidenced(x, y)
<1> DEFINE n == x.row.current_revision_no
<1>1. x.row \in MemoryRow /\ n \in Nat /\ x.audit \in Seq(AuditRow)
  BY DEF Good, StoredMemory, MemoryRow
<1>2. CASE y = x
  BY <1>1, <1>2 DEF ChangeEvidenced, Content
<1>3. ASSUME NEW new \in MemoryRow, NEW e \in SUBSET Evidence, SameRevision(x, new),
             y = [Updated(x, new) EXCEPT !.evidence = e]
      PROVE  ChangeEvidenced(x, y)
  <2> DEFINE row == BeforeUpdate(x.row, new)
             a   == [action |-> AuditAction(x.row, row), before |-> x.row.status,
                     after |-> row.status]
  <2>1. y.row = row /\ x.revisions \subseteq y.revisions /\ y.audit = Append(x.audit, a)
    BY <1>3 DEF Updated
  <2> HIDE DEF a
  <2>2. y.audit = Append(x.audit, y.audit[Len(y.audit)]) /\ y.audit # x.audit
    <3>1. \A s \in Seq(AuditRow) : /\ Append(s, a)[Len(Append(s, a))] = a
                                   /\ Len(Append(s, a)) # Len(s)
      OBVIOUS
    <3> QED
      BY <3>1, <2>1, <1>1
  <2>3. Content(y) # Content(x) <=> RevisionFieldsChanged(x.row, new)
    BY <1>1, <1>3, <2>1 DEF Content, BeforeUpdate, RevisionFieldsChanged, MemoryRow, SameRevision
  <2>4. RevisionFieldsChanged(x.row, new) <=> row.current_revision_no = n + 1
    BY <1>1 DEF BeforeUpdate, MemoryRow
  <2> QED
    BY <2>1, <2>2, <2>3, <2>4 DEF ChangeEvidenced
<1> QED
  BY <1>2, <1>3 DEF AfterUpdate

\* The rows of an INSERT and its trigger.
LEMMA InsertedGood ==
    ASSUME NEW status \in Statuses, NEW text \in Texts, NEW access \in AccessLevels,
           NEW evidence \in SUBSET Evidence
    PROVE  Good(Inserted(status, text, access, evidence))
<1> DEFINE y == Inserted(status, text, access, evidence)
<1>1. y.row \in MemoryRow
  BY DEF Inserted, MemoryRow
<1>2. y.revisions = {[no |-> 1, text |-> text]} /\ y.row.current_revision_no = 1
      /\ y.row.canonical_text = text
  BY DEF Inserted
<1>3. y.audit = <<[action |-> "memory.insert", before |-> Null, after |-> status]>>
      /\ y.row.status = status
  BY DEF Inserted
<1>4. y.audit \in Seq(AuditRow) /\ y.revisions \in SUBSET RevisionRow
  BY <1>2, <1>3 DEF AuditRow, AuditActions, RevisionRow
<1>5. y \in StoredMemory
  BY <1>1, <1>4 DEF Inserted, StoredMemory
<1>6. RevisionsMatch(y)
  <2>1. {v.no : v \in {[no |-> 1, text |-> text]}} = {1}
    OBVIOUS
  <2>2. 1 .. 1 = {1}
    OBVIOUS
  <2> HIDE DEF y
  <2> QED
    BY <1>2, <2>1, <2>2 DEF RevisionsMatch
<1>7. AuditMatches(y)
  BY <1>3 DEF AuditMatches
<1> QED
  BY <1>5, <1>6, <1>7 DEF Good

\* Any UPDATE of the row leaves the revision number to the trigger and, unless it
\* says so, the evidence as it was.
LEMMA UpdateIsOne ==
    ASSUME NEW x \in StoredMemory, NEW new \in MemoryRow, SameRevision(x, new)
    PROVE  AfterUpdate(x, Updated(x, new))
<1>1. x.evidence \in SUBSET Evidence
  BY DEF StoredMemory
<1>2. \A a, b, c, d :
        LET y == [row |-> a, revisions |-> b, audit |-> c, evidence |-> d]
        IN  y = [y EXCEPT !.evidence = d]
  OBVIOUS
<1>3. Updated(x, new) = [Updated(x, new) EXCEPT !.evidence = x.evidence]
  <2>1. \E a, b, c : Updated(x, new) = [row |-> a, revisions |-> b, audit |-> c,
                                        evidence |-> x.evidence]
    BY Zenon DEF Updated
  <2> QED
    BY <1>2, <2>1
<1> QED
  BY <1>1, <1>3 DEF AfterUpdate

\* Every statement of the handlers and of the conflict triggers is such an UPDATE.
LEMMA StatementsUpdateOnce ==
    ASSUME NEW x \in StoredMemory
    PROVE  /\ \A m \in Memories : AfterUpdate(x, Superseded(x, m))
           /\ AfterUpdate(x, SoftDeleted(x))
           /\ AfterUpdate(x, Forgotten(x))
           /\ AfterUpdate(x, MarkConflicted(x))
           /\ AfterUpdate(x, Restored(x))
<1>1. x.row \in MemoryRow
  BY DEF StoredMemory
<1>2. ASSUME NEW m \in Memories
      PROVE  AfterUpdate(x, Superseded(x, m))
  <2> DEFINE new == [x.row EXCEPT !.status = "superseded", !.valid_to = TRUE,
                                  !.superseded_by = m]
  <2>1. new \in MemoryRow /\ SameRevision(x, new)
    BY <1>1 DEF MemoryRow, Statuses, SameRevision
  <2> QED
    BY <2>1, UpdateIsOne DEF Superseded
<1>3. ASSUME NEW s \in Statuses, NEW v \in BOOLEAN
      PROVE  AfterUpdate(x, Updated(x, [x.row EXCEPT !.status = s, !.valid_to = v]))
  <2> DEFINE new == [x.row EXCEPT !.status = s, !.valid_to = v]
  <2>1. new \in MemoryRow /\ SameRevision(x, new)
    BY <1>1 DEF MemoryRow, SameRevision
  <2> QED
    BY <2>1, UpdateIsOne
<1>4. ASSUME NEW s \in Statuses
      PROVE  AfterUpdate(x, Updated(x, [x.row EXCEPT !.status = s]))
  <2> DEFINE new == [x.row EXCEPT !.status = s]
  <2>1. new \in MemoryRow /\ SameRevision(x, new)
    BY <1>1 DEF MemoryRow, SameRevision
  <2> QED
    BY <2>1, UpdateIsOne
<1>5. {"archived", "forgotten", "conflicted", "active"} \subseteq Statuses
  BY DEF Statuses
<1>6. AfterUpdate(x, x)
  BY DEF AfterUpdate
<1> QED
  BY <1>2, <1>3, <1>4, <1>5, <1>6 DEF SoftDeleted, Forgotten, MarkConflicted, Restored

\* The second transaction of update_memory is one UPDATE too.
LEMMA PatchUpdatesOnce ==
    ASSUME NEW x \in StoredMemory, NEW u \in UpdateInFlight,
           u.payload.evidence # Null => EvidenceInWorkspace(u.payload.evidence)
    PROVE  AfterUpdate(x, [Updated(x, PatchedRow(x.row, u)) EXCEPT
                              !.evidence = Given(u.payload.evidence, x.evidence)])
<1>1. x.row \in MemoryRow /\ x.evidence \in SUBSET Evidence
  BY DEF StoredMemory
<1>2. u.existing \in MemoryRow /\ u.payload \in PatchType
  BY DEF UpdateInFlight
<1>3. PatchedRow(x.row, u) \in MemoryRow /\ SameRevision(x, PatchedRow(x.row, u))
  BY <1>1, <1>2 DEF PatchedRow, Given, MemoryRow, PatchType, SameRevision
<1>4. Given(u.payload.evidence, x.evidence) \in SUBSET Evidence
  BY <1>1 DEF Given, EvidenceInWorkspace, Evidence
<1> QED
  BY <1>3, <1>4 DEF AfterUpdate

-------------------------------------------------------------------------------
(* The inductive invariant. *)

\* A conflict record and a request in flight refer to stored memories: rows are never
\* hard-deleted, so a statement always finds the memory its handler looked up.
ReferencesStored ==
    /\ \A p \in Pairs : conflict[p] # Null => p \subseteq Stored
    /\ \A r \in Requests : request[r] # Null => request[r].memory_id \in Stored

IInv == TypeOK /\ RevisionHistory /\ AuditTrail /\ ReferencesStored

\* What any step does to the memories: one UPDATE at most for the stored ones, and
\* an INSERT of a valid payload for the new ones.
MemoryWrites ==
    /\ memory' = [m \in Memories |-> memory'[m]]
    /\ \A m \in Stored : AfterUpdate(memory[m], memory'[m])
    /\ \A m \in Memories \ Stored :
          \/ memory'[m] = Null
          \/ \E payload \in NewMemories :
                EvidenceInWorkspace(payload.evidence) /\ memory'[m] = NewStored(payload)

\* Every action, and a stutter, writes the memories that way.
LEMMA NextWritesMemories ==
    ASSUME IInv, [Next]_vars
    PROVE  MemoryWrites
<1> USE DEF IInv
<1>1. /\ memory = [m \in Memories |-> memory[m]]
      /\ \A m \in Stored : memory[m] \in StoredMemory
      /\ \A m \in Memories \ Stored : memory[m] = Null
  BY DEF TypeOK, Stored
<1>2. \A m \in Memories : AfterUpdate(memory[m], memory[m])
  BY DEF AfterUpdate
<1>3. ASSUME UNCHANGED memory
      PROVE  MemoryWrites
  BY <1>1, <1>2, <1>3 DEF MemoryWrites, Stored
\* One memory is updated.
<1>4. ASSUME NEW m \in Stored, NEW y, memory' = [memory EXCEPT ![m] = y],
             AfterUpdate(memory[m], y)
      PROVE  MemoryWrites
  BY <1>1, <1>2, <1>4 DEF MemoryWrites, Stored
\* The endpoints of a pair may each be updated.
<1>5. ASSUME NEW p \in Pairs, p \subseteq Stored,
             memory' = [m \in Memories |-> memory'[m]],
             \A m \in p : AfterUpdate(memory[m], memory'[m]),
             \A m \in Memories \ p : memory'[m] = memory[m]
      PROVE  MemoryWrites
  BY <1>1, <1>2, <1>5 DEF MemoryWrites, Stored
<1>6. ASSUME NEW m \in Memories, NEW payload \in NewMemories, CreateMemory(m, payload)
      PROVE  MemoryWrites
  BY <1>1, <1>2, <1>6 DEF CreateMemory, MemoryWrites, Stored
<1>7. ASSUME NEW m \in Memories, NEW old \in Memories, NEW payload \in NewMemories,
             CreateSuperseding(m, payload, old)
      PROVE  MemoryWrites
  <2>1. /\ memory[m] = Null /\ old \in Stored /\ old # m
        /\ memory' = [memory EXCEPT ![m] = NewStored(payload), ![old] = Superseded(@, m)]
        /\ EvidenceInWorkspace(payload.evidence)
    BY <1>7 DEF CreateSuperseding, Stored
  <2>2. AfterUpdate(memory[old], Superseded(memory[old], m))
    BY <1>1, <2>1, StatementsUpdateOnce
  <2>3. memory'[m] = NewStored(payload) /\ memory'[old] = Superseded(memory[old], m)
        /\ \A k \in Memories \ {m, old} : memory'[k] = memory[k]
    BY <1>1, <2>1 DEF Stored
  <2> QED
    BY <1>1, <1>2, <2>1, <2>2, <2>3 DEF MemoryWrites, Stored
<1>8. ASSUME NEW r \in Requests, UpdateWrite(r)
      PROVE  MemoryWrites
  <2> DEFINE u == request[r]
             m == u.memory_id
  <2>1. u \in UpdateInFlight /\ m \in Stored /\ memory[m] \in StoredMemory
    BY <1>1, <1>8 DEF UpdateWrite, TypeOK, ReferencesStored
  <2>2. CASE u.payload.evidence # Null /\ ~EvidenceInWorkspace(u.payload.evidence)
    BY <1>3, <1>8, <2>2 DEF UpdateWrite
  <2>3. CASE ~(u.payload.evidence # Null /\ ~EvidenceInWorkspace(u.payload.evidence))
    <3> DEFINE y == [Updated(memory[m], PatchedRow(memory[m].row, u)) EXCEPT
                        !.evidence = Given(u.payload.evidence, memory[m].evidence)]
    <3>1. memory' = [memory EXCEPT ![m] = y]
      BY <1>8, <2>3 DEF UpdateWrite
    <3>2. AfterUpdate(memory[m], y)
      BY <2>1, <2>3, PatchUpdatesOnce
    <3> HIDE DEF y
    <3> QED
      BY <1>4, <2>1, <3>1, <3>2
  <2> QED
    BY <2>2, <2>3
<1>9. ASSUME NEW m \in Memories, DeleteMemory(m) \/ ForgetMemory(m)
      PROVE  MemoryWrites
  <2>1. m \in Stored /\ \/ memory' = [memory EXCEPT ![m] = SoftDeleted(memory[m])]
                        \/ memory' = [memory EXCEPT ![m] = Forgotten(memory[m])]
    BY <1>9 DEF DeleteMemory, ForgetMemory
  <2> QED
    BY <1>1, <1>4, <2>1, StatementsUpdateOnce
<1>10. ASSUME NEW p \in Pairs, CreateConflict(p)
       PROVE  MemoryWrites
  <2>1. p \subseteq Stored /\ memory' = MarkedEndpoints(p)
    BY <1>10 DEF CreateConflict
  <2> QED
    BY <1>1, <1>5, <2>1, StatementsUpdateOnce DEF MarkedEndpoints, Pairs
<1>11. ASSUME NEW p \in Pairs, NEW status \in ConflictStatuses, UpdateConflict(p, status)
       PROVE  MemoryWrites
  <2>1. p \subseteq Stored
    BY <1>11 DEF UpdateConflict, ReferencesStored
  <2>2. \/ memory' = MarkedEndpoints(p)
        \/ memory' = RestoredEndpoints(p, conflict')
        \/ memory' = memory
    BY <1>11 DEF UpdateConflict
  <2>3. CASE memory' = MarkedEndpoints(p)
    BY <1>1, <1>5, <2>1, <2>3, StatementsUpdateOnce DEF MarkedEndpoints, Pairs
  <2>4. CASE memory' = RestoredEndpoints(p, conflict')
    BY <1>1, <1>2, <1>5, <2>1, <2>4, StatementsUpdateOnce DEF RestoredEndpoints, Pairs
  <2> QED
    BY <1>3, <2>2, <2>3, <2>4
<1>12. ASSUME NEW r \in Requests, NEW m \in Memories, NEW payload \in Patches,
              UpdateRead(r, m, payload)
       PROVE  MemoryWrites
  BY <1>3, <1>12 DEF UpdateRead
<1> QED
  BY <1>3, <1>6, <1>7, <1>8, <1>9, <1>10, <1>11, <1>12 DEF Next, vars

\* What is written keeps every memory well typed, with its revisions and audit rows.
LEMMA MemoryWritesKeepGood ==
    ASSUME IInv, MemoryWrites
    PROVE  /\ memory' \in [Memories -> StoredMemory \cup {Null}]
           /\ Stored \subseteq Stored'
           /\ \A m \in Stored : ChangeEvidenced(memory[m], memory'[m])
           /\ \A m \in Memories : memory'[m] # Null => Good(memory'[m])
<1>1. \A m \in Stored : Good(memory[m])
  BY DEF IInv, TypeOK, RevisionHistory, AuditTrail, Good, Stored
<1>2. \A m \in Stored : Good(memory'[m]) /\ ChangeEvidenced(memory[m], memory'[m])
  BY <1>1, AfterUpdateGood, AfterUpdateEvidenced DEF MemoryWrites
<1>3. ASSUME NEW payload \in NewMemories, EvidenceInWorkspace(payload.evidence)
      PROVE  Good(NewStored(payload))
  <2>1. payload \in NewMemoryType
    BY PayloadAssumption
  <2>2. BoundEvidence(payload) \in SUBSET Evidence
    BY <1>3, <2>1 DEF BoundEvidence, EvidenceInWorkspace, Evidence, NewMemoryType
  <2> QED
    BY <2>1, <2>2, InsertedGood DEF NewStored, NewMemoryType
<1>4. \A m \in Memories : memory'[m] = Null \/ Good(memory'[m])
  BY <1>2, <1>3 DEF MemoryWrites, Stored
<1>5. memory' \in [Memories -> StoredMemory \cup {Null}]
  BY <1>4 DEF MemoryWrites, Good
<1> QED
  BY <1>2, <1>4, <1>5, NullAssumption DEF Good, Stored

\* No step leaves a conflict record or a request in flight without its memory.
LEMMA NextKeepsReferences ==
    ASSUME IInv, [Next]_vars, Stored \subseteq Stored'
    PROVE  ReferencesStored'
<1>1. /\ \A p \in Pairs : conflict[p] # Null => p \subseteq Stored'
      /\ \A r \in Requests : request[r] # Null => request[r].memory_id \in Stored'
  BY DEF IInv, ReferencesStored
<1>2. CASE UNCHANGED <<conflict, request>>
  BY <1>1, <1>2 DEF ReferencesStored, Stored
<1>3. ASSUME NEW r \in Requests, NEW m \in Memories, NEW payload \in Patches,
             UpdateRead(r, m, payload)
      PROVE  ReferencesStored'
  BY <1>1, <1>3 DEF UpdateRead, ReferencesStored, IInv, TypeOK, Stored
<1>4. ASSUME NEW r \in Requests, UpdateWrite(r)
      PROVE  ReferencesStored'
  <2>1. conflict' = conflict /\ request' = [request EXCEPT ![r] = Null]
    BY <1>4 DEF UpdateWrite
  <2> QED
    BY <1>1, <2>1 DEF ReferencesStored, IInv, TypeOK, Stored
<1>5. ASSUME NEW p \in Pairs, CreateConflict(p)
      PROVE  ReferencesStored'
  <2>1. p \subseteq Stored' /\ conflict' = [conflict EXCEPT ![p] = "open"] /\ request' = request
    BY <1>5 DEF CreateConflict
  <2> QED
    BY <1>1, <2>1 DEF ReferencesStored, IInv, TypeOK, Stored
<1>6. ASSUME NEW p \in Pairs, NEW status \in ConflictStatuses, UpdateConflict(p, status)
      PROVE  ReferencesStored'
  <2>1. p \subseteq Stored' /\ conflict' = [conflict EXCEPT ![p] = status] /\ request' = request
    BY <1>1, <1>6 DEF UpdateConflict
  <2> QED
    BY <1>1, <2>1 DEF ReferencesStored, IInv, TypeOK, Stored
<1> QED
  BY <1>2, <1>3, <1>4, <1>5, <1>6
  DEF Next, vars, CreateMemory, CreateSuperseding, DeleteMemory, ForgetMemory

\* Conflict records and requests in flight stay well typed.
LEMMA NextKeepsTypes ==
    ASSUME IInv, [Next]_vars
    PROVE  /\ conflict' \in [Pairs -> ConflictStatuses \cup {Null}]
           /\ request' \in [Requests -> UpdateInFlight \cup {Null}]
<1>1. /\ conflict \in [Pairs -> ConflictStatuses \cup {Null}]
      /\ request \in [Requests -> UpdateInFlight \cup {Null}]
      /\ \A m \in Stored : memory[m].row \in MemoryRow
  BY DEF IInv, TypeOK, Stored, StoredMemory
<1>2. "open" \in ConflictStatuses
  BY DEF ConflictStatuses
<1>3. ASSUME NEW r \in Requests, NEW m \in Memories, NEW payload \in Patches,
             UpdateRead(r, m, payload)
      PROVE  request' \in [Requests -> UpdateInFlight \cup {Null}]
  <2>1. payload \in PatchType
    BY PayloadAssumption
  <2>2. [memory_id |-> m, existing |-> memory[m].row, payload |-> payload] \in UpdateInFlight
    BY <1>1, <1>3, <2>1 DEF UpdateRead, UpdateInFlight
  <2> QED
    BY <1>1, <1>3, <2>2 DEF UpdateRead
<1>4. ASSUME NEW r \in Requests, UpdateWrite(r)
      PROVE  conflict' = conflict /\ request' = [request EXCEPT ![r] = Null]
  BY <1>4 DEF UpdateWrite
<1> QED
  BY <1>1, <1>2, <1>3, <1>4
  DEF Next, vars, CreateMemory, CreateSuperseding, UpdateRead, DeleteMemory, ForgetMemory,
      CreateConflict, UpdateConflict

-------------------------------------------------------------------------------
(* Supersession. *)

KeepsSuccessor(x, y) ==
    y.row.superseded_by = x.row.superseded_by /\ (x.row.valid_to => y.row.valid_to)

\* Only the statement that supersedes a memory writes its successor, and no statement
\* reopens its validity window.
LEMMA StatementsKeepSuccessor ==
    ASSUME NEW x \in StoredMemory
    PROVE  /\ \A u \in UpdateInFlight : \A e :
                 KeepsSuccessor(x, [Updated(x, PatchedRow(x.row, u)) EXCEPT !.evidence = e])
           /\ KeepsSuccessor(x, SoftDeleted(x))
           /\ KeepsSuccessor(x, Forgotten(x))
           /\ KeepsSuccessor(x, MarkConflicted(x))
           /\ KeepsSuccessor(x, Restored(x))
           /\ \A m \in Memories : /\ Superseded(x, m).row.superseded_by = m
                                  /\ Superseded(x, m).row.valid_to
<1>1. x.row \in MemoryRow
  BY DEF StoredMemory
<1>2. \A new \in MemoryRow : /\ Updated(x, new).row.superseded_by = new.superseded_by
                             /\ Updated(x, new).row.valid_to = new.valid_to
  BY DEF Updated, BeforeUpdate, MemoryRow
<1>3. ASSUME NEW u \in UpdateInFlight, NEW e
      PROVE  KeepsSuccessor(x, [Updated(x, PatchedRow(x.row, u)) EXCEPT !.evidence = e])
  <2>1. /\ PatchedRow(x.row, u) \in MemoryRow
        /\ PatchedRow(x.row, u).superseded_by = x.row.superseded_by
        /\ PatchedRow(x.row, u).valid_to = x.row.valid_to
    BY <1>1 DEF PatchedRow, Given, MemoryRow, PatchType, UpdateInFlight
  <2>2. [Updated(x, PatchedRow(x.row, u)) EXCEPT !.evidence = e].row
          = Updated(x, PatchedRow(x.row, u)).row
    BY DEF Updated
  <2> QED
    BY <1>2, <2>1, <2>2 DEF KeepsSuccessor
<1>4. ASSUME NEW s \in Statuses, NEW v \in {x.row.valid_to, TRUE}
      PROVE  /\ KeepsSuccessor(x, Updated(x, [x.row EXCEPT !.status = s]))
             /\ KeepsSuccessor(x, Updated(x, [x.row EXCEPT !.status = s, !.valid_to = TRUE]))
  <2> DEFINE a == [x.row EXCEPT !.status = s]
             b == [x.row EXCEPT !.status = s, !.valid_to = TRUE]
  <2>1. /\ a \in MemoryRow /\ a.superseded_by = x.row.superseded_by
        /\ a.valid_to = x.row.valid_to
        /\ b \in MemoryRow /\ b.superseded_by = x.row.superseded_by /\ b.valid_to = TRUE
    BY <1>1 DEF MemoryRow
  <2> QED
    BY <1>2, <2>1 DEF KeepsSuccessor
<1>5. {"archived", "forgotten", "conflicted", "active", "superseded"} \subseteq Statuses
  BY DEF Statuses
<1>6. ASSUME NEW m \in Memories
      PROVE  Superseded(x, m).row.superseded_by = m /\ Superseded(x, m).row.valid_to
  <2> DEFINE new == [x.row EXCEPT !.status = "superseded", !.valid_to = TRUE,
                                  !.superseded_by = m]
  <2>1. new \in MemoryRow /\ new.superseded_by = m /\ new.valid_to = TRUE
    BY <1>1, <1>5 DEF MemoryRow
  <2> QED
    BY <1>2, <2>1 DEF Superseded
<1> QED
  BY <1>3, <1>4, <1>5, <1>6
  DEF SoftDeleted, Forgotten, MarkConflicted, Restored, KeepsSuccessor

\* A step either keeps every successor, or gives one memory a successor that was not
\* stored before; a memory just stored has none.
LEMMA NextWritesSuccessors ==
    ASSUME IInv, [Next]_vars
    PROVE  /\ \A m \in Stored' \ Stored : memory'[m].row.superseded_by = Null
           /\ \A m \in Stored :
                 \/ KeepsSuccessor(memory[m], memory'[m])
                 \/ /\ memory'[m].row.superseded_by \in Stored' \ Stored
                    /\ memory'[m].row.valid_to
<1>1. /\ MemoryWrites
      /\ \A m \in Stored : memory[m] \in StoredMemory
      /\ memory = [m \in Memories |-> memory[m]]
      /\ Stored \subseteq Memories
  BY NextWritesMemories DEF IInv, TypeOK, Stored
<1>2. ASSUME NEW m \in Stored' \ Stored
      PROVE  memory'[m].row.superseded_by = Null
  BY <1>1, <1>2 DEF MemoryWrites, Stored, NewStored, Inserted
<1> DEFINE Kept == \A m \in Stored : KeepsSuccessor(memory[m], memory'[m])
<1>3. CASE UNCHANGED memory
  BY <1>2, <1>3 DEF KeepsSuccessor
<1>4. ASSUME NEW m \in Stored, NEW y, memory' = [memory EXCEPT ![m] = y],
             KeepsSuccessor(memory[m], y)
      PROVE  Kept
  BY <1>1, <1>4 DEF KeepsSuccessor
<1>5. ASSUME NEW m \in Memories, NEW payload \in NewMemories, CreateMemory(m, payload)
      PROVE  Kept
  BY <1>1, <1>5 DEF CreateMemory, KeepsSuccessor, Stored
<1>6. ASSUME NEW m \in Memories, NEW old \in Memories, NEW payload \in NewMemories,
             CreateSuperseding(m, payload, old)
      PROVE  \A k \in Stored :
                 \/ KeepsSuccessor(memory[k], memory'[k])
                 \/ /\ memory'[k].row.superseded_by \in Stored' \ Stored
                    /\ memory'[k].row.valid_to
  <2>1. /\ memory[m] = Null /\ old \in Stored /\ old # m
        /\ memory' = [memory EXCEPT ![m] = NewStored(payload), ![old] = Superseded(@, m)]
    BY <1>6 DEF CreateSuperseding, Stored
  <2>2. /\ memory'[old] = Superseded(memory[old], m)
        /\ memory'[m] = NewStored(payload)
        /\ \A k \in Stored \ {old} : memory'[k] = memory[k]
    BY <1>1, <2>1 DEF Stored
  <2>3. m \in Stored' \ Stored
    <3>1. EvidenceInWorkspace(payload.evidence) /\ payload \in NewMemoryType
      BY <1>6, PayloadAssumption DEF CreateSuperseding
    <3>2. NewStored(payload) \in StoredMemory
      <4>1. BoundEvidence(payload) \in SUBSET Evidence
        BY <3>1 DEF BoundEvidence, EvidenceInWorkspace, Evidence
      <4> QED
        BY <3>1, <4>1, InsertedGood DEF NewStored, NewMemoryType, Good
    <3> QED
      BY <2>1, <2>2, <3>2, NullAssumption DEF Stored
  <2>4. memory'[old].row.superseded_by = m /\ memory'[old].row.valid_to
    BY <1>1, <2>1, <2>2, StatementsKeepSuccessor
  <2> QED
    BY <2>2, <2>3, <2>4 DEF KeepsSuccessor
<1>7. ASSUME NEW r \in Requests, UpdateWrite(r)
      PROVE  Kept
  <2> DEFINE u == request[r]
             m == u.memory_id
             y == [Updated(memory[m], PatchedRow(memory[m].row, u)) EXCEPT
                        !.evidence = Given(u.payload.evidence, memory[m].evidence)]
  <2>1. u \in UpdateInFlight /\ m \in Stored /\ memory[m] \in StoredMemory
    BY <1>1, <1>7 DEF UpdateWrite, IInv, TypeOK, ReferencesStored
  <2>2. memory' = memory \/ memory' = [memory EXCEPT ![m] = y]
    BY <1>7 DEF UpdateWrite
  <2>3. KeepsSuccessor(memory[m], y)
    BY <2>1, StatementsKeepSuccessor
  <2> HIDE DEF y
  <2>4. CASE memory' = memory
    BY <2>4 DEF KeepsSuccessor
  <2> QED
    BY <1>4, <2>1, <2>2, <2>3, <2>4
<1>8. ASSUME NEW m \in Memories, DeleteMemory(m) \/ ForgetMemory(m)
      PROVE  Kept
  <2>1. m \in Stored /\ \/ memory' = [memory EXCEPT ![m] = SoftDeleted(memory[m])]
                        \/ memory' = [memory EXCEPT ![m] = Forgotten(memory[m])]
    BY <1>8 DEF DeleteMemory, ForgetMemory
  <2> QED
    BY <1>1, <1>4, <2>1, StatementsKeepSuccessor
<1>9. ASSUME NEW p \in Pairs, \/ CreateConflict(p)
                              \/ \E status \in ConflictStatuses : UpdateConflict(p, status)
      PROVE  Kept
  <2>1. \/ memory' = MarkedEndpoints(p)
        \/ memory' = RestoredEndpoints(p, conflict')
        \/ memory' = memory
    BY <1>9 DEF CreateConflict, UpdateConflict
  <2>2. ASSUME NEW m \in Stored
        PROVE  memory'[m] \in {memory[m], MarkConflicted(memory[m]), Restored(memory[m])}
    BY <1>1, <2>1 DEF MarkedEndpoints, RestoredEndpoints
  <2>3. \A m \in Stored : KeepsSuccessor(memory[m], memory[m])
    BY DEF KeepsSuccessor
  <2> QED
    BY <1>1, <2>2, <2>3, StatementsKeepSuccessor
<1>10. ASSUME NEW r \in Requests, NEW m \in Memories, NEW payload \in Patches,
              UpdateRead(r, m, payload)
       PROVE  UNCHANGED memory
  BY <1>10 DEF UpdateRead
<1> QED
  BY <1>2, <1>3, <1>5, <1>6, <1>7, <1>8, <1>9, <1>10 DEF Next, vars

-------------------------------------------------------------------------------
(* The theorems. *)

\* The inductive invariant holds in every reachable state.
THEOREM Invariance == Spec => []IInv
<1>1. Init => IInv
  BY DEF Init, IInv, TypeOK, RevisionHistory, AuditTrail, ReferencesStored, Stored
<1>2. IInv /\ [Next]_vars => IInv'
  <2> SUFFICES ASSUME IInv, [Next]_vars
               PROVE  IInv'
    OBVIOUS
  <2>1. MemoryWrites
    BY NextWritesMemories
  <2>2. /\ memory' \in [Memories -> StoredMemory \cup {Null}]
        /\ Stored \subseteq Stored'
        /\ \A m \in Memories : memory'[m] # Null => Good(memory'[m])
    BY <2>1, MemoryWritesKeepGood
  <2>3. TypeOK'
    BY <2>2, NextKeepsTypes DEF TypeOK
  <2>4. RevisionHistory' /\ AuditTrail'
    BY <2>2 DEF RevisionHistory, AuditTrail, Good, Stored
  <2>5. ReferencesStored'
    BY <2>2, NextKeepsReferences
  <2> QED
    BY <2>3, <2>4, <2>5 DEF IInv
<1> QED
  BY <1>1, <1>2, PTL DEF Spec

\* Every state is well typed; in particular no evidence of another workspace is bound.
THEOREM TypeCorrect == Spec => []TypeOK
<1>1. IInv => TypeOK
  BY DEF IInv
<1> QED
  BY <1>1, Invariance, PTL

\* Overlapping updates, deletes, forgets, supersessions and conflicts never leave a gap
\* or a repeat in the revision numbers of a memory, and its newest revision is its text.
THEOREM RevisionsComplete == Spec => []RevisionHistory
<1>1. IInv => RevisionHistory
  BY DEF IInv
<1> QED
  BY <1>1, Invariance, PTL

\* The audit rows of a memory chain from its insert to its status, whatever overlaps.
THEOREM AuditComplete == Spec => []AuditTrail
<1>1. IInv => AuditTrail
  BY DEF IInv
<1> QED
  BY <1>1, Invariance, PTL

\* Whatever changes in a memory's row is evidenced by one revision and one audit row.
THEOREM ChangesEvidenced == Spec => EveryChangeEvidenced
<1>1. IInv /\ [Next]_vars => [\A m \in Stored : ChangeEvidenced(memory[m], memory'[m])]_vars
  BY NextWritesMemories, MemoryWritesKeepGood
<1> QED
  BY <1>1, Invariance, PTL DEF Spec, EveryChangeEvidenced

\* A superseded memory has an ended validity window and a stored successor, and no chain
\* of successors closes: a memory that stale writes bring back may be superseded again,
\* but only by a memory that was not stored before.
THEOREM SupersessionAcyclic == Spec => []SupersessionSound
<1>1. Init => SupersessionSound
  BY DEF Init, SupersessionSound, Stored
<1>2. SupersessionSound /\ IInv /\ IInv' /\ [Next]_vars => SupersessionSound'
  <2> SUFFICES ASSUME SupersessionSound, IInv, IInv', [Next]_vars
               PROVE  SupersessionSound'
    OBVIOUS
  <2> DEFINE next(m) == memory[m].row.superseded_by
             next1(m) == memory'[m].row.superseded_by
  <2>1. Stored \subseteq Stored' /\ Null \notin Stored'
    BY NextWritesMemories, MemoryWritesKeepGood, NullAssumption DEF Stored
  <2>2. \A m \in Stored' \ Stored : next1(m) = Null
    BY NextWritesSuccessors
  <2>3. \A m \in Stored : \/ KeepsSuccessor(memory[m], memory'[m])
                          \/ next1(m) \in Stored' \ Stored /\ memory'[m].row.valid_to
    BY NextWritesSuccessors
  <2>4. \A m \in Stored' : next1(m) # Null => memory'[m].row.valid_to /\ next1(m) \in Stored'
    BY <2>1, <2>2, <2>3 DEF SupersessionSound, KeepsSuccessor
  <2>5. ASSUME NEW S \in SUBSET Stored', S # {}
        PROVE  \E m \in S : next1(m) \notin S
    <3>1. CASE \E m \in S : m \notin Stored
      BY <2>1, <2>2, <3>1
    <3>2. CASE S \subseteq Stored
      <4>1. PICK m \in S : next(m) \notin S
        BY <2>5, <3>2 DEF SupersessionSound
      <4>2. next1(m) = next(m) \/ next1(m) \in Stored' \ Stored
        BY <2>3, <3>2 DEF KeepsSuccessor
      <4> QED
        BY <3>2, <4>1, <4>2
    <3> QED
      BY <3>1, <3>2
  <2> QED
    BY <2>4, <2>5 DEF SupersessionSound
<1> QED
  BY <1>1, <1>2, Invariance, PTL DEF Spec

-------------------------------------------------------------------------------
(* Clients that do not overlap their requests. *)

\* An update_memory in flight is alone, and holds the row as it still is.
Alone ==
    /\ \A r, s \in Requests : request[r] # Null /\ request[s] # Null => r = s
    /\ \A r \in Requests : request[r] # Null =>
          LET u == request[r] IN
          /\ u.existing = memory[u.memory_id].row
          /\ u.payload.status # Null =>
                TransitionAllowed(u.existing.status, u.payload.status)

LEMMA UpdateWriteFacts ==
    ASSUME IInv, NEW r \in Requests, UpdateWrite(r)
    PROVE  LET u == request[r]
               m == u.memory_id
               x == memory[m]
               y == [Updated(x, PatchedRow(x.row, u)) EXCEPT
                        !.evidence = Given(u.payload.evidence, x.evidence)]
           IN /\ u # Null /\ u \in UpdateInFlight
              /\ m \in Stored /\ m \in Memories /\ x \in StoredMemory /\ x.row \in MemoryRow
              /\ y.row = BeforeUpdate(x.row, PatchedRow(x.row, u))
              /\ memory' = memory \/ memory' = [memory EXCEPT ![m] = y]
              /\ request' = [request EXCEPT ![r] = Null]
<1> DEFINE u == request[r]
           m == u.memory_id
           x == memory[m]
           y == [Updated(x, PatchedRow(x.row, u)) EXCEPT
                    !.evidence = Given(u.payload.evidence, x.evidence)]
<1>1. u # Null /\ u \in UpdateInFlight /\ m \in Stored /\ m \in Memories
  BY DEF UpdateWrite, IInv, TypeOK, ReferencesStored, Stored
<1>2. x \in StoredMemory /\ x.row \in MemoryRow
  BY <1>1 DEF IInv, TypeOK, Stored, StoredMemory
<1>3. y.row = BeforeUpdate(x.row, PatchedRow(x.row, u))
  BY DEF Updated
<1>4. /\ memory' = memory \/ memory' = [memory EXCEPT ![m] = y]
      /\ request' = [request EXCEPT ![r] = Null]
  BY DEF UpdateWrite
<1> QED
  BY <1>1, <1>2, <1>3, <1>4

\* A request that starts an update, and no other, touches a request in flight.
LEMMA RequestSteps ==
    ASSUME [Next]_vars
    PROVE  \/ request' = request /\ (memory' = memory \/ MayStart)
           \/ \E r \in Requests, m \in Memories, payload \in Patches : UpdateRead(r, m, payload)
           \/ \E r \in Requests : UpdateWrite(r)
BY DEF Next, vars, CreateMemory, CreateSuperseding, DeleteMemory, ForgetMemory, CreateConflict,
       UpdateConflict

LEMMA StepKeepsAlone ==
    ASSUME Serialized, IInv, Alone, [Next]_vars
    PROVE  Alone'
<1>1. request \in [Requests -> UpdateInFlight \cup {Null}]
  BY DEF IInv, TypeOK
<1>2. CASE request' = request /\ (memory' = memory \/ MayStart)
  <2>1. CASE memory' = memory
    BY <1>2, <2>1 DEF Alone
  <2>2. CASE MayStart
    BY <1>2, <2>2 DEF Alone, MayStart, Idle
  <2> QED
    BY <1>2, <2>1, <2>2
<1>3. ASSUME NEW r \in Requests, NEW m \in Memories, NEW payload \in Patches,
             UpdateRead(r, m, payload)
      PROVE  Alone'
  <2> DEFINE u == [memory_id |-> m, existing |-> memory[m].row, payload |-> payload]
  <2>1. /\ \A s \in Requests : request[s] = Null
        /\ memory' = memory /\ request' = [request EXCEPT ![r] = u]
        /\ payload.status # Null => TransitionAllowed(memory[m].row.status, payload.status)
    BY <1>3 DEF UpdateRead, MayStart, Idle
  <2>2. u.memory_id = m /\ u.existing = memory[m].row /\ u.payload = payload
    OBVIOUS
  <2> HIDE DEF u
  <2>3. request'[r] = u /\ \A s \in Requests : s # r => request'[s] = Null
    BY <1>1, <2>1
  <2> QED
    BY <2>1, <2>2, <2>3 DEF Alone
<1>4. ASSUME NEW r \in Requests, UpdateWrite(r)
      PROVE  Alone'
  <2>1. request[r] # Null /\ request' = [request EXCEPT ![r] = Null]
    BY <1>4, UpdateWriteFacts
  <2>2. \A s \in Requests : request'[s] = Null
    BY <1>1, <2>1 DEF Alone
  <2> QED
    BY <2>2 DEF Alone
<1> QED
  BY <1>2, <1>3, <1>4, RequestSteps

LEMMA AloneInvariance == Serialized => (Spec => []Alone)
<1> SUFFICES ASSUME Serialized PROVE Spec => []Alone
  OBVIOUS
<1>1. Init => Alone
  BY DEF Init, Alone
<1>2. IInv /\ Alone /\ [Next]_vars => Alone'
  BY StepKeepsAlone
<1> QED
  BY <1>1, <1>2, Invariance, PTL DEF Spec

\* The UPDATE of a PATCH that was alone changes what the payload names.
LEMMA StepIsPartial ==
    ASSUME IInv, Alone, [Next]_vars, NEW r \in Requests, request[r] # Null, request'[r] = Null
    PROVE  LET u == request[r]
               old == memory[u.memory_id].row
               new == memory'[u.memory_id].row IN
           /\ u.payload.canonical_text = Null => new.canonical_text = old.canonical_text
           /\ u.payload.status = Null => new.status = old.status
           /\ u.payload.access_level = Null => new.access_level = old.access_level
<1>1. request \in [Requests -> UpdateInFlight \cup {Null}]
      /\ memory \in [Memories -> StoredMemory \cup {Null}]
  BY DEF IInv, TypeOK
<1>2. UpdateWrite(r)
  <2>1. ASSUME NEW s \in Requests, NEW m \in Memories, NEW payload \in Patches,
               UpdateRead(s, m, payload)
        PROVE  FALSE
    BY <1>1, <2>1 DEF UpdateRead
  <2>2. ASSUME NEW s \in Requests, UpdateWrite(s)
        PROVE  s = r
    BY <1>1, <2>2 DEF UpdateWrite
  <2> QED
    BY <2>1, <2>2, RequestSteps
<1> DEFINE u == request[r]
           m == u.memory_id
           x == memory[m]
           row == BeforeUpdate(x.row, PatchedRow(x.row, u))
<1>3. /\ m \in Memories /\ x.row \in MemoryRow /\ u.existing = x.row
      /\ memory'[m].row \in {x.row, row}
  BY <1>1, <1>2, UpdateWriteFacts DEF Alone
<1>4. /\ row.canonical_text = Given(u.payload.canonical_text, u.existing.canonical_text)
      /\ row.status = Given(u.payload.status, u.existing.status)
      /\ row.access_level = Given(u.payload.access_level, u.existing.access_level)
  BY <1>3 DEF BeforeUpdate, PatchedRow, MemoryRow
<1> HIDE DEF row
<1> QED
  BY <1>3, <1>4 DEF Given

\* A PATCH that no other request overlaps changes only the fields that its payload names
\* (update_memory).
THEOREM AlonePatchesPartially == Serialized => (Spec => PatchIsPartial)
<1> SUFFICES ASSUME Serialized PROVE Spec => PatchIsPartial
  OBVIOUS
<1>1. IInv /\ Alone /\ [Next]_vars =>
         [\A r \in Requests : request[r] # Null /\ request'[r] = Null =>
            LET u == request[r]
                old == memory[u.memory_id].row
                new == memory'[u.memory_id].row IN
            /\ u.payload.canonical_text = Null => new.canonical_text = old.canonical_text
            /\ u.payload.status = Null => new.status = old.status
            /\ u.payload.access_level = Null => new.access_level = old.access_level]_vars
  BY StepIsPartial
<1>2. Spec => []Alone
  BY AloneInvariance
<1> QED
  BY <1>1, <1>2, Invariance, PTL DEF Spec, PatchIsPartial

-------------------------------------------------------------------------------
(* The statuses that such clients see. *)

MayMove(m, to) == to = StatusOf(m) \/ to \in Abstract!MayBecome(StatusOf(m))

\* Statements that leave the status of every memory but two, and those where it may go.
LEMMA TwoMoves ==
    ASSUME NEW a \in Memories, NEW b \in Memories, NEW sa, NEW sb,
           \A m \in Memories : m # a /\ m # b => StatusOf(m)' = StatusOf(m),
           StatusOf(a)' = sa, MayMove(a, sa),
           StatusOf(b)' = sb, MayMove(b, sb)
    PROVE  Abstract!Next
<1> DEFINE st == [m \in Memories |-> StatusOf(m)]
<1>1. st' = [m \in Memories |-> StatusOf(m)']
  OBVIOUS
<1>2. [m \in Memories |-> StatusOf(m)']
        = [st EXCEPT ![a] = sa, ![b] = IF a = b THEN sa ELSE sb]
  <2>1. ASSUME NEW m \in Memories
        PROVE  StatusOf(m)' = [st EXCEPT ![a] = sa, ![b] = IF a = b THEN sa ELSE sb][m]
    OBVIOUS
  <2> QED
    BY <2>1
<1>3. /\ sa \in Abstract!MayBecome(st[a]) \cup {st[a]}
      /\ sb \in Abstract!MayBecome(st[b]) \cup {st[b]}
  BY DEF MayMove
<1>4. st' = [st EXCEPT ![a] = sa, ![b] = IF a = b THEN sa ELSE sb]
  BY <1>1, <1>2
<1>5. \E c, d \in Memories :
        \E sc \in Abstract!MayBecome(st[c]) \cup {st[c]},
           sd \in Abstract!MayBecome(st[d]) \cup {st[d]} :
            st' = [st EXCEPT ![c] = sc, ![d] = IF c = d THEN sc ELSE sd]
  <2> HIDE DEF st
  <2> QED
    BY <1>3, <1>4
<1> QED
  BY <1>5 DEF Abstract!Next

\* The status that each statement leaves is one that the abstract specification allows.
LEMMA StatementsMove ==
    ASSUME NEW m \in Memories, memory[m] \in StoredMemory, memory[m] # Null
    PROVE  LET x == memory[m] IN
           /\ \A k \in Memories : MayBeSuperseded(x) => MayMove(m, Superseded(x, k).row.status)
           /\ MayMove(m, SoftDeleted(x).row.status)
           /\ MayMove(m, Forgotten(x).row.status)
           /\ MayMove(m, MarkConflicted(x).row.status)
           /\ MayMove(m, Restored(x).row.status)
<1> DEFINE x == memory[m]
<1>1. x.row \in MemoryRow /\ x.row.status \in Statuses /\ StatusOf(m) = x.row.status
  BY DEF StoredMemory, MemoryRow, StatusOf
<1>2. \A new \in MemoryRow : Updated(x, new).row.status = new.status
  BY DEF Updated, BeforeUpdate, MemoryRow
<1>3. {"archived", "forgotten", "conflicted", "active", "superseded"} \subseteq Statuses
  BY DEF Statuses
<1>4. ASSUME NEW k \in Memories PROVE Superseded(x, k).row.status = "superseded"
  <2> DEFINE new == [x.row EXCEPT !.status = "superseded", !.valid_to = TRUE,
                                  !.superseded_by = k]
  <2>1. new \in MemoryRow /\ new.status = "superseded"
    BY <1>1, <1>3 DEF MemoryRow
  <2> QED
    BY <1>2, <2>1 DEF Superseded
<1>5. ASSUME NEW s \in Statuses
      PROVE  /\ Updated(x, [x.row EXCEPT !.status = s]).row.status = s
             /\ Updated(x, [x.row EXCEPT !.status = s, !.valid_to = TRUE]).row.status = s
  <2> DEFINE a == [x.row EXCEPT !.status = s]
             b == [x.row EXCEPT !.status = s, !.valid_to = TRUE]
  <2>1. a \in MemoryRow /\ a.status = s /\ b \in MemoryRow /\ b.status = s
    BY <1>1 DEF MemoryRow
  <2> QED
    BY <1>2, <2>1
<1>6. SoftDeleted(x).row.status = "archived" /\ Forgotten(x).row.status = "forgotten"
  BY <1>3, <1>5 DEF SoftDeleted, Forgotten
<1>7. MarkConflicted(x).row.status = IF x.row.status = "active" THEN "conflicted"
                                     ELSE x.row.status
  BY <1>3, <1>5 DEF MarkConflicted
<1>8. Restored(x).row.status = IF x.row.status = "conflicted" THEN "active"
                               ELSE x.row.status
  BY <1>3, <1>5 DEF Restored
<1>9. Null \notin Statuses
  BY NullAssumption
<1>10. \A s \in Statuses : /\ "archived" \in Abstract!MayBecome(s)
                           /\ "forgotten" \in Abstract!MayBecome(s)
  BY <1>9 DEF Abstract!MayBecome, Statuses
<1>11. /\ "conflicted" \in Abstract!MayBecome("active")
       /\ "superseded" \in Abstract!MayBecome("active")
       /\ "superseded" \in Abstract!MayBecome("conflicted")
       /\ "active" \in Abstract!MayBecome("conflicted")
  BY <1>9 DEF Abstract!MayBecome, Statuses
<1> QED
  BY <1>1, <1>4, <1>6, <1>7, <1>8, <1>10, <1>11 DEF MayMove, MayBeSuperseded

\* What _validate_status_transition lets a PATCH ask for, too.
LEMMA PatchesMove ==
    ASSUME NEW m \in Memories, memory[m] \in StoredMemory, memory[m] # Null,
           NEW to \in Statuses, TransitionAllowed(memory[m].row.status, to)
    PROVE  MayMove(m, to)
<1>1. memory[m].row.status \in Statuses /\ StatusOf(m) = memory[m].row.status
  BY DEF StoredMemory, MemoryRow, StatusOf
<1>2. Null \notin Statuses
  BY NullAssumption
<1>3. \A s \in Statuses : ALLOWED_STATUS_TRANSITIONS[s] \subseteq Abstract!MayBecome(s)
  <2>1. ALLOWED_STATUS_TRANSITIONS["candidate"] \subseteq Abstract!MayBecome("candidate")
    BY <1>2 DEF ALLOWED_STATUS_TRANSITIONS, Abstract!MayBecome, Statuses
  <2>2. ALLOWED_STATUS_TRANSITIONS["active"] \subseteq Abstract!MayBecome("active")
    BY <1>2 DEF ALLOWED_STATUS_TRANSITIONS, Abstract!MayBecome, Statuses
  <2>3. ALLOWED_STATUS_TRANSITIONS["conflicted"] \subseteq Abstract!MayBecome("conflicted")
    BY <1>2 DEF ALLOWED_STATUS_TRANSITIONS, Abstract!MayBecome, Statuses
  <2>4. ALLOWED_STATUS_TRANSITIONS["archived"] \subseteq Abstract!MayBecome("archived")
    BY <1>2 DEF ALLOWED_STATUS_TRANSITIONS, Abstract!MayBecome, Statuses
  <2>5. \A s \in {"forgotten", "superseded", "rejected"} :
           ALLOWED_STATUS_TRANSITIONS[s] \subseteq Abstract!MayBecome(s)
    BY DEF ALLOWED_STATUS_TRANSITIONS, Statuses
  <2> QED
    BY <2>1, <2>2, <2>3, <2>4, <2>5 DEF Statuses
<1> QED
  BY <1>1, <1>3 DEF TransitionAllowed, MayMove

\* A step of clients that do not overlap moves the statuses of at most two memories, and
\* each only where the abstract specification lets it go.
StatusesMove ==
    \E a, b \in Memories :
        /\ \A m \in Memories : m # a /\ m # b => StatusOf(m)' = StatusOf(m)
        /\ MayMove(a, StatusOf(a)') /\ MayMove(b, StatusOf(b)')

LEMMA OneMoves ==
    ASSUME NEW m \in Memories, NEW y, y # Null, MayMove(m, y.row.status),
           memory \in [Memories -> StoredMemory \cup {Null}], memory' = [memory EXCEPT ![m] = y]
    PROVE  StatusesMove
<1>1. /\ memory'[m] = y
      /\ \A k \in Memories : k # m => memory'[k] = memory[k]
  OBVIOUS
<1> QED
  BY <1>1 DEF StatusesMove, StatusOf

\* The endpoints of a conflict.
LEMMA PairMoves ==
    ASSUME NEW p \in Pairs, p \subseteq Stored, Stored \subseteq Stored',
           \A m \in Memories \ p : memory'[m] = memory[m],
           \A m \in p : MayMove(m, memory'[m].row.status)
    PROVE  StatusesMove
<1>1. PICK a \in Memories, b \in Memories : p = {a, b}
  BY DEF Pairs
<1>2. \A m \in p : MayMove(m, StatusOf(m)')
  BY DEF StatusOf, Stored
<1>3. \A m \in Memories : m # a /\ m # b => StatusOf(m)' = StatusOf(m)
  BY <1>1 DEF StatusOf
<1> QED
  BY <1>1, <1>2, <1>3 DEF StatusesMove

LEMMA StepMoves ==
    ASSUME Serialized, IInv, Alone, [Next]_vars
    PROVE  StatusesMove \/ \A m \in Memories : StatusOf(m)' = StatusOf(m)
<1>1. /\ memory \in [Memories -> StoredMemory \cup {Null}]
      /\ \A m \in Stored : m \in Memories /\ memory[m] \in StoredMemory /\ memory[m] # Null
      /\ Stored \subseteq Stored'
      /\ \A m \in Stored : memory'[m] # Null
  BY NextWritesMemories, MemoryWritesKeepGood DEF IInv, TypeOK, Stored
<1>2. CASE UNCHANGED memory
  BY <1>2 DEF StatusOf
<1>3. ASSUME NEW m \in Stored, NEW y, memory' = [memory EXCEPT ![m] = y],
             MayMove(m, y.row.status)
      PROVE  StatusesMove
  BY <1>1, <1>3, OneMoves
<1>4. ASSUME NEW payload \in NewMemories, payload.status \in ALLOWED_INITIAL_STATUSES,
             EvidenceInWorkspace(payload.evidence), NEW m \in Memories, memory[m] = Null
      PROVE  NewStored(payload) # Null /\ MayMove(m, NewStored(payload).row.status)
  <2>1. payload \in NewMemoryType
    BY PayloadAssumption
  <2>2. BoundEvidence(payload) \in SUBSET Evidence
    BY <1>4, <2>1 DEF BoundEvidence, EvidenceInWorkspace, Evidence, NewMemoryType
  <2>3. NewStored(payload) \in StoredMemory
    BY <2>1, <2>2, InsertedGood DEF NewStored, NewMemoryType, Good
  <2>4. NewStored(payload).row.status = payload.status
    BY DEF NewStored, Inserted
  <2>5. {"active", "candidate"} \subseteq Abstract!MayBecome(Null)
    BY NullAssumption DEF Abstract!MayBecome, Statuses
  <2> QED
    BY <1>4, <2>3, <2>4, <2>5, NullAssumption
    DEF MayMove, StatusOf, ALLOWED_INITIAL_STATUSES
<1>5. ASSUME NEW m \in Memories, NEW payload \in NewMemories, CreateMemory(m, payload)
      PROVE  StatusesMove
  <2>1. /\ memory[m] = Null /\ payload.status \in ALLOWED_INITIAL_STATUSES
        /\ EvidenceInWorkspace(payload.evidence)
        /\ memory' = [memory EXCEPT ![m] = NewStored(payload)]
    BY <1>5 DEF CreateMemory
  <2>2. NewStored(payload) # Null /\ MayMove(m, NewStored(payload).row.status)
    BY <1>4, <2>1
  <2> QED
    BY <1>1, <2>1, <2>2, OneMoves
<1>6. ASSUME NEW m \in Memories, NEW old \in Memories, NEW payload \in NewMemories,
             CreateSuperseding(m, payload, old)
      PROVE  StatusesMove
  <2>1. /\ memory[m] = Null /\ payload.status = "active" /\ old \in Stored
        /\ MayBeSuperseded(memory[old]) /\ EvidenceInWorkspace(payload.evidence)
        /\ memory' = [memory EXCEPT ![m] = NewStored(payload), ![old] = Superseded(@, m)]
    BY <1>6 DEF CreateSuperseding
  <2>2. m # old /\ payload.status \in ALLOWED_INITIAL_STATUSES
    BY <2>1 DEF Stored, ALLOWED_INITIAL_STATUSES
  <2>3. /\ memory'[m] = NewStored(payload) /\ memory'[old] = Superseded(memory[old], m)
        /\ \A k \in Memories : k # m /\ k # old => memory'[k] = memory[k]
    BY <1>1, <2>1, <2>2
  <2>4. MayMove(m, NewStored(payload).row.status) /\ NewStored(payload) # Null
    BY <1>4, <2>1, <2>2
  <2>5. MayMove(old, Superseded(memory[old], m).row.status)
    BY <1>1, <2>1, StatementsMove
  <2>6. memory'[m] # Null /\ memory'[old] # Null
    BY <1>1, <2>1, <2>3, <2>4
  <2>7. MayMove(m, StatusOf(m)') /\ MayMove(old, StatusOf(old)')
    BY <2>3, <2>4, <2>5, <2>6 DEF StatusOf
  <2>8. \A k \in Memories : k # m /\ k # old => StatusOf(k)' = StatusOf(k)
    BY <2>3 DEF StatusOf
  <2> QED
    BY <2>7, <2>8 DEF StatusesMove
<1>7. ASSUME NEW r \in Requests, UpdateWrite(r)
      PROVE  StatusesMove \/ \A m \in Memories : StatusOf(m)' = StatusOf(m)
  <2> DEFINE u == request[r]
             m == u.memory_id
             x == memory[m]
             y == [Updated(x, PatchedRow(x.row, u)) EXCEPT
                      !.evidence = Given(u.payload.evidence, x.evidence)]
  <2>1. /\ u # Null /\ u \in UpdateInFlight /\ m \in Stored /\ x.row \in MemoryRow
        /\ y.row = BeforeUpdate(x.row, PatchedRow(x.row, u))
        /\ memory' = memory \/ memory' = [memory EXCEPT ![m] = y]
    BY <1>7, UpdateWriteFacts
  <2>2. /\ u.existing = x.row
        /\ u.payload.status # Null => TransitionAllowed(x.row.status, u.payload.status)
    BY <2>1 DEF Alone
  <2>3. y.row.status = Given(u.payload.status, x.row.status)
    <3>1. BeforeUpdate(x.row, PatchedRow(x.row, u)).status
            = Given(u.payload.status, u.existing.status)
      BY <2>1 DEF BeforeUpdate, PatchedRow, MemoryRow
    <3> HIDE DEF y
    <3> QED
      BY <2>1, <2>2, <3>1
  <2>4. u.payload.status \in Statuses \cup {Null}
    BY <2>1 DEF UpdateInFlight, PatchType
  <2>5. StatusOf(m) = x.row.status
    BY <1>1, <2>1 DEF StatusOf
  <2>6. MayMove(m, y.row.status)
    <3> HIDE DEF y
    <3>1. CASE u.payload.status = Null
      BY <2>3, <2>5, <3>1 DEF Given, MayMove
    <3>2. CASE u.payload.status # Null
      BY <1>1, <2>1, <2>2, <2>3, <2>4, <3>2, PatchesMove DEF Given
    <3> QED
      BY <3>1, <3>2
  <2> HIDE DEF y
  <2> QED
    BY <1>2, <1>3, <2>1, <2>6
<1>8. ASSUME NEW m \in Memories, DeleteMemory(m) \/ ForgetMemory(m)
      PROVE  StatusesMove
  <2>1. m \in Stored /\ \/ memory' = [memory EXCEPT ![m] = SoftDeleted(memory[m])]
                        \/ memory' = [memory EXCEPT ![m] = Forgotten(memory[m])]
    BY <1>8 DEF DeleteMemory, ForgetMemory
  <2>2. /\ MayMove(m, SoftDeleted(memory[m]).row.status)
        /\ MayMove(m, Forgotten(memory[m]).row.status)
    BY <1>1, <2>1, StatementsMove
  <2> QED
    BY <1>3, <2>1, <2>2
<1>9. ASSUME NEW p \in Pairs, \/ CreateConflict(p)
                              \/ \E status \in ConflictStatuses : UpdateConflict(p, status)
      PROVE  StatusesMove \/ \A m \in Memories : StatusOf(m)' = StatusOf(m)
  <2>1. /\ p \subseteq Stored
        /\ \/ memory' = MarkedEndpoints(p)
           \/ memory' = RestoredEndpoints(p, conflict')
           \/ memory' = memory
    BY <1>9 DEF CreateConflict, UpdateConflict, IInv, ReferencesStored
  <2>2. CASE memory' = memory
    BY <1>2, <2>2
  <2>3. CASE memory' = MarkedEndpoints(p) \/ memory' = RestoredEndpoints(p, conflict')
    <3>1. \A m \in Memories \ p : memory'[m] = memory[m]
      BY <2>3 DEF MarkedEndpoints, RestoredEndpoints
    <3>2. \A m \in p : memory'[m] \in {memory[m], MarkConflicted(memory[m]),
                                       Restored(memory[m])}
      BY <1>1, <2>1, <2>3 DEF MarkedEndpoints, RestoredEndpoints
    <3>3. \A m \in p : MayMove(m, memory[m].row.status)
      BY <1>1, <2>1 DEF MayMove, StatusOf
    <3>4. \A m \in p : MayMove(m, memory'[m].row.status)
      BY <1>1, <2>1, <3>2, <3>3, StatementsMove
    <3> QED
      BY <1>1, <2>1, <3>1, <3>4, PairMoves
  <2> QED
    BY <2>1, <2>2, <2>3
<1>10. ASSUME NEW r \in Requests, NEW m \in Memories, NEW payload \in Patches,
              UpdateRead(r, m, payload)
       PROVE  UNCHANGED memory
  BY <1>10 DEF UpdateRead
<1> QED
  BY <1>2, <1>5, <1>6, <1>7, <1>8, <1>9, <1>10 DEF Next, vars

\* Clients that do not overlap their requests see the statuses move as MemoryStatus
\* promises: every step of the handlers is a step of it or leaves all statuses alone.
THEOREM AloneImplements == Serialized => (Spec => ImplementsMemoryStatus)
<1> SUFFICES ASSUME Serialized PROVE Spec => ImplementsMemoryStatus
  OBVIOUS
<1>1. Init => Abstract!Init
  BY DEF Init, Abstract!Init, StatusOf
<1>2. IInv /\ Alone /\ [Next]_vars => [Abstract!Next]_([m \in Memories |-> StatusOf(m)])
  <2> SUFFICES ASSUME IInv, Alone, [Next]_vars
               PROVE  \/ Abstract!Next
                      \/ [m \in Memories |-> StatusOf(m)]' = [m \in Memories |-> StatusOf(m)]
    OBVIOUS
  <2>1. CASE \A m \in Memories : StatusOf(m)' = StatusOf(m)
    BY <2>1
  <2>2. CASE StatusesMove
    <3>1. PICK a \in Memories, b \in Memories :
             /\ \A m \in Memories : m # a /\ m # b => StatusOf(m)' = StatusOf(m)
             /\ MayMove(a, StatusOf(a)') /\ MayMove(b, StatusOf(b)')
      BY <2>2 DEF StatusesMove
    <3>2. PICK sa, sb : sa = StatusOf(a)' /\ sb = StatusOf(b)'
      OBVIOUS
    <3> QED
      BY <3>1, <3>2, TwoMoves
  <2> QED
    BY <2>1, <2>2, StepMoves
<1>3. Spec => []Alone
  BY AloneInvariance
<1> QED
  BY <1>1, <1>2, <1>3, Invariance, PTL DEF Spec, ImplementsMemoryStatus, Abstract!Spec

\* The same clients never see a memory return to the working set once it left it.
THEOREM AloneKeepsRetired == Serialized => (Spec => RetiredStaysRetired)
<1> SUFFICES ASSUME Serialized PROVE Spec => RetiredStaysRetired
  OBVIOUS
<1>1. IInv /\ Alone /\ [Next]_vars =>
        [\A m \in Stored :
            memory[m].row.status \in Retired => memory'[m].row.status \in Retired]_vars
  <2> SUFFICES ASSUME IInv, Alone, [Next]_vars, NEW m \in Stored,
                      memory[m].row.status \in Retired
               PROVE  memory'[m].row.status \in Retired
    OBVIOUS
  <2>1. m \in Memories /\ memory[m] # Null /\ memory'[m] # Null
    BY NextWritesMemories, MemoryWritesKeepGood DEF Stored
  <2>2. StatusOf(m) = memory[m].row.status /\ StatusOf(m)' = memory'[m].row.status
    BY <2>1 DEF StatusOf
  <2>3. StatusOf(m)' = StatusOf(m) \/ MayMove(m, StatusOf(m)')
    BY <2>1, StepMoves DEF StatusesMove
  <2>4. Abstract!MayBecome(memory[m].row.status) = {"archived", "forgotten"}
    BY NullAssumption DEF Retired, Abstract!MayBecome, Statuses
  <2> QED
    BY <2>2, <2>3, <2>4 DEF MayMove, Retired
<1>2. Spec => []Alone
  BY AloneInvariance
<1> QED
  BY <1>1, <1>2, Invariance, PTL DEF Spec, RetiredStaysRetired
===============================================================================
