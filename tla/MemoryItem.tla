------------------------------ MODULE MemoryItem ------------------------------
(***************************************************************************)
(* One long-term memory as the database keeps it: its memory_item row, its *)
(* memory_revision rows, the audit_log rows that target it and the         *)
(* memory_evidence rows bound to it (database/02_schema_memory.sql), and   *)
(* what the triggers of database/06_triggers.sql do with every INSERT and  *)
(* UPDATE of the row.                                                      *)
(*                                                                         *)
(* The module is constant-level: an operator takes the stored memory and   *)
(* returns the one the statement and its triggers leave.  The modules that *)
(* model the request handlers assign the result.                           *)
(*                                                                         *)
(* Abstractions.  "canonical_text" stands for the revisioned content       *)
(* (canonical_text, summary), "access_level" for the fields that count as  *)
(* a revision but are not copied into it (confidence, importance,          *)
(* access_level), and "valid_to" only says whether the column is set.      *)
(***************************************************************************)
EXTENDS Naturals, Sequences

CONSTANTS
    Memories,       \* the memory ids of one workspace
    Texts,          \* contents of a memory
    AccessLevels,   \* values of access_level
    Chunks,         \* source chunks of the workspace
    ForeignChunks,  \* source chunks of other workspaces
    Inline,         \* the chunk made for an agent's note without evidence
    Null            \* SQL NULL, and "no such row"

Statuses == {"candidate", "active", "archived", "forgotten",
             "superseded", "rejected", "conflicted"}

\* Lifecycle table of the service: the statuses a PATCH may ask for next.
ALLOWED_STATUS_TRANSITIONS ==
    [s \in Statuses |->
        CASE s = "candidate"  -> {"active", "rejected"}
          [] s = "active"     -> {"superseded", "archived", "conflicted", "forgotten"}
          [] s = "conflicted" -> {"active", "superseded", "forgotten"}
          [] s = "archived"   -> {"forgotten"}
          [] OTHER            -> {}]

ALLOWED_INITIAL_STATUSES == {"active", "candidate"}

\* Fault: any status may follow any other.
TransitionUnchecked(current, next) == TRUE

\* _validate_status_transition
TransitionAllowed(current, next) ==
    current = next \/ next \in ALLOWED_STATUS_TRANSITIONS[current]

AuditActions == {"memory.insert", "memory.update", "memory.soft_delete", "memory.forget"}

MemoryRow == [status: Statuses, canonical_text: Texts, access_level: AccessLevels,
              valid_to: BOOLEAN, superseded_by: Memories \cup {Null},
              current_revision_no: Nat]
RevisionRow == [no: Nat, text: Texts]
AuditRow == [action: AuditActions, before: Statuses \cup {Null}, after: Statuses]
Evidence == Chunks \cup {Inline}

StoredMemory == [row: MemoryRow, revisions: SUBSET RevisionRow, audit: Seq(AuditRow),
                 evidence: SUBSET Evidence]

-------------------------------------------------------------------------------
(* The triggers of memory_item. *)

\* Fault: an edit of the text alone is not seen as a revision.
FieldsChangedExceptText(old, new) ==
    \/ new.status # old.status
    \/ new.access_level # old.access_level
    \/ new.valid_to # old.valid_to
    \/ new.superseded_by # old.superseded_by

\* Fault: the end of the validity window is not seen as a revision.
FieldsChangedExceptValidTo(old, new) ==
    \/ new.canonical_text # old.canonical_text
    \/ new.status # old.status
    \/ new.access_level # old.access_level
    \/ new.superseded_by # old.superseded_by

\* fn_memory_revision_fields_changed
RevisionFieldsChanged(old, new) ==
    \/ new.canonical_text # old.canonical_text
    \/ new.status # old.status
    \/ new.access_level # old.access_level
    \/ new.valid_to # old.valid_to
    \/ new.superseded_by # old.superseded_by

\* fn_memory_before_update: the row that is written.
BeforeUpdate(old, new) ==
    [new EXCEPT !.current_revision_no =
        IF RevisionFieldsChanged(old, new) THEN old.current_revision_no + 1
                                           ELSE old.current_revision_no]

\* Fault: the action is named after the new status alone.
AuditActionByNewStatus(old, new) ==
    IF new.status = "archived" THEN "memory.soft_delete"
    ELSE IF new.status = "forgotten" THEN "memory.forget"
    ELSE "memory.update"

\* fn_memory_after_update: the action type of the audit row.
AuditAction(old, new) ==
    IF new.status = "archived" /\ old.status # "archived" THEN "memory.soft_delete"
    ELSE IF new.status = "forgotten" /\ old.status # "forgotten" THEN "memory.forget"
    ELSE "memory.update"

\* UPDATE memory_item: the stored memory after the row's BEFORE and AFTER triggers.
Updated(x, new) ==
    LET row == BeforeUpdate(x.row, new) IN
    [row       |-> row,
     revisions |-> x.revisions \cup
                   (IF row.current_revision_no # x.row.current_revision_no
                    THEN {[no |-> row.current_revision_no, text |-> row.canonical_text]}
                    ELSE {}),
     audit     |-> Append(x.audit, [action |-> AuditAction(x.row, row),
                                    before |-> x.row.status, after |-> row.status]),
     evidence  |-> x.evidence]

\* INSERT INTO memory_item and fn_memory_after_insert; evidence is bound by the
\* statements that follow in the same transaction.
Inserted(status, text, access, evidence) ==
    [row       |-> [status |-> status, canonical_text |-> text, access_level |-> access,
                    valid_to |-> FALSE, superseded_by |-> Null, current_revision_no |-> 1],
     revisions |-> {[no |-> 1, text |-> text]},
     audit     |-> <<[action |-> "memory.insert", before |-> Null, after |-> status]>>,
     evidence  |-> evidence]

-------------------------------------------------------------------------------
(* The UPDATE statements the handlers and the conflict triggers issue. *)

\* Fault: the validity window of a superseded memory stays open.
SupersededStillValid(x, new) ==
    Updated(x, [x.row EXCEPT !.status = "superseded", !.superseded_by = new])

\* _insert_memory: the statement on the memory a new one supersedes.
Superseded(x, new) ==
    Updated(x, [x.row EXCEPT !.status = "superseded", !.valid_to = TRUE,
                             !.superseded_by = new])

\* delete_memory: soft delete, whatever the status is.
SoftDeleted(x) == Updated(x, [x.row EXCEPT !.status = "archived", !.valid_to = TRUE])

\* update_forget_request: WHERE status <> 'forgotten'.
Forgotten(x) ==
    IF x.row.status = "forgotten" THEN x
    ELSE Updated(x, [x.row EXCEPT !.status = "forgotten", !.valid_to = TRUE])

\* fn_conflict_mark_memory_conflicted: WHERE status = 'active'.
MarkConflicted(x) ==
    IF x.row.status = "active" THEN Updated(x, [x.row EXCEPT !.status = "conflicted"])
                               ELSE x

\* Fault: the statement restores whatever status it finds.
RestoredUnconditionally(x) == Updated(x, [x.row EXCEPT !.status = "active"])

\* The statement of fn_conflict_restore_memory_if_clear: WHERE status = 'conflicted'.
Restored(x) ==
    IF x.row.status = "conflicted" THEN Updated(x, [x.row EXCEPT !.status = "active"])
                                   ELSE x

-------------------------------------------------------------------------------
(* What the rows of one memory say together. *)

\* The revision rows are numbered 1..current_revision_no without a gap or a
\* repeat, and the newest one holds the text of the row.
RevisionsMatch(x) ==
    /\ {v.no : v \in x.revisions} = 1 .. x.row.current_revision_no
    /\ \A v, w \in x.revisions : v.no = w.no => v = w
    /\ [no |-> x.row.current_revision_no, text |-> x.row.canonical_text] \in x.revisions

\* The audit rows form one unbroken chain of before and after images from the
\* insert to the present row, and only the row that took the memory out of
\* another status into archived or forgotten is a soft_delete or a forget.
AuditMatches(x) ==
    /\ Len(x.audit) > 0
    /\ x.audit[1].action = "memory.insert" /\ x.audit[1].before = Null
    /\ x.audit[Len(x.audit)].after = x.row.status
    /\ \A i \in 2 .. Len(x.audit) :
        LET a == x.audit[i] IN
        /\ a.before = x.audit[i - 1].after
        /\ a.action # "memory.insert"
        /\ a.action = "memory.soft_delete" <=> (a.after = "archived"  /\ a.before # "archived")
        /\ a.action = "memory.forget"      <=> (a.after = "forgotten" /\ a.before # "forgotten")
===============================================================================
