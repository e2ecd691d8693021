--------------------------- MODULE ForgetAndExport ---------------------------
(***************************************************************************)
(* Forget requests and wiki exports over the same memories.                *)
(*                                                                         *)
(* An export builds the page from the active memories in one transaction,  *)
(* looks its page up and writes it with a new revision in a second one,    *)
(* and writes the Markdown file when that has committed: it truncates the  *)
(* file, then writes it, and nothing keeps two exports of one page apart.  *)
(* A PATCH reads the memory in one transaction and writes it in another.   *)
(* A reviewed forget request is one transaction: it locks its own row FOR  *)
(* UPDATE, forgets the target and, for a memory, the pages generated from  *)
(* it.                                                                     *)
(*                                                                         *)
(* The memories have been accepted: their status is one that an active     *)
(* memory can reach.  A version stands for what a page shows of a memory.  *)
(* The marks and restores of conflicts and the UPDATE of a superseding     *)
(* create take a memory where a PATCH can take it too, and have no action  *)
(* of their own.  Requests for documents and entities take the path of     *)
(* those for pages.                                                        *)
(***************************************************************************)
EXTENDS Naturals, FiniteSets

CONSTANTS
    Memories, Slugs,
    Requests,       \* forget requests
    Exports,        \* concurrent exports
    Patches,        \* concurrent PATCH requests of memories
    Changing,       \* bound: the memories that are patched, deleted and forgotten
    MaxVersion,     \* bound: the contents of a memory are 0 .. MaxVersion
    MaxRevision,    \* bound on the revisions of a page
    Torn,           \* a file that is empty, cut off or a mix of two bodies
    Null

ASSUME BoundsAssumption == MaxVersion \in Nat /\ MaxRevision \in Nat
ASSUME ChangingAssumption == Changing \subseteq Memories

VARIABLES
    memory,     \* memory[m]: status, content version, number of memory.forget audit rows
    page,       \* page[s]: the wiki_page row of slug s, or Null
    revision,   \* revision[s]: the wiki_page_revision rows of that page
    file,       \* file[s]: body of the Markdown file, Torn, or Null
    export,     \* export[e]: an export in flight, or Null
    patch,      \* patch[p]: a PATCH between its two transactions, or Null
    request     \* request[q]: the forget_request row, or Null

vars == <<memory, page, revision, file, export, patch, request>>

\* Audit rows are counted up to the two that a verification asks for.
Count == 0 .. 2
Counted(n) == IF n = 2 THEN 2 ELSE n + 1

Bodies == SUBSET [memory: Memories, version: 0 .. MaxVersion]
RequestStatuses == {"pending", "approved", "rejected", "done"}

Statuses == {"active", "conflicted", "superseded", "archived", "forgotten"}

\* Fault: an archived memory may be taken up again.
TransitionsBackFromArchive ==
    [active     |-> {"superseded", "archived", "conflicted", "forgotten"},
     conflicted |-> {"active", "superseded", "forgotten"},
     superseded |-> {}, archived |-> {"active", "forgotten"}, forgotten |-> {}]

\* Lifecycle table of the service: the statuses a PATCH may ask for next.
ALLOWED_STATUS_TRANSITIONS ==
    [active     |-> {"superseded", "archived", "conflicted", "forgotten"},
     conflicted |-> {"active", "superseded", "forgotten"},
     superseded |-> {}, archived |-> {"forgotten"}, forgotten |-> {}]

MemoryRow == [status: Statuses, version: 0 .. MaxVersion, forgets: Count]
PageRow == [status: {"active", "forgotten"}, needs_rebuild: BOOLEAN,
            generated_from: Memories \cup {Null}, current_revision_no: 1 .. MaxRevision,
            forgets: Count]
RevisionRow == [no: 1 .. MaxRevision, body: Bodies]
ExportInFlight == [at: {"look_up", "write_page", "write_file", "writing"}, slug: Slugs,
                   memory_ids: SUBSET Memories, body: Bodies, existing: 0 .. MaxRevision,
                   shared: BOOLEAN]
PatchInFlight == [memory_id: Memories, existing: Statuses, status: Statuses,
                  version: 0 .. MaxVersion]
RequestRow == [target: Memories \cup Slugs, status: RequestStatuses, updates: Count]

\* Null is no row, and a request says whether its target is a memory or a page.
ASSUME NullAssumption ==
    /\ Null \notin PageRow /\ Null \notin RequestRow
    /\ Null \notin ExportInFlight /\ Null \notin PatchInFlight
    /\ Torn # Null /\ \A body \in Bodies : body \notin {Null, Torn}
ASSUME TargetAssumption == (Memories \cup {Null}) \cap Slugs = {}

TypeOK ==
    /\ memory \in [Memories -> MemoryRow]
    /\ page \in [Slugs -> PageRow \cup {Null}]
    /\ revision \in [Slugs -> SUBSET RevisionRow]
    /\ file \in [Slugs -> {Null, Torn} \cup Bodies]
    /\ export \in [Exports -> ExportInFlight \cup {Null}]
    /\ patch \in [Patches -> PatchInFlight \cup {Null}]
    /\ request \in [Requests -> RequestRow \cup {Null}]

Init ==
    /\ memory = [m \in Memories |-> [status |-> "active", version |-> 0, forgets |-> 0]]
    /\ page = [s \in Slugs |-> Null]
    /\ revision = [s \in Slugs |-> {}]
    /\ file = [s \in Slugs |-> Null]
    /\ export = [e \in Exports |-> Null]
    /\ patch = [p \in Patches |-> Null]
    /\ request = [q \in Requests |-> Null]

-------------------------------------------------------------------------------
(* Memories. *)

GeneratedFrom(s, m) == page[s] # Null /\ page[s].generated_from = m
Published(s) == page[s] # Null /\ page[s].status = "active"

\* Fault: a revision of the memory leaves its pages as they are.
PagesUnmarked(m) == page

\* fn_mark_wiki_rebuild_for_memory, by the trigger of a revised memory.
MarkedForRebuild(m) ==
    [s \in Slugs |-> IF GeneratedFrom(s, m) THEN [page[s] EXCEPT !.needs_rebuild = TRUE]
                                            ELSE page[s]]

\* update_memory, first transaction: the status asked for is checked against the status it
\* reads, which the write repeats if none is asked for.
ReadForPatch(p, m, version, status) ==
    LET existing == memory[m].status IN
    /\ patch[p] = Null
    /\ status = existing \/ status \in ALLOWED_STATUS_TRANSITIONS[existing]
    /\ patch' = [patch EXCEPT ![p] = [memory_id |-> m, existing |-> existing,
                                      status |-> status, version |-> version]]
    /\ UNCHANGED <<memory, page, revision, file, export, request>>

\* The row an UPDATE of status and content leaves, and the memory.forget audit row it adds.
RowWithStatus(row, status, version) ==
    [status |-> status, version |-> version,
     forgets |-> IF status = "forgotten" /\ row.status # "forgotten" THEN Counted(row.forgets)
                 ELSE row.forgets]

\* update_memory, second transaction: the UPDATE looks at neither the status nor the content
\* that it finds.  A row that stays as it was is no revision.
WritePatch(p) ==
    LET x == patch[p]
        m == x.memory_id
    IN
    /\ x # Null
    /\ memory' = [memory EXCEPT ![m] = RowWithStatus(@, x.status, x.version)]
    /\ page' = IF memory[m].status = x.status /\ memory[m].version = x.version THEN page
               ELSE MarkedForRebuild(m)
    /\ patch' = [patch EXCEPT ![p] = Null]
    /\ UNCHANGED <<revision, file, export, request>>

\* delete_memory; a second delete is no revision.
DeleteMemory(m) ==
    /\ memory[m].status # "archived"
    /\ memory' = [memory EXCEPT ![m].status = "archived"]
    /\ page' = MarkedForRebuild(m)
    /\ UNCHANGED <<revision, file, export, patch, request>>

-------------------------------------------------------------------------------
(* export_page; export_pages repeats it page by page. *)

\* _build_markdown: the active memories among those asked for.
BodyOf(ids) == {[memory |-> m, version |-> memory[m].version] :
                   m \in {k \in ids : memory[k].status = "active"}}

StartExport(e, s, ids) ==
    /\ export[e] = Null
    /\ export' = [export EXCEPT ![e] =
            [at |-> "look_up", slug |-> s, memory_ids |-> ids, existing |-> 0,
             body |-> BodyOf(ids), shared |-> FALSE]]
    /\ UNCHANGED <<memory, page, revision, file, patch, request>>

LookUpPage(e) ==
    LET x == export[e] IN
    /\ x # Null /\ x.at = "look_up"
    /\ export' = [export EXCEPT ![e].at = "write_page",
                                ![e].existing = IF page[x.slug] = Null THEN 0
                                                ELSE page[x.slug].current_revision_no]
    /\ UNCHANGED <<memory, page, revision, file, patch, request>>

\* A page asked for with one memory is generated from it, also when the memory is not
\* active and the body does not show it.
GeneratedFromMemory(ids) == IF Cardinality(ids) = 1 THEN CHOOSE m \in ids : TRUE ELSE Null

\* Fault: no key keeps two revisions of one number apart.
AcceptedWithoutKey(x) == TRUE

\* UNIQUE (workspace_id, page_slug) and the key (page_id, revision_no): the second of two
\* exports that looked up the same state fails and rolls back.
Accepted(x) ==
    IF x.existing = 0 THEN page[x.slug] = Null
    ELSE \A v \in revision[x.slug] : v.no # x.existing + 1

\* The upsert of wiki_page; status and generated_from_memory_id survive an update.
RowAfterExport(x) ==
    IF page[x.slug] = Null
    THEN [status |-> "active", needs_rebuild |-> FALSE,
          generated_from |-> GeneratedFromMemory(x.memory_ids),
          current_revision_no |-> 1, forgets |-> 0]
    ELSE [page[x.slug] EXCEPT !.needs_rebuild = FALSE,
                              !.current_revision_no = x.existing + 1]

WritePage(e) ==
    LET x == export[e] IN
    /\ x # Null /\ x.at = "write_page"
    /\ x.existing < MaxRevision
    /\ IF Accepted(x)
       THEN /\ page' = [page EXCEPT ![x.slug] = RowAfterExport(x)]
            /\ revision' = [revision EXCEPT ![x.slug] =
                                @ \cup {[no |-> x.existing + 1, body |-> x.body]}]
            /\ export' = [export EXCEPT ![e].at = "write_file"]
       ELSE /\ export' = [export EXCEPT ![e] = Null]
            /\ UNCHANGED <<page, revision>>
    /\ UNCHANGED <<memory, file, patch, request>>

\* Fault: the file is written before the page.
FileReadyBeforeCommit(x) == x.at \in {"write_page", "write_file"}

\* The file waits for the commit.
FileReady(x) == x.at = "write_file"

\* The exports that have the file of page s open.
Writers(s) == {e \in Exports : export[e] # Null /\ export[e].at = "writing" /\ export[e].slug = s}

\* _write_markdown_file opens the file, which truncates it under whoever else has it open.
OpenFile(e) ==
    LET x == export[e]
        others == Writers(x.slug)
    IN
    /\ x # Null /\ FileReady(x)
    /\ file' = [file EXCEPT ![x.slug] = Torn]
    /\ export' = [f \in Exports |->
                    IF f = e THEN [x EXCEPT !.at = "writing", !.shared = others # {}]
                    ELSE IF f \in others THEN [export[f] EXCEPT !.shared = TRUE]
                    ELSE export[f]]
    /\ UNCHANGED <<memory, page, revision, patch, request>>

\* A part of the body reaches the file, or falls into what another export wrote there.
WritePart(e) ==
    LET x == export[e] IN
    /\ x # Null /\ x.at = "writing"
    /\ file' = [file EXCEPT ![x.slug] = Torn]
    /\ UNCHANGED <<memory, page, revision, export, patch, request>>

\* What the last write leaves: the body, or between two exports that had the file open
\* together also what the other one left, or a mix of both.
MayLeave(x) == IF x.shared THEN {x.body, file[x.slug], Torn} ELSE {x.body}

CloseFile(e) ==
    LET x == export[e] IN
    /\ x # Null /\ x.at = "writing"
    /\ \E contents \in MayLeave(x) : file' = [file EXCEPT ![x.slug] = contents]
    /\ export' = [export EXCEPT ![e] = Null]
    /\ UNCHANGED <<memory, page, revision, patch, request>>

\* The process stops or an exception ends the handler: what has committed stays, and the
\* file is as it was then, missing or older (also when the request asks for none), or torn.
AbandonExport(e) ==
    /\ export[e] # Null
    /\ export' = [export EXCEPT ![e] = Null]
    /\ UNCHANGED <<memory, page, revision, file, patch, request>>

-------------------------------------------------------------------------------
(* Forget requests. *)

\* _require_forget_target
TargetExists(target) == target \in Slugs => page[target] # Null

CreateForgetRequest(q, target) ==
    /\ request[q] = Null
    /\ TargetExists(target)
    /\ request' = [request EXCEPT ![q] =
                    [target |-> target, status |-> "pending", updates |-> 0]]
    /\ UNCHANGED <<memory, page, revision, file, export, patch>>

\* Fault: the pages generated from the memory keep their status.
PagesKept(m) == MarkedForRebuild(m)

\* The UPDATE of wiki_page that follows the memory's own; it writes no audit row.
PagesForgotten(m) ==
    [s \in Slugs |-> IF GeneratedFrom(s, m) /\ page[s].status # "forgotten"
                     THEN [page[s] EXCEPT !.status = "forgotten", !.needs_rebuild = FALSE]
                     ELSE IF memory[m].status # "forgotten" THEN MarkedForRebuild(m)[s]
                     ELSE page[s]]

ForgetMemory(m) ==
    /\ memory' = IF memory[m].status = "forgotten" THEN memory
                 ELSE [memory EXCEPT ![m] = RowWithStatus(@, "forgotten", @.version)]
    /\ page' = PagesForgotten(m)

\* _soft_forget_governed_target
ForgetPage(s) ==
    /\ page' = IF page[s].status = "forgotten" THEN page
               ELSE [page EXCEPT ![s].status = "forgotten", ![s].forgets = Counted(@)]
    /\ UNCHANGED memory

\* update_forget_request.  The same status by the same reviewer returns at once; another
\* reviewer may repeat it, but a pending request has no reviewer.
UpdateForgetRequest(q, status) ==
    /\ request[q] # Null
    /\ ~(status = "pending" /\ request[q].status = "pending")
    /\ IF status \in {"approved", "done"}
       THEN \/ request[q].target \in Memories /\ ForgetMemory(request[q].target)
            \/ request[q].target \in Slugs /\ ForgetPage(request[q].target)
       ELSE UNCHANGED <<memory, page>>
    /\ request' = [request EXCEPT ![q].status = status, ![q].updates = Counted(@)]
    /\ UNCHANGED <<revision, file, export, patch>>

\* verify_forget_request: the checks it makes, and what it reports; the row of its own that it
\* adds to the audit log is not among those it counts, which are those of the request's
\* reviews and of the forgetting of the target.
TargetStatus(q) == IF request[q].target \in Memories THEN memory[request[q].target].status
                                                    ELSE page[request[q].target].status
TargetForgets(q) == IF request[q].target \in Memories THEN memory[request[q].target].forgets
                                                     ELSE page[request[q].target].forgets
AuditCoverage(q) == request[q].updates + TargetForgets(q) >= 2
Checks(q) ==
    [target_soft_deleted |-> TargetStatus(q) = "forgotten",
     retrieval_exclusion |-> request[q].target \in Memories => TargetStatus(q) # "active",
     wiki_export_exclusion |->
        \A s \in Slugs : ~(Published(s) /\ GeneratedFrom(s, request[q].target)),
     audit_coverage |-> AuditCoverage(q)]
VerificationPassed(q) == \A check \in DOMAIN Checks(q) : Checks(q)[check]

-------------------------------------------------------------------------------
Next ==
    \/ \E p \in Patches, m \in Changing, version \in 0 .. MaxVersion, status \in Statuses :
          ReadForPatch(p, m, version, status)
    \/ \E p \in Patches : WritePatch(p)
    \/ \E m \in Changing : DeleteMemory(m)
    \/ \E e \in Exports, s \in Slugs, ids \in (SUBSET Memories) \ {{}} : StartExport(e, s, ids)
    \/ \E e \in Exports : LookUpPage(e)
    \/ \E e \in Exports : WritePage(e)
    \/ \E e \in Exports : OpenFile(e)
    \/ \E e \in Exports : WritePart(e)
    \/ \E e \in Exports : CloseFile(e)
    \/ \E e \in Exports : AbandonExport(e)
    \/ \E q \in Requests, target \in Changing \cup Slugs : CreateForgetRequest(q, target)
    \/ \E q \in Requests, status \in RequestStatuses : UpdateForgetRequest(q, status)

Spec == Init /\ [][Next]_vars

-------------------------------------------------------------------------------
(* Properties. *)

\* However exports of one page overlap or fail, its revisions are numbered from 1 to its
\* current_revision_no, one body each.
RevisionsNumbered ==
    \A s \in Slugs :
        /\ {v.no : v \in revision[s]} =
              IF page[s] = Null THEN {} ELSE 1 .. page[s].current_revision_no
        /\ \A v, w \in revision[s] : v.no = w.no => v = w

\* Wherever an export is cut off, and however two exports of one page overlap in writing
\* their files, a file that is not torn holds a committed revision of its page: an export
\* that fails in the database never reaches the file.
FileIsARevision ==
    \A s \in Slugs : file[s] \notin {Null, Torn} => \E v \in revision[s] : v.body = file[s]

Shown(s) ==
    UNION {v.body : v \in {w \in revision[s] : w.no = page[s].current_revision_no}}
Approved(q) == request[q] # Null /\ request[q].status \in {"approved", "done"}

\* The step writes page s from a body that is no longer what its memories say: an edit, a
\* delete or a forget request came between the two transactions of the export.
StaleWrite(s) ==
    \E e \in Exports :
        /\ export[e] # Null /\ export[e].at = "write_page" /\ export[e].slug = s
        /\ export'[e] # export[e]
        /\ export[e].body # BodyOf(export[e].memory_ids)

\* A published page that shows another version of the memory it is generated from, or one
\* that is not active any more, needs a rebuild.
FreshOrFlagged(s, m) ==
    Published(s) /\ GeneratedFrom(s, m) /\ ~page[s].needs_rebuild
        => \A b \in Shown(s) : b.memory = m =>
              b.version = memory[m].version /\ memory[m].status = "active"

\* "Marks direct wiki projections as stale when their source memory changes"
\* (database/06_triggers.sql): nothing but an export that overlapped with the change makes
\* a page show another version without the mark, whatever patches, deletes, forget requests
\* and other exports do.
OnlyOverlapLosesTheMark ==
    [][\A s \in Slugs, m \in Memories :
        FreshOrFlagged(s, m) /\ ~FreshOrFlagged(s, m)' => StaleWrite(s)]_vars

\* A page generated from the target of an approved request does not show it.
Unpublished(q, s) ==
    Approved(q) /\ Published(s) /\ GeneratedFrom(s, request[q].target)
        => \A b \in Shown(s) : b.memory # request[q].target

\* Out of the working set: no request of a client takes a memory back from here.
Retired(m) == memory[m].status \in {"superseded", "archived", "forgotten"}

\* The step writes memory m by a PATCH that was checked against another status than the one
\* it finds: a delete, a forget request or another PATCH came between its transactions.
StalePatch(m) ==
    \E p \in Patches :
        /\ patch[p] # Null /\ patch'[p] = Null
        /\ patch[p].memory_id = m /\ patch[p].existing # memory[m].status

\* "Wiki exports do not contain forgotten content" (22-backend-memory-roadmap.md), as far as
\* the code keeps it: what an approval has taken out is shown again in a page generated from
\* it only by an export that overlapped with the approval, or by an export of a memory that
\* is back; and a memory comes back only by a PATCH that overlapped with what retired it.
OnlyOverlapUndoesForgetting ==
    [][/\ \A m \in Memories : Retired(m) /\ ~Retired(m)' => StalePatch(m)
       /\ \A q \in Requests, s \in Slugs :
             Unpublished(q, s) /\ ~Unpublished(q, s)' =>
                 \/ StaleWrite(s)
                 \/ request[q].target \in Memories /\ ~Retired(request[q].target)']_vars

\* "Verification report proves the forgetting request took effect"
\* (22-backend-memory-roadmap.md): a verification that follows an approval at once passes,
\* but for the one way to forget that leaves no audit row, with the memory a page is
\* generated from.
ApprovalVerified ==
    [][\A q \in Requests :
        ~Approved(q) /\ Approved(q)' =>
            \/ VerificationPassed(q)'
            \/ /\ request[q].target \in Slugs
               /\ page[request[q].target].status = "forgotten"
               /\ page[request[q].target].forgets = 0]_vars
===============================================================================
