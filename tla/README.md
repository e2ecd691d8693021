# MemoryBase in TLA+

Specifications, model-checking configurations and machine-checked proofs for MemoryBase, the
long-term memory service of this repository (`src/backend`, `src/database`), its command line and its
evaluation runner (`src/evaluation`). Paths below are relative to `src/`.

## 1. The system

MemoryBase is a FastAPI application over PostgreSQL. Handlers are plain functions, so the framework
runs them in a thread pool and requests are really concurrent. Each `Database.connection()`
(`backend/app/core/database.py:11-19`) opens a PostgreSQL session of its own with one transaction at
READ COMMITTED: the handler commits explicitly, an exception rolls back, and every statement sees what
has committed when it starts. A handler that opens two connections is two transactions, and other
requests commit between them. Part of the logic is in triggers (`database/06_triggers.sql`), which run
inside the statement that fires them. Neo4j holds a copy of the graph of a workspace, written by
statements in transactions of their own. The evaluation runner and `mb context` are clients that make
many calls, any of which may fail.

### Components

| component | state | operations | what can go wrong | what makes it correct |
|---|---|---|---|---|
| Memory store (`services/memory_service.py`, triggers) | `memory_item`, `memory_revision`, `memory_evidence`, audit rows | create (single, batch, superseding), PATCH, approve and reject, DELETE | PATCH reads in one transaction and writes in another; triggers number revisions under overlap; supersession of memories that were brought back | every change has exactly one revision and one audit row; revisions are 1..n; retired memories stay retired; a PATCH changes what it names |
| Conflict records and detection (`governance_service.py`, triggers) | `conflict_record`, status of two memories | create, update (open, resolved, ignored), detect | the trigger looks at other conflicts it cannot see yet; two row locks per request; a detection works on a list that is out of date | endpoints of open conflicts are conflicted, others are restored; no deadlock; every request ends |
| Forget requests (`governance_service.py`) | `forget_request`, status of memory, page, document or entity | create, review, verify | the review reaches pages only through one column; an export in flight | forgotten content is not served or published; a verification passes when the request took effect |
| Wiki export (`wiki_service.py`) | `wiki_page`, `wiki_page_revision`, Markdown files | export one page, export many | body built in one transaction, page written in another, file truncated and then written after the commit | page is fresh or marked for a rebuild; revisions numbered; no file holds a body that was never committed |
| Policies and visibility (`governance_service.py`, `database/05_views.sql`) | `access_policy`, audit rows | create, update, delete; `v_agent_visible_memory` | an update or delete reads the policy without a lock, then writes and audits it | the last audit row shows the policy; an update changes the fields it is given; deny beats allow |
| Candidate extraction (`memory_extraction_service.py`, `llm_analysis.py`, `llm_service.py`) | audit rows of a run, candidate memories | extract from chunks, approve, reject, list | a run commits its start, every candidate and its end separately; a model answers anything | every candidate is accounted for by its run; no text proposed twice; the run ends |
| Sources and chunking (`source_service.py`, `chunking.py`) | `source_document`, `source_chunk` | import, list | imports of one text overlap; windows with an overlap | a text is stored once; every line is in a chunk, windows advance |
| Conversations and agents (`conversation_service.py`, `agent_service.py`) | sessions, messages, agents | create, observe (single, batch), list | messages carry the time their transaction began and commit in another order | a listing is chronological, recent and complete |
| Embeddings (`embedding_service.py`) | vectors per memory and text, per chunk | embed one, backfill | provider fails and is retried; the text changes meanwhile | every job ends |
| Recall (`recall_service.py`) | `recall_log` | recall by keyword, vector or both | several statements while data and policies change; limit before merging; fallback | at most `limit` distinct memories that the filters admitted, grounded in chunks that are there |
| Search (`search_service.py`) | none | search | four strategies fused in one statement | the permissions of recall |
| Context packs (`context_pack_service.py`) | none | format | budget loops | budget kept, best memories kept, formatting ends if the text can be cut to the budget |
| Command line: `mb context` (`cli/commands/context.py`, `context_renderer.py`, `repo_context.py`) | none | one command of several calls | calls fail; limits and lists of paths | order of the parts, no file twice, the command ends |
| Graph projection (`graph_service.py`) | Neo4j copy of a workspace | sync, load with fallback, preview | delete and rebuild in separate statements, overlapping syncs | the last whole sync is there; nothing hidden is shown |
| Evaluation runner and judge (`evaluation/`) | memories of a run, CSV files | run, run grouped, judge, resume | any call fails, with or without its effect; kills | store and reference hold the same conversation; leftovers are explained; each case once; verdicts kept |
| Timeline, audit queries, semantic lists, statistics | none of their own | one INSERT; read-only queries | - | - |
| HTTP routes, models, settings, other commands, scripts, frontend | none | one service call each | - | - |

Interactions: the memory triggers write revisions, audit rows and `wiki_page.needs_rebuild`; the
conflict triggers update memories and so fire the memory triggers; an approved forget request updates
memories and pages; extraction creates candidates through the memory store, and approving one is a
PATCH; recall, search and the graph read memories through the visibility view and vectors of the
embedding jobs; a pack is made from a recall, and `mb context` from a pack, a search, a listing of
messages and the working tree; the evaluation runner drives all of it.

## 2. Modules

| module | kind | what it is |
|---|---|---|
| `MemoryItem` | constant-level | a stored memory (row, revision rows, audit rows, evidence) and what each SQL statement with its triggers does to it |
| `MemoryLifecycle` | specification | every request that writes memories; PATCH as two transactions, the others as one |
| `MemoryStatus` | abstract | how the status of a memory may move, for clients that do not overlap requests |
| `ConflictTransactions` | specification | `create_conflict`, `update_conflict` and `detect_memory_conflicts` statement by statement, with visibility and row locks |
| `ConflictRecords` | abstract | the same requests as atomic steps |
| `ForgetAndExport` | specification | forget requests, wiki exports and PATCH requests over the same memories |
| `AgentVisibility` | specification | access policies, their audit rows, and the memories an agent sees |
| `EmbeddingIndex` | component, EXTENDS `AgentVisibility` | embedding jobs, provider retries and the stored vectors |
| `Search` | component, EXTENDS `EmbeddingIndex` | the statement behind a search |
| `Recall` | specification, EXTENDS `Search` | a recall statement by statement next to all of the above |
| `GraphProjection` | specification, EXTENDS `AgentVisibility` | syncs and loads of the workspace graph |
| `Chunking` | constant-level | `build_chunks` as a function of line lengths |
| `Ingestion` | specification, EXTENDS `Chunking` | imports, notes and extraction runs |
| `Conversation` | component | sessions, messages and their listing |
| `ContextPack` | component | the pack formatter with its budget loops |
| `UnifiedContext` | specification, EXTENDS both | `mb context` |
| `Evaluation`, `Judging` | component and specification | the benchmark runner, and the judge of its output |
| `MemoryLifecycleProofs`, `ConflictTransactionsProofs`, `ForgetAndExportProofs`, `GraphProjectionProofs`, `EvaluationProofs`, `IngestionProofs`, `RecallProofs`, `UnifiedContextProofs` | proofs | theorems about the module of that name for any values of the constants; `GraphProjectionProofs` begins with those about `AgentVisibility`, on which `RecallProofs` builds; `RecallProofs` is about `EmbeddingIndex` and `Search` as well, `EvaluationProofs` about `Judging` with `Evaluation` in it, and `UnifiedContextProofs` about `Conversation` and `ContextPack` |
| `MC*` | model checking | finite sets, payloads and symmetry for TLC |

### How the modules correspond to the code

`MemoryItem.Updated(x, new)` is one `UPDATE memory_item` statement: `fn_memory_before_update` decides
the revision number, `fn_memory_after_update` adds the revision row and the audit row. The statements
of the handlers (`Superseded`, `SoftDeleted`, `Forgotten`, `MarkConflicted`, `Restored`) are calls of
it with the assigned columns and the WHERE clause. Columns are grouped by what the triggers do with
them: `canonical_text` stands for text and summary (revisioned and copied), `access_level` for
confidence, importance and access level (revisioned, not copied), and `valid_to` says whether the
validity window has ended.

`MemoryLifecycle` has a variable per table (`memory`, `conflict`) and `request[r]`, what an
`update_memory` call holds between its read (`UpdateRead`) and its write (`UpdateWrite`): the old
row and the payload. Every other handler is one transaction that writes memories, and takes the lock
of a memory before it decides, so it is one step. Evidence of another workspace rolls the whole write
back. Approving or rejecting a candidate is a PATCH of the status. `create_memories` is a sequence of
creates; the locks of a batch are not modelled here.

`ConflictTransactions` takes the conflict requests apart: `record` and `status` hold committed values,
`tx[t]` the statement a transaction has come to, its uncommitted writes and so its locks. A statement
sees committed values and its own writes. A WHERE clause that does not match takes no lock. Two
statements of a trigger (`IF NOT fn_memory_has_open_conflict` and the `UPDATE`) are two steps,
because READ COMMITTED gives each a snapshot of its own. `Rollback` is an exception or lost
connection at any point. `Detect` takes the list of candidates; the transactions that follow create one
conflict each. A pair that exists by then is skipped when `create_conflict` looks it up, but a unique
violation ends the detection with the conflicts created so far. `Tokens` gives the words of every text,
and `Alike` the share of common words the code asks for. The list is limited to 50 rows in the code and
is not limited here.

`ForgetAndExport` has a step per transaction of an export (`StartExport`, `LookUpPage` and `WritePage`),
and then the writing of the file, which `Path.write_text` truncates before it writes (`OpenFile`,
`WritePart`, `CloseFile`): a file is the body of an export, `Torn` (empty, cut off or mixed) or missing.
Two exports that have one file open together may leave the text of either or a mix (`MayLeave`);
`AbandonExport` is a failure or a stopped process between any two of these steps. A PATCH is two steps
here too, the read that checks the status asked for (`ReadForPatch`) and the UPDATE (`WritePatch`). The
review of a forget request is one transaction with everything it forgets. Text is reduced to which version
of which memory a body shows. `VerificationPassed` is the conjunction of the checks of a memory's or page's
verification report.

`AgentVisibility` keeps of a memory what decides who sees it. An update or delete of a policy is two
steps, the read and the write, because other requests commit between these statements. `AgentVisible`
is the view; `MaySee` is what the documents promise, written apart from it, for the properties. "closed"
is an active memory whose validity window has passed.

`EmbeddingIndex` has one job at a time: what it read, the texts still to be sent, and the attempts made.
`Recall` has a step per statement of `execute_recall`. The query is fixed and given as the texts and
chunks it matches; scores are in hundredths, and confidence, the last sort key, is the same for all.
Equal scores and equal importance come in any order, as in SQL; the rows merged in Python keep the order
of the keyword rows, because `sorted()` is stable. A search is one statement and so one step; it is taken
where no recall, job or vector exists, because it reads none of them and the states would only be repeated.
A caller without an agent is admitted by access level alone (`AdmittedWithoutAgent`), as in the code.

`GraphProjection` has a step per statement of a sync and of a load. All nodes but memories are of one
kind. The history variable `cleared` names the sync that cleared the store last and whether it alone has
written since.

`Chunking` works on line lengths. `Ingestion` has a transaction per step of an extraction run, and the
imports as an open transaction that holds the checksum key until it commits or rolls back. What a text
says is a value; replies of a model are sequences of items with or without an anchor. An item's text is
compared as a whole and then stored up to 1000 characters: `Cut` gives what is left of each text a model
can give (`Answers`), and is a constant. The rules cut before they compare. Generated
identifiers are taken from those that are free, and a step that needs one waits for it (the bounds
`MemoriesLeft` and `DocumentsLeft`).

`Conversation` gives every message the time its transaction began. `ContextPack` has lengths in
characters, and each budget comes with the tokens that 100 characters of the language cost; `UnifiedContext` has a step per call of the command.
`Evaluation` has a step per call of the API the runner waits for; the cases a run has left are kept as
their positions in the dataset, and the loop takes the least. `Judging` has a step per verdict and per
rewrite of the file.

## 3. What is checked

Operators marked `Fault` in the modules are plausible wrong versions of the definition they stand next
to; each property of a passing run is broken by one of them.

| run | instance | shows |
|---|---|---|
| `MCLifecycleOverlap` | 2 memories, 2 overlapping PATCH requests, 3 audit rows per memory | versions and audit history stay complete under overlap, superseded memories stay closed, a rejected evidence list leaves nothing |
| `MCLifecycleSerial` | 2 memories, no overlap, PATCH to every status | retired memories stay retired, a PATCH changes only what it names, statuses follow `MemoryStatus` (refinement) |
| `MCConflictSerial` | 4 memories, 6 pairs, one request or detection at a time, rollbacks | statements add up to the atomic steps of `ConflictRecords` (refinement) |
| `MCConflictOverlap` | 3 memories, 3 transactions, one of them may detect | no cycle of lock waits; every request ends |
| `MCExport` | 1 memory, 1 page, 2 exports, 1 PATCH, 1 forget request, failures | revisions are 1..n with one body each; a file that is not torn is a committed body; only requests that overlapped with a change publish old content unmarked, or show again what an approval took out; a verification after an approval passes |
| `MCRecall` | 2 memories on 1 chunk, 1 agent, 1 policy, 2 changes | answers of recall and search were admitted, rest on chunks that were there, keep to the limit; the fallback; jobs end |
| `MCGraphProjection` | 2 memories, 2 syncs, 2 policies, 2 policy requests, 3 changes | audit rows and fields of policies under overlap, the store after syncs, what a load shows |
| `MCIngestion` | 2 documents, 2 texts, 2 runs, 2 candidates per run, 4 answers of which 3 begin alike | one document per text, chunks cover it, candidates are accounted for and distinct, runs end |
| `MCUnifiedContext` | 3 messages, answers of up to 2 memories, 3 budgets, one of which no text can be cut to | order of messages, the largest fitting pack, snippets, the command ends wherever 188 characters fit the budget |
| `MCEvaluation` | 2 cases, 5 command lines, 2 starts, 1 kill, 7 rows | store holds the conversation, leftovers, one row per case, verdicts |
| `MCFindingForgotten`, `MCFindingSkew` | 1 memory, 1 PATCH; 3 memories, 2 transactions | the two races below |

Four more configurations are kept beside the runs. `MCForgetting` (one memory of two versions, one export,
one PATCH, 2.3 million states) passes with the three action properties of `MCExport`. `MCFindingWindow`,
`MCFindingCut` and `MCFindingBudget`, smaller instances of `MCRecall`, `MCIngestion` and
`MCUnifiedContext`, are violated: they show the three disagreements with a sentence of the code or the
documents that are described below.

**Bounds.** Two memories are enough for conflicts and supersession, three audit rows for every pair of
successive statements after an insert (three statements in a row would only repeat a pair). A lock
cycle needs three transactions over three memories: two transactions on different pairs share one
memory only. Two revisions let an export lose against another one, or write over the
first one's page. In `MCExport` a change of a memory is one of its status, which marks its pages and empties
the body of the next export as an edit changes it; `MCForgetting` tells edited versions apart, and pages of
several memories are in the theorems only. In `MCRecall` both memories rest on one chunk, so a memory is matched by its text,
its evidence and its vectors, and the limit of 3 cuts the rows of two memories; two changes let a policy
appear and a memory or document change between two statements. Three changes in `MCGraphProjection` are
two overlapping syncs with a load, or two policy requests with the policy they meet (the bound counts the
requests, not their steps). A text that is repeated by two chunks, a model that repeats, misnumbers or
does not anchor an item, two long answers that begin alike, and a confidence that is no number are in the
replies of `MCIngestion`;
`ChunksCoverText` is checked for every text of up to four lines as well. Two cases, one that replaces a
fact and one that asks to forget between two versions, meet every branch of the runner's turn loop, with
batches of 2 for the 500 of the code. Symmetry is used for identifiers that every constant operator
treats alike, and in no run with a liveness property. In `MCUnifiedContext` the least budget of a request,
100 tokens, comes with the density of 53 tokens per 100 characters, the highest that 188 characters fit, and
with one of 70. The bounds stop the systems that have counters, so
these runs do not check deadlock; the conflict runs do.

**Fairness.** `MCConflictOverlap`: strong fairness of the next statement of each transaction; a handler
runs on by itself, and PostgreSQL queues the waiters of a row, so a waiting transaction gets the lock in
its turn. `MCRecall`, `MCIngestion`, `MCUnifiedContext`: weak fairness of the next step of a job, a run,
a pack, a listing and the command, because the thread keeps running and the clients of the provider, the
model and the API have timeouts. New requests, failures, rollbacks and kills are not fair, and nothing
depends on them. A turn of the trimming loop that leaves the text as it was is no step of progress: fairness
does not make the loop end.

**Serial runs.** `MCLifecycleSerial` and `MCConflictSerial` have one request at a time: they show that the
statements of a request, in their order and with their triggers, do what the documents say, over sequences
of requests. Races of overlapping requests are out of their reach, and the hazards that are races name
properties of the other runs only, or say why there is none.

### What the runs found

Two runs and three of the configurations beside them end in a violation, each of a sentence of the
documentation or of a comment. The two runs are races of overlapping requests.

* `MCFindingForgotten`: `update_memory` checks the status a PATCH asks for, and copies what it does not give,
  from a row read in an earlier transaction, and the UPDATE looks at neither again (`memory_service.py:609`).
  A candidate's PATCH to active is checked; the memory is forgotten; the UPDATE writes the status of the
  payload, and the forgotten memory is active ("Forgotten memory no longer appears in retrieval."). A PATCH
  that gives no status writes back the one it read in the same way.
* `MCFindingSkew`: two transactions close the two conflicts of a memory. Each still sees the other
  conflict open (`06_triggers.sql:282`), none restores the memory, and it stays conflicted.
* `MCFindingWindow`: "private or out-of-window memories never enter the candidate set"
  (`recall_service.py:82-83`), but without an agent only the access level is looked at (`:117`): an active memory
  whose window has passed is answered. Deletes, forget requests and superseding creates set `valid_to` for
  good, so that a PATCH that overlapped with one of them leaves such a row. (The API design, 08, asks for
  public and project active memories, and says nothing of windows.)
* `MCFindingCut`: "deduplicated by normalized text" (`llm_analysis.py:215-216`), but the texts are compared whole
  and stored up to 1000 characters (`:250`): two long answers that begin alike are one candidate stored twice.
* `MCFindingBudget`: a context pack is formatted "under `max_tokens`" (`docs/08-api-design.md:215`), but the
  trimming loop keeps 82 of 100 characters and adds a suffix of 34 (`context_pack_service.py:261`), so that 188
  characters stay 188. If these are more than the budget, as at the least budget of 100 tokens when the first
  memory is some 90 Chinese characters long, the loop never ends. From 54 tokens per 100 characters on no text
  that has to be cut ever fits that budget; `TrimmingStops` proves what the loop does at any length. Its second loop is never
  entered.

The same models have, without a run of their own:

* a conflict inserted while the closing of another one is uncommitted: the mark finds the memory
  conflicted and skips it without waiting (`06_triggers.sql:271`); the closing makes it active, with
  an open conflict. `MarkedWhileOpen` therefore holds only for requests that do not overlap;
* an export that read a memory before it was edited or forgotten and writes its page afterwards
  (`wiki_service.py:276`): the exception in `OnlyOverlapLosesTheMark` and
  `OnlyOverlapUndoesForgetting`;
* a memory brought back by the PATCH of `MCFindingForgotten`: an export that overlaps with nothing shows it
  again, the other exception in `OnlyOverlapUndoesForgetting`;
* a Markdown file that is empty, cut off or mixed after a kill or two exports at once
  (`wiki_service.py:564`), while page and revision are whole; the next export of the page replaces it;
* a page of several memories, which has no `generated_from_memory_id`: neither the forgetting nor the
  check `wiki_export_exclusion` sees it (`governance_service.py:1901`), and a verification passes while
  the page shows the forgotten text. The properties speak of pages generated from one memory;
* a page forgotten along with its memory: it has no audit row, so an approved request for that page
  fails `audit_coverage` (`governance_service.py:1435`), the exception in `ApprovalVerified`.

### Read in the code and present in the models

* Memories: DELETE takes any status to archived, candidates and forgotten memories included
  (`memory_service.py:682`); a PATCH to active restores a conflicted memory while its conflict is open
  (`:29`); of two overlapping PATCH requests the later writes back fields it does not name (`:582`); a
  PATCH with an empty evidence list empties an agent's provenance (`:617`); evidence is checked for its
  workspace only, so a chunk of a forgotten document is accepted (`:896`).
* Policies: all policies for roles share one key per scope and effect, so a second role cannot get a
  policy of its own (`04_indexes.sql:85`); of two deletes of one policy both write an audit row.
* Recall: a hybrid recall without vectors ranks a memory matched by its text and by its evidence by the
  lower of its two scores (the exception in `FallbackRanksAsKeyword`); the evidence shown beside an
  answer is read without the status of its document; `status = null` lets a recall without an agent
  return forgotten memories; a search without an agent ignores the validity window as a recall does.
* Search: a memory's row shows title and path of its document even when that is forgotten; chunks and
  memories are ranked together by `trigram_fuzzy`.
* Graph: the preview is not filtered by visibility, and a load leaves out a node that
  has no edge to a visible one.
* Ingestion: a confidence of NaN passes the clamp (`llm_analysis.py:386`) and is refused when the memory
  is created, after earlier candidates of the run have committed; a chunk number names the first such
  chunk among all documents of a run; a run repeated after a failure proposes the same texts again; a
  text that was forgotten can never be imported again (409).
* Pack and command: a recall with no answer still makes a pack, marked truncated; so `mb context` never
  reports "no result" when memory is asked for (`docs/process/17-agent-runtime-plan.md:176`,
  `context.py:126`); trimming cuts from the end, where the design has "metadata last"
  (`docs/process/19-repo-session-aware-context-design.md:279-285`); `--repo-limit 0` lets one snippet in;
  a memory left out for the budget is reported as "low_score" when the pack is not truncated; the
  messages of one batch share their time, so their order in a listing is not fixed.
* Evaluation: when the clean-up of a grouped run fails, all its results are lost, which a comment of the
  single run rules out (`baselines.py:411`); the ids of earlier batches are lost when a later one
  fails, and their memories stay; cases that ended with an error count as completed on `--resume`; a
  second run with extraction in a shared workspace meets its own sources (409); rows added to the CSV
  after the first judging are never judged, and a kill inside a rewrite of the judge's file loses rows.

## 4. What is proved

Eight modules of proofs, for every value of the constants: any number of memories, requests,
transactions, exports, syncs, policies, texts, imports, runs, recalls, messages, packs, cases, batches
and restarts.

| theorem | statement |
|---|---|
| **`MemoryLifecycleProofs`** | |
| `Invariance`, `TypeCorrect` | `Spec => []IInv`, `Spec => []TypeOK` |
| `RevisionsComplete`, `AuditComplete`, `ChangesEvidenced` | `[]RevisionHistory`, `[]AuditTrail`, `EveryChangeEvidenced` |
| `SupersessionAcyclic` | `[]SupersessionSound` |
| `AlonePatchesPartially`, `AloneKeepsRetired` | `Serialized => (Spec => PatchIsPartial)`, `... RetiredStaysRetired` |
| `AloneImplements` | `Serialized => (Spec => ImplementsMemoryStatus)`, the refinement of `MemoryStatus` |
| **`ConflictTransactionsProofs`** | |
| `Invariance`, `TypeCorrect` | `Spec => []IInv`, `Spec => []TypeOK` |
| `NoDeadlock` | `Spec => []NoWaitCycle` |
| `AloneRestores`, `AloneMarks` | `Serialized => (Spec => []RestoredWhenClear)`, `... []MarkedWhileOpen` |
| `AloneImplements` | `Serialized => (Spec => ImplementsConflictRecords)`, the refinement of `ConflictRecords` |
| **`ForgetAndExportProofs`** | |
| `Invariance`, `TypeCorrect` | `Spec => []IInv`, `Spec => []TypeOK` |
| `RevisionsStayNumbered`, `FilesAreRevisions` | `[]RevisionsNumbered`, `[]FileIsARevision` |
| `OnlyStaleExportsLoseTheMark`, `OnlyOverlapsUndoForgetting` | `OnlyOverlapLosesTheMark`, `OnlyOverlapUndoesForgetting` |
| `ApprovalsAreVerified` | `ApprovalVerified` |
| **`GraphProjectionProofs`** | |
| `VisibilityInvariance`, `VisibilityTypeCorrect` | `VisibilitySpec => []VisibilityInv`, `[]VisibilityTypeOK` |
| `AuditsArePolicies`, `UpdatesAreFieldwise` | `VisibilitySpec => []AuditShowsPolicy`, `... OnlyGivenFieldsChange` |
| `Invariance`, `TypeCorrect` | `ProjectionSpec => []IInv`, `ProjectionSpec => []ProjectionTypeOK` |
| `LastSyncWins`, `HiddenStaysHidden` | `[]LastSyncHolds`, `HiddenNeverShown` |
| `AuditsStayPolicies`, `UpdatesStayFieldwise` | `[]AuditShowsPolicy`, `OnlyGivenFieldsChange` next to syncs and loads |
| **`EvaluationProofs`** | |
| `Invariance`, `TypeCorrect` | `Spec => []IInv`, `Spec => []TypeOK` |
| `NothingLeftUnexplained`, `ResumesExactly`, `VerdictsSurvive` | `[]LeftoversExplained`, `[]EachCaseOnce`, `[]VerdictsKept` |
| `ReplayFollowsConversation`, `LiveComparesLocal` | `[]LiveInv`, `[]LiveHoldsLocal` |
| **`IngestionProofs`** | |
| `EveryTextIsCovered` | `BuildChunks(text)` covers `text`, for every non-empty sequence of line lengths |
| `SourcesFitTogether`, `IngestionTypes` | `Spec => []StoreInv`, `Spec => []TypeOK` |
| `NoTextIsStoredTwice`, `StoredTextsAreCovered` | `[]OneDocumentPerText`, `[]ChunksCoverText` |
| `RunsFitTogether` | `Spec => []RunsInv` |
| `CandidatesAreAccounted`, `CandidatesAreDistinct` | `[]CandidatesAccounted`, `[]CandidatesDistinct` |
| **`RecallProofs`** | |
| `RecallInvariance`, `RecallTypeCorrect` | `Spec => []RecallInv`, `Spec => []TypeOK` |
| `AnswersWereVisible`, `AnswersAreGrounded` | `[]EveryAnswerWasVisible`, `[]EveryAnswerGrounded` |
| `AnswersKeepToLimit`, `FallbackIsKeyword` | `[]AnswersHalfTheLimit`, `[]FallbackRanksAsKeyword` |
| **`UnifiedContextProofs`** | |
| `Invariance`, `TypeCorrect` | `Spec => []IInv`, `Spec => []TypeOK` |
| `MessagesInOrder` | `[]RecentInOrder` |
| `LargestPackShown` | `[]LargestFittingPack` |
| `TrimmingStops` | from 188 characters on, a turn of the trimming loop shortens a longer text and never goes below |
| `SnippetsStayChosen` | `[]SnippetsChosen` |

`Serialized` is the constant of a module that says whether clients overlap requests. Under it the
properties of the serial runs are theorems; without it they are false, which is what `MCFindingForgotten`,
`MCFindingSkew` and the exceptions above are about. `ForgetAndExport` has no such constant: its properties name
the overlaps that they except.

**Assumptions.** Bounds are natural numbers and flags Booleans. `Null` and `Deleted` are no row, text or
status (`NullAssumption`, `PolicyAssumption`, `EvaluationNullAssumption` and so on): NULL is not a value
of a column, and TLC's model values are such; a torn file is no body (`Torn`). Payloads and first rows are well typed
(`PayloadAssumption`, `RowsAssumption`). Memories of a conflict are numbers and finitely many
(`MemoriesAssumption`: identifiers are ordered by `LEAST` and `GREATEST`). A memory is not a page
(`TargetAssumption`: a forget request has a `target_type`). The dataset is a sequence of cases and the
turns of a case are one, each a memory, a request to forget, the query or none of these
(`DatasetAssumption`). A text has a line, and what a chunk says is a sequence of
statements (`TextAssumption`); an extraction is asked for finitely many chunks and for at least one
candidate (`IngestionAssumption`: `max_candidates` is between 1 and 50 in the request model); a reply is
a sequence of items whose text may be missing and whose confidence may be no number
(`ReplyAssumption`); what is left of a text at 1000 characters is a text, and a text that is not longer
stays as it is (`CutAssumption`). Importance is between 1 and 5, as the column's CHECK has it, evidence pairs a memory
with a chunk, a chunk has a document, and the memories, chunks and documents of a database are finite
(`RecallAssumption`, `IndexAssumption`). The answers a pack is made from are sequences of rows with a
length, a score and pieces of evidence, a budget is a number of tokens with a positive density, and the headings of a pack include its title (`PackAssumption`).
Messages are finitely many and a listing asks for at least one (`ConversationAssumption`: `limit` is
between 1 and 100 in the route). The paths of a repository are finitely many, and what git and the text
search report are sequences of them (`UnifiedAssumption`). TLC evaluates all of them in the runs.

### The arguments

*Memories.* `IInv == TypeOK /\ RevisionHistory /\ AuditTrail /\ ReferencesStored`. The first three are
not inductive together: a write of a PATCH in flight applies `Updated` to `memory[request[r].memory_id]`,
and nothing in them says that this memory is stored; `ReferencesStored` does, and the same of the
endpoints of conflict records. `AfterUpdate(x, y)` says that `y` is `x` after at most one UPDATE with its
triggers and possibly new evidence. One UPDATE keeps a stored memory well typed, numbered and audited
(`AfterUpdateGood`) and evidences what it changes (`AfterUpdateEvidenced`); every action leaves each
stored memory `AfterUpdate` and adds at most new inserts (`NextWritesMemories`). The stale copy of a
PATCH plays no part: whatever it writes, the triggers compare with the row that is there. For
supersession, a successor is written only along with the memory it points to, which is created in the
same step and which no earlier successor can be; so no set of memories has all its successors inside.
For clients that do not overlap, `Alone` says that the copy a PATCH holds is the row that is there, and
with it each action is shown to be a step of `MemoryStatus` or a stutter.

*Conflicts.* `IInv == TypeOK /\ LocksInOrder /\ (Serialized => Alone)`. `LocksInOrder` says that a
transaction has written at most the memories its trigger has come past, the smaller endpoint first. A
transaction that waits for a memory therefore holds only smaller ones, and in a cycle of waits the
greatest memory waited for would be held by one that waits for a greater one; that is `NoWaitCycle`.
`Alone` says that one transaction is at work, that committed statuses agree with the records, and that
its uncommitted writes make them agree at every memory it is done with (`Settled`). At its commit it is
done with both, which gives `RestoredWhenClear`, `MarkedWhileOpen` and the refinement: the commit is the
atomic step, everything before it stutters.

*Forgetting and exports.* `IInv` adds to the two invariants of the run what an export in flight has read
(`ExportsFollow`: the page it found is still there, and past its commit its body is a revision), that the
target of a request is there (`TargetsFollow`), that a forgotten memory has its audit row
(`ForgetsAudited`), and that a PATCH in flight asks for the status it read or one the table allows after
it (`PatchesChecked`). The unique key is what keeps `RevisionsNumbered` when two exports looked up the
same number. Closing a file leaves the body of an export past its commit, what was in the file before, or
`Torn`, and all three keep `FileIsARevision`, however many exports have the file open. For the action
properties each action is shown to leave a page's mark or the exclusion of a memory alone unless it is the
write of an export whose reading is out of date; and a PATCH whose memory still has the status it was
checked against takes no retired memory back, because the table leads from none of these statuses to one
in use.

*Policies and the graph.* An update assigns to the row that is there, not to the one it has read, so
the last audit row's after image is the policy (`AuditShowsPolicy`); a deletion that finds no row
audits `Deleted` again. For the store, `OwnerKept` follows the sync that cleared it last: the nodes it
merged are there, and so are the edges of all relation types it is done with, whatever other syncs
add or fail to add; `NothingElse` says the store is within its graph while no other has written. A load
is filtered by what may be seen in the step that answers, so nothing about the store is needed for
`HiddenNeverShown` but that an answer has no edge without its ends.

*Evaluation.* `NotesOK` says that every identifier the case at hand notes is a memory it stored in its
own workspace; `Owed` that every memory that lives was stored by a case with trouble or to be kept, or
is noted by the case at hand where the next clean-up will find it; `OrderOK` that the output is in the
order of the dataset and that the cases left come after it; `AnswersOK` that a case or group has its
answers in order. `JudgeInv` says that the rows the judge works on have every verdict given so far.

What a conversation that is replayed turn by turn has left in the store is `LiveInv`, one part for each
stage of a case. While turns are read, those since the last request to forget are collected and nothing
is active. While requests are sent, these turns are stored or in a request to come, once each and those
stored first; of the stored ones exactly those are active that none of the stored replaces, and the
runner knows the active ones by their keys. Then a request to forget deletes what is active, all of
which is noted; or the query is asked and `AllStored` gives the comparison. It needs of `Batches` that
the requests keep the order of the turns, miss none, and have one memory of every key in each
(`BatchesInSequence`): two of one key in a request would both stay active. A failed call leads past
the query, so nothing is claimed of what it left.

*Ingestion.* `StoreInv` says that imports in flight have documents and texts of their own
(`ImportsApart`), that a stored document has the chunks of its text (`ChunksBuilt`) and a note its memory
(`NotesKept`), and that memories, the rows of runs and their drafts rest on chunks that are stored. The
step that commits an import could only repeat a text that was stored, or was in flight, since
`ChecksumFree` was true; `ImportsApart` excludes both. `RunsInv` follows a run from its drafts to its
last row: drafts and candidates together are apart from each other and at most `MaxCandidates`
(`DraftsApart`: each stands for a text of its own among those that were compared, and is stored as that
text is cut), both come from the rows of the run (`DraftsGrounded`), whose start is in the log before
the first candidate is. That a candidate by rule still says what its chunk says rests on `SaidKept`: no
step changes a stored document's text or chunks, or the memory of a note, not even when the document is
forgotten between the draft and the candidate. A completed run stays accounted for because a run that
has ended takes no step (`EndedStays`).

*Chunks.* A window goes as far as its lines fit, which it can because joining more lines never makes the
text shorter (`JoinedGrows`); the next one starts at most one line after its end and always after its start
(`WindowsAdvance`), and never ends before it (`WindowsReach`). So the recursion ends for every text
(`WindowsExist`), and from the last window back to the first they cover what is between their starts and the
end of the text (`WindowsCover`). Without a line that is too long there is a chunk per line that is not
blank (`LinesCover`), and a text of blank lines falls back to windows.

*Recall.* `RowsGood` says of every row a recall holds that its memory was admitted, for an agent by policies,
status and window, without one by access level and status, and that
what it rests on was there, at some moment since the request began; `seen` only grows while a recall runs
(`GoodStays`), and what a statement finds can be seen when it runs (`FoundIsGood`: the view implies the
rule written apart from it, `VisibleIsPermitted`). Merging keeps memory and ground of the rows it is given
(`MergedFacts`). Half the limit is left because the keyword rows of one memory are at most two, one by its
evidence and one by its text (`HalfOfRows`, by counting). For the fallback, `NoVectorsYet` says that
without a row with a vector the merged rows are still the last keyword rows of each memory; sorting these,
with ties in the order of the keyword rows, gives the keyword rows again when none repeats
(`RankedAsBefore`, from `Increasing`: an injection of `1 .. n` into itself that grows is the identity).
What a search finds is what its routes hold (`RoutesFacts`), at the places of a numbering, all of which
are taken (`EveryPlaceTaken`).

*Messages.* `MessagesInv` says that a row's identifier is its own, among committed rows and those of open
transactions, and that a reply answers a message that was committed before its transaction began
(`Answered`): a transaction can only refer to rows it reads. A listing gets the total first and the items
later, and messages never go, so the total it holds is at most what is there when the items are read
(`ListingOK`). The items are the latest rows, as many as the limit (`LatestRowsShow`), and sorted by time a
reply comes after what it answers.

*Packs.* Score, importance and position order the rows of an answer totally (`BeforeOrders`), so the place of
a row, the number of rows before it, grows along this order (`PlaceIncreases`), and as an injection of
`1 .. n` into itself it takes every place: the ranked rows are the answer in order (`RankedInOrder`).
`AllThatFit` follows the loop that drops rows: as long as a row has been dropped, one row more than is left
was over the budget. The text is cut only where this has come down to the best row. What is left of a
text of more than 188 characters, 82 of 100 rounded down and the suffix, is shorter, and of 188 it is 188
(`TrimmingStops`): so a budget for 188 characters is always met, which `EveryContextEnds` checks, and a
smaller one never.

*Commands.* `ChosenOK` is the invariant of the loop over the candidate files: changed files come
before hits, no path comes twice, there are no more snippets than the limit (at least one), and while there
is room every text file passed is among them (`SnippetsTaken`, by induction along the
candidates). `CliOK` says that what the command holds was taken this way, whatever call failed before or after.

*Induction.* The library's induction theorems take an operator as a parameter and cannot be used here.
Over sets they can be restated: `SetInduction` (`EvaluationProofs`) and `UpTo` (`IngestionProofs`,
`RecallProofs`, `UnifiedContextProofs`) follow from the well-foundedness of `<` on the natural numbers. `Recursion` proves from it
that a recursive function over `0 .. n` exists, whatever its step; with them `BatchesTyped`, `BatchesInSequence`, `JoinedSums`,
`WindowsExist`, `LinesCover`, `CollectedGathers`, `FirstOfEachFirsts`, `FlattenGathers`, `TogetherType`, `NotExcludedType` and `SnippetsTaken` prove what the
recursive functions of the models, and `FlattenSeq` of the community modules, compute for data of any
length.

### What is only model-checked

Liveness (`EveryTransactionEnds`, `EveryEmbeddingEnds`, `EveryRunEnds`, `EveryContextEnds`), which is
beyond the prover, as is ENABLED. Every other property of a passing run is a theorem.

The type invariants are proved and are among the properties of `MCLifecycleOverlap` only.

## 5. Not modelled, and the plan

Still to be modelled: the locks of a batch that supersedes several memories, against other batches and
conflict requests (`memory_service.py:180`); audit rows of conflict records and the times of audit rows,
by which `list_audit_lifecycle` orders them (`governance_service.py:732`); forget requests for documents
and entities with their own verification checks.

Left out for good: read-only queries (audit, statistics, lists, semantic), the timeline entry and the
creation of an agent (one INSERT each), routes and request models beyond the payloads they admit, the
other commands and scripts, the offline baselines and scores of the evaluation, the frontend, and text
itself (Markdown, prompts, tokens), which keep no state of the server.
