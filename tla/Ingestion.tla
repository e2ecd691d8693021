------------------------------- MODULE Ingestion -------------------------------
(***************************************************************************)
(* From sources to candidate memories: POST /api/sources, the note that    *)
(* goes with a memory an agent creates, and POST                           *)
(* /api/memory-extraction/from-chunks.                                     *)
(*                                                                         *)
(* An import is one transaction.  An extraction reads its chunks, logs its *)
(* start, asks the rules or a model for drafts, creates the candidates and *)
(* logs its end: a transaction for each of them, so that documents are     *)
(* forgotten, and other runs go on, between any two, and the run may stop. *)
(*                                                                         *)
(* What a text says is a value; the Markdown, the type, importance and     *)
(* summary of a candidate are left out.  The review of a candidate is a    *)
(* PATCH (module MemoryLifecycle).                                         *)
(***************************************************************************)
EXTENDS Chunking, SequencesExt

CONSTANTS
    Documents, Memories,    \* identifiers
    Texts,                  \* texts of sources: sequences of line lengths
    Statements,             \* what a candidate can say: texts of up to 1000 characters
    Answers, Cut,           \* what a model can say, and what is left of it at 1000 characters
    Says(_, _),             \* the statements found in the k-th chunk of a text, in order
    Imports, Runs,          \* concurrent requests
    Notes,                  \* what agents remember without evidence
    Requests,               \* what extractions are asked for: sets of chunks
    Replies,                \* what a model can answer: sequences of items
                            \*   [by ("id", "no", "none"), chunk, no, text, confidence]
    MaxCandidates,          \* max_candidates
    MaxLines,               \* bound on the texts the chunks are computed for
    Null

ASSUME IngestionAssumption ==
    /\ MaxCandidates \in Nat \ {0}
    /\ Notes \subseteq Statements
    /\ \A ids \in Requests : IsFiniteSet(ids)
ASSUME CutAssumption ==
    /\ Statements \subseteq Answers
    /\ Cut \in [Answers -> Statements]
    /\ \A text \in Statements : Cut[text] = text
ASSUME TextAssumption ==
    /\ Texts \subseteq Seq(Nat) \ {<<>>}
    /\ \A text \in Texts : \A k \in DOMAIN BuildChunks(text) : Says(text, k) \in Seq(Statements)

VARIABLES
    document,       \* source_document with its source_chunk rows
    importing,      \* importing[i]: an open import transaction, or Null
    memory,         \* memory_item with its evidence, of the memories created here
    run,            \* run[r]: an extraction, or Null
    auditLog        \* rows of audit_log

vars == <<document, importing, memory, run, auditLog>>

ChunkIds == Documents \X (Nat \ {0})
Confidences == {"number", "no_number"}

DocumentRow == [checksum: Texts \cup {Null}, status: {"active", "forgotten"}, chunks: Seq(Chunks)]
ImportRow == [document: Documents, text: Texts]
MemoryRow == [says: Statements, chunk: ChunkIds, status: {"candidate", "active"},
              run: Runs \cup {Null}]
DraftRow == [chunk: ChunkIds, text: Answers, says: Statements, confidence: Confidences]
RunRow == [at: {"start", "draft", "create", "complete", "ended"}, method: {"rule_based", "llm"},
           rows: Seq(ChunkIds), drafts: Seq(DraftRow), created: SUBSET Memories]
AuditRow == [action: {"source_document.create"}, document: Documents]
              \cup [action: {"run.start"}, run: Runs, requested: SUBSET ChunkIds]
              \cup [action: {"run.complete"}, run: Runs, created: SUBSET Memories]

ASSUME ReplyAssumption ==
    \A reply \in Replies :
        /\ Len(reply) \in Nat /\ DOMAIN reply = 1 .. Len(reply)
        /\ \A k \in DOMAIN reply :
              /\ reply[k].text \in Answers \cup {Null}
              /\ reply[k].confidence \in Confidences
ASSUME NullAssumption ==
    /\ Null \notin DocumentRow /\ Null \notin ImportRow /\ Null \notin MemoryRow
    /\ Null \notin RunRow /\ Null \notin DraftRow
    /\ Null \notin Texts /\ Null \notin Runs /\ Null \notin ChunkIds

Stored(d) == document[d] # Null
ChunksOf(d) == {<<d, k>> : k \in DOMAIN document[d].chunks}
StoredChunks == UNION {ChunksOf(d) : d \in {e \in Documents : Stored(e)}}
ActiveChunks == UNION {ChunksOf(d) : d \in {e \in Documents : Stored(e) /\ document[e].status = "active"}}
Created == {m \in Memories : memory[m] # Null}

TypeOK ==
    /\ document \in [Documents -> DocumentRow \cup {Null}]
    /\ importing \in [Imports -> ImportRow \cup {Null}]
    /\ memory \in [Memories -> MemoryRow \cup {Null}]
    /\ run \in [Runs -> RunRow \cup {Null}]
    /\ auditLog \subseteq AuditRow

Init ==
    /\ document = [d \in Documents |-> Null]
    /\ importing = [i \in Imports |-> Null]
    /\ memory = [m \in Memories |-> Null]
    /\ run = [r \in Runs |-> Null]
    /\ auditLog = {}

\* Identifiers are generated: any one that is free stands for all.
FreeMemories == {m \in Memories : memory[m] = Null}
FreeDocuments ==
    {d \in Documents :
        document[d] = Null /\ \A i \in Imports : importing[i] # Null => importing[i].document # d}
FreeMemory == CHOOSE m \in FreeMemories : TRUE
FreeDocument == CHOOSE d \in FreeDocuments : TRUE

\* Bounds: there are as many as Memories and Documents has.
MemoriesLeft == FreeMemories # {}
DocumentsLeft == FreeDocuments # {}

-------------------------------------------------------------------------------
(* Sources. *)

\* Fault: the checksum is looked up among the documents that can be seen.
ChecksumFreeAmongActive(i, text) ==
    \A d \in Documents : Stored(d) /\ document[d].status = "active" => document[d].checksum # text

\* UNIQUE(workspace_id, checksum), forgotten documents included: an import of the same text is
\* refused, and waits for one that is not decided yet.
ChecksumFree(i, text) ==
    /\ \A d \in Documents : Stored(d) => document[d].checksum # text
    /\ \A j \in Imports : importing[j] # Null => importing[j].text # text

InsertDocument(i, text) ==
    /\ importing[i] = Null
    /\ ChecksumFree(i, text)
    /\ DocumentsLeft
    /\ importing' = [importing EXCEPT ![i] = [document |-> FreeDocument, text |-> text]]
    /\ UNCHANGED <<document, memory, run, auditLog>>

\* The chunks, and the end of the transaction.
CommitSource(i) ==
    /\ importing[i] # Null
    /\ document' = [document EXCEPT ![importing[i].document] =
            [checksum |-> importing[i].text, status |-> "active",
             chunks |-> BuildChunks(importing[i].text)]]
    /\ importing' = [importing EXCEPT ![i] = Null]
    /\ UNCHANGED <<memory, run, auditLog>>

AbortSource(i) ==
    /\ importing[i] # Null
    /\ importing' = [importing EXCEPT ![i] = Null]
    /\ UNCHANGED <<document, memory, run, auditLog>>

\* An approved forget request of the document (module ForgetAndExport).
ForgetDocument(d) ==
    /\ Stored(d) /\ document[d].status = "active"
    /\ document' = [document EXCEPT ![d].status = "forgotten"]
    /\ UNCHANGED <<importing, memory, run, auditLog>>

\* A memory that an agent creates without evidence gets a document of one chunk, without a
\* checksum, in the same transaction.
RememberNote(statement) ==
    /\ DocumentsLeft /\ MemoriesLeft
    /\ document' = [document EXCEPT ![FreeDocument] =
            [checksum |-> Null, status |-> "active", chunks |-> <<ChunkOf(1, 1)>>]]
    /\ memory' = [memory EXCEPT ![FreeMemory] =
            [says |-> statement, chunk |-> <<FreeDocument, 1>>, status |-> "active", run |-> Null]]
    /\ auditLog' = auditLog \cup {[action |-> "source_document.create", document |-> FreeDocument]}
    /\ UNCHANGED <<importing, run>>

-------------------------------------------------------------------------------
(* Extraction. *)

\* The statements of a chunk; a note's chunk says what its memory says.
NotesOf(c) == {m \in Created : memory[m].chunk = c /\ memory[m].run = Null}
SaidBy(c) ==
    IF document[c[1]].checksum # Null THEN Says(document[c[1]].checksum, c[2])
    ELSE LET note == CHOOSE m \in NotesOf(c) : TRUE IN <<memory[note].says>>

\* _fetch_chunks: all of them must be there, in documents that are not forgotten.
FetchChunks(r, ids, method) ==
    /\ run[r] = Null
    /\ ids \subseteq ActiveChunks
    /\ \E rows \in SetToSeqs(ids) :
         /\ \A j, k \in DOMAIN rows : j < k => rows[j][2] <= rows[k][2]
         /\ run' = [run EXCEPT ![r] = [at |-> "start", method |-> method, rows |-> rows,
                                       drafts |-> <<>>, created |-> {}]]
    /\ UNCHANGED <<document, importing, memory, auditLog>>

Ended(r) == run' = [run EXCEPT ![r].at = "ended", ![r].drafts = <<>>]

\* resolve_llm_options: the key, the address or the name of the model is missing.
RefuseOptions(r) ==
    /\ run[r] # Null /\ run[r].at = "start" /\ run[r].method = "llm"
    /\ Ended(r)
    /\ UNCHANGED <<document, importing, memory, auditLog>>

LogStart(r) ==
    /\ run[r] # Null /\ run[r].at = "start"
    /\ run' = [run EXCEPT ![r].at = "draft"]
    /\ auditLog' = auditLog \cup {[action |-> "run.start", run |-> r,
                                   requested |-> {run[r].rows[k] : k \in DOMAIN run[r].rows}]}
    /\ UNCHANGED <<document, importing, memory>>

\* Fault: only drafts of the same chunk are compared.
NewTextInChunk(draft, drafts) ==
    \A k \in DOMAIN drafts : drafts[k].text # draft.text \/ drafts[k].chunk # draft.chunk

\* seen_text
NewText(draft, drafts) == \A k \in DOMAIN drafts : drafts[k].text # draft.text

\* Drafts are taken in order, each text once, until there are enough; items that cannot be
\* used are passed over.
Kept(drafts, draft) ==
    IF draft # Null /\ Len(drafts) < MaxCandidates /\ NewText(draft, drafts)
    THEN Append(drafts, draft) ELSE drafts

Collected(drafts) ==
    LET kept[n \in 0 .. Len(drafts)] == IF n = 0 THEN <<>> ELSE Kept(kept[n - 1], drafts[n])
    IN kept[Len(drafts)]

\* The rules compare the texts as they store them, cut already.
ChunkDrafts(c) ==
    [j \in DOMAIN SaidBy(c) |->
        [chunk |-> c, text |-> SaidBy(c)[j], says |-> SaidBy(c)[j], confidence |-> "number"]]

\* _rule_based_candidate_drafts
RuleDrafts(r) ==
    Collected(FlattenSeq([k \in DOMAIN run[r].rows |-> ChunkDrafts(run[r].rows[k])]))

\* _resolve_chunk_id: by identifier, else by number, else the only chunk there is, else none.
Anchor(item, rows) ==
    LET numbered == {k \in DOMAIN rows : item.by = "no" /\ rows[k][2] = item.no} IN
    IF item.by = "id" /\ \E k \in DOMAIN rows : rows[k] = item.chunk THEN item.chunk
    ELSE IF numbered # {} THEN rows[CHOOSE k \in numbered : \A j \in numbered : k <= j]
    ELSE IF Len(rows) = 1 THEN rows[1]
    ELSE Null

\* An item without an anchor or with a text that is too short cannot be used; confidences are
\* put in range, and one that is not a number stays so.  The text is compared as the model has
\* sent it, and cut when it is stored.
Draft(item, rows) ==
    IF Anchor(item, rows) = Null \/ item.text = Null THEN Null
    ELSE [chunk |-> Anchor(item, rows), text |-> item.text, says |-> Cut[item.text],
          confidence |-> item.confidence]

\* parse_llm_candidates
ParsedDrafts(r, reply) == Collected([k \in DOMAIN reply |-> Draft(reply[k], run[r].rows)])

\* _llm_candidate_drafts: whatever the model replies.
LlmDrafts(r) == {ParsedDrafts(r, reply) : reply \in Replies}

\* Fault: the loop does not look whether a draft is left.
FollowingAlways(drafts) == "create"

Following(drafts) == IF drafts = <<>> THEN "complete" ELSE "create"

DraftCandidates(r) ==
    /\ run[r] # Null /\ run[r].at = "draft"
    /\ \E drafts \in IF run[r].method = "rule_based" THEN {RuleDrafts(r)} ELSE LlmDrafts(r) :
         run' = [run EXCEPT ![r].at = Following(drafts), ![r].drafts = drafts]
    /\ UNCHANGED <<document, importing, memory, auditLog>>

\* The draft is a candidate with its chunk as evidence, which must be of the workspace: its
\* document may have been forgotten since.
CreateCandidate(r) ==
    /\ run[r] # Null /\ run[r].at = "create" /\ run[r].drafts # <<>>
    /\ run[r].drafts[1].confidence = "number"
    /\ MemoriesLeft
    /\ memory' = [memory EXCEPT ![FreeMemory] =
            [says |-> run[r].drafts[1].says, chunk |-> run[r].drafts[1].chunk,
             status |-> "candidate", run |-> r]]
    /\ run' = [run EXCEPT ![r].created = @ \cup {FreeMemory}, ![r].drafts = Tail(@),
                          ![r].at = Following(Tail(run[r].drafts))]
    /\ UNCHANGED <<document, importing, auditLog>>

\* Fault: the run is logged as complete with all candidates there are.
LoggedCandidates(r) == {m \in Created : memory[m].status = "candidate"}

RunCandidates(r) == run[r].created

LogComplete(r) ==
    /\ run[r] # Null /\ run[r].at = "complete"
    /\ run' = [run EXCEPT ![r].at = "ended"]
    /\ auditLog' = auditLog \cup {[action |-> "run.complete", run |-> r, created |-> RunCandidates(r)]}
    /\ UNCHANGED <<document, importing, memory>>

\* The model's answer cannot be read, or its call fails.
RefuseReply(r) ==
    /\ run[r] # Null /\ run[r].at = "draft" /\ run[r].method = "llm"
    /\ Ended(r)
    /\ UNCHANGED <<document, importing, memory, auditLog>>

\* A confidence that is not a number is refused by MemoryCreateRequest: the run fails, and the
\* candidates before it stay.
RefuseCandidate(r) ==
    /\ run[r] # Null /\ run[r].at = "create" /\ run[r].drafts # <<>>
    /\ run[r].drafts[1].confidence # "number"
    /\ Ended(r)
    /\ UNCHANGED <<document, importing, memory, auditLog>>

\* A transaction fails, or the process stops: what was committed stays.
StopRun(r) ==
    /\ run[r] # Null /\ run[r].at # "ended"
    /\ Ended(r)
    /\ UNCHANGED <<document, importing, memory, auditLog>>

RunStep(r) ==
    \/ RefuseOptions(r)
    \/ LogStart(r)
    \/ DraftCandidates(r)
    \/ CreateCandidate(r)
    \/ LogComplete(r)
    \/ RefuseReply(r)
    \/ RefuseCandidate(r)

Next ==
    \/ \E i \in Imports :
          \/ \E text \in Texts : InsertDocument(i, text)
          \/ CommitSource(i)
          \/ AbortSource(i)
    \/ \E d \in Documents : ForgetDocument(d)
    \/ \E statement \in Notes : RememberNote(statement)
    \/ \E r \in Runs :
          \/ \E ids \in Requests, method \in {"rule_based", "llm"} :
                FetchChunks(r, ids, method)
          \/ RunStep(r)
          \/ StopRun(r)

Spec == Init /\ [][Next]_vars

\* A run's thread keeps running, and the call of the model has a timeout.
FairSpec == Spec /\ \A r \in Runs : WF_vars(RunStep(r))

-------------------------------------------------------------------------------
(* Properties. *)

\* "source document with the same checksum already exists" (SourceConflictError): however
\* imports overlap, and whatever was forgotten, a text is stored once.
OneDocumentPerText ==
    \A d, e \in Documents :
        Stored(d) /\ Stored(e) /\ document[d].checksum = document[e].checksum
            => d = e \/ document[d].checksum = Null

EveryTextCovered == \A text \in TextsUpTo(MaxLines) : Covers(BuildChunks(text), text)

\* A stored source has chunks, and they cover its text (build_chunks), as they do for every text
\* of up to MaxLines lines.
ChunksCoverText ==
    /\ EveryTextCovered
    /\ \A d \in Documents : Stored(d) /\ document[d].checksum # Null =>
          document[d].chunks # <<>> /\ Covers(document[d].chunks, document[d].checksum)

\* "Run-level audit lets the demo answer 'which chunks produced these candidate memories'"
\* (extract_from_chunks), also for a run that failed between its transactions, and next to
\* another run of the same chunks.
CandidatesAccounted ==
    /\ \A m \in Created : memory[m].status = "candidate" =>
          \E row \in auditLog : /\ row.action = "run.start" /\ row.run = memory[m].run
                                /\ memory[m].chunk \in row.requested
    /\ \A row \in auditLog : row.action = "run.complete" =>
          row.created = {m \in Created : memory[m].run = row.run}

\* The texts that are compared, by the rules and in the answer of a model.
TextsFor(method) == IF method = "rule_based" THEN Statements ELSE Answers

\* "deduplicated by normalized text" (parse_llm_candidates): however runs overlap and fail, the
\* candidates of a run stand for different texts, each cut to what is stored, and are no more
\* than max_candidates; a candidate by rule says what its chunk says.
CandidatesDistinct ==
    \A r \in Runs : run[r] # Null =>
        /\ Cardinality(run[r].created) <= MaxCandidates
        /\ \E text \in Injection(run[r].created, TextsFor(run[r].method)) :
              \A m \in run[r].created : memory[m].says = Cut[text[m]]
        /\ run[r].method = "rule_based" =>
              \A m \in run[r].created :
                 \E j \in DOMAIN SaidBy(memory[m].chunk) :
                    SaidBy(memory[m].chunk)[j] = memory[m].says

\* What the comment says of every candidate, "deduplicated by normalized text": the candidates
\* of a run have different texts.
CandidateTextsDistinct ==
    \A r \in Runs : run[r] # Null =>
        \A m, n \in run[r].created : memory[m].says = memory[n].says => m = n

\* Every run ends, by its completion or by a failure.
EveryRunEnds == \A r \in Runs : run[r] # Null ~> (run[r] # Null /\ run[r].at = "ended")
===============================================================================
