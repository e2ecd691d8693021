-------------------------------- MODULE Recall --------------------------------
(***************************************************************************)
(* POST /api/recall: the memories that answer a query.                     *)
(*                                                                         *)
(* One READ COMMITTED transaction, one statement at a time: each sees what *)
(* has committed when it starts, so policies, memories, documents and      *)
(* vectors change between them.  Searches (Search.tla) run beside it.      *)
(*                                                                         *)
(* The query is fixed, as the texts and chunks it matches.  Scores are in  *)
(* hundredths, weights and similarities are 0 or 1.  The filters by type,  *)
(* access level and time, which narrow an answer further, are left out.    *)
(***************************************************************************)
EXTENDS Search

CONSTANTS
    Evidence,           \* memory_evidence: pairs of a memory and a chunk
    Importance,         \* importance of every memory
    HitTexts, HitChunks,            \* what the keywords match
    SimilarTexts, SimilarChunks,    \* what has a positive cosine similarity
    Limit,              \* the request's limit
    VectorLimit         \* limit of the vector queries, five times Limit in the code

ASSUME RecallAssumption ==
    /\ Limit \in Nat \ {0} /\ VectorLimit \in Nat /\ VectorLimit >= Limit
    /\ Importance \in [Memories -> 1 .. 5]
    /\ Evidence \subseteq Memories \X Chunks
    /\ IsFiniteSet(Memories) /\ IsFiniteSet(Chunks) /\ IsFiniteSet(Documents)

VARIABLES
    recall,     \* the recall in flight or answered, or Null
    recallLog,  \* the last row of recall_log, or Null
    seen        \* history: what could be seen at some moment of the recall in flight

recallVars == <<recall, recallLog>>
vars == <<visibilityVars, indexVars, found, recallVars, seen>>

Modes == {"keyword", "hybrid", "vector"}
Grounds == {"evidence", "text", "vector", "chunk_vector"}
Row == [memory: Memories, via: Grounds, score: 0 .. 200, vector: BOOLEAN]

EvidenceOf(m) == {c \in Chunks : <<m, c>> \in Evidence}

RecallRow == [at: {"keyword", "memory_vectors", "chunk_vectors", "answer", "answered"},
              agent: Agents \cup {Null}, status: {"active", Null}, mode: Modes, effective: Modes,
              keyword: Seq(Row), rows: Seq(Row), merged: SUBSET Row, matches: SUBSET Memories]
SeenRow == [agents: SUBSET (Agents \X Memories), anyone: SUBSET Memories, chunks: SUBSET Chunks]
LogRow == [agent: Agents \cup {Null}, result_count: Nat, top_memory_ids: Seq(Memories),
           matched_chunks: SUBSET Chunks]

ASSUME RecallNullAssumption == Null \notin RecallRow

TypeOK ==
    /\ VisibilityTypeOK
    /\ IndexTypeOK
    /\ recall \in RecallRow \cup {Null}
    /\ recallLog \in LogRow \cup {Null}
    /\ seen \in SeenRow
    /\ found # Null => /\ found.agent \in Agents \cup {Null}
                       /\ found.items \in Seq(Items)

-------------------------------------------------------------------------------
(* The rows of the statements. *)

\* where_clause.  Without an agent, memories whose window has passed are found too.
Where(m) ==
    /\ recall.status = "active" => memory[m].status # "forgotten"
    /\ IF recall.agent # Null THEN AgentVisible(recall.agent, m)
       ELSE memory[m].access_level \in {"public", "project"}

Found == {m \in Memories : Where(m)}

\* Fault: chunks of forgotten documents match as well.
MatchedOfAnyDocument == HitChunks

MatchedChunks == HitChunks \cap ActiveChunks

EvidenceRows ==
    {[memory |-> m, via |-> "evidence", score |-> 25 + 20 + 10 * Importance[m], vector |-> FALSE] :
        m \in {k \in Found : EvidenceOf(k) \cap MatchedChunks # {}}}
TextRows ==
    {[memory |-> m, via |-> "text", score |-> 15 + 10 * Importance[m], vector |-> FALSE] :
        m \in {k \in Found : memory[k].text \in HitTexts}}

\* _build_vector_candidate
TextKeywordScore(m) ==
    IF recall.mode = "hybrid" /\ memory[m].text \in HitTexts THEN 15 ELSE 0
Candidate(m, via, evidence) ==
    [memory |-> m, via |-> via, vector |-> TRUE,
     score |-> TextKeywordScore(m) + 45 + 10 + evidence + 10 * Importance[m]]

\* Fault: the vector query filters nothing.
MemoryVectorsOfAll == memoryVectors

\* A memory is found by the vector of any text it had.
FoundMemoryVectors == {v \in memoryVectors : v.memory \in Found}
MemoryCandidates(vectors) ==
    {Candidate(v.memory, "vector", IF EvidenceOf(v.memory) = {} THEN 0 ELSE 20) :
        v \in {w \in vectors : w.text \in SimilarTexts}}

FoundChunkVectors == {e \in Evidence : e[1] \in Found /\ e[2] \in chunkVectors \cap ActiveChunks}
ChunkCandidates(vectors) ==
    {Candidate(e[1], "chunk_vector", 20) : e \in {x \in vectors : x[2] \in SimilarChunks}}

\* Higher score first, then higher importance; a tie may go either way.  Confidence, the last
\* key, is the same for all.
Above(r, s) == \/ r.score > s.score
               \/ r.score = s.score /\ Importance[r.memory] > Importance[s.memory]

\* sorted() keeps the order of the dictionary in a tie: memories of the keyword rows come first,
\* in the order of their first row.
Earlier(keyword, r, s) ==
    \E i \in DOMAIN keyword : /\ keyword[i].memory = r.memory
                              /\ \A j \in 1 .. i : keyword[j].memory # s.memory
Ahead(keyword, r, s) == Above(r, s) \/ (~Above(s, r) /\ Earlier(keyword, r, s))

Rankings(rows, keyword) ==
    {ranking \in [1 .. Cardinality(rows) -> rows] :
        \A i, j \in DOMAIN ranking :
            i < j => ranking[i] # ranking[j] /\ ~Ahead(keyword, ranking[j], ranking[i])}
FirstOf(rows) == SubSeq(rows, 1, IF Len(rows) < Limit THEN Len(rows) ELSE Limit)

-------------------------------------------------------------------------------
BeginRecall(agent, status, mode) ==
    /\ recall = Null
    /\ recall' = [at |-> IF mode = "vector" THEN "memory_vectors" ELSE "keyword",
                  agent |-> agent, status |-> status, mode |-> mode, effective |-> mode,
                  keyword |-> <<>>, rows |-> <<>>, merged |-> {}, matches |-> {}]
    /\ UNCHANGED <<visibilityVars, indexVars, recallLog>>

\* Fault: the evidence matches are not grouped by memory.
MatchRowsUngrouped == EvidenceRows \cup TextRows \cup {[r EXCEPT !.score = @ + 1] : r \in EvidenceRows}

\* matched_memories UNION the matches of the memory text.
MatchRows == EvidenceRows \cup TextRows

\* Of several rows of a memory the merge keeps the last one, the one that scored least.
LastOfEach(rows) ==
    {rows[i] : i \in {j \in DOMAIN rows :
        \A k \in DOMAIN rows : k > j => rows[k].memory # rows[j].memory}}

KeywordQuery ==
    /\ recall # Null /\ recall.at = "keyword"
    /\ \E ranking \in Rankings(MatchRows, <<>>) :
         LET rows == FirstOf(ranking) IN
         recall' = [recall EXCEPT
                      !.at = IF recall.mode = "keyword" THEN "answer" ELSE "memory_vectors",
                      !.rows = rows, !.keyword = rows, !.merged = LastOfEach(rows),
                      !.matches = {r.memory : r \in EvidenceRows \cup TextRows}]
    /\ UNCHANGED <<visibilityVars, indexVars, recallLog>>

\* _merge_scored_candidate, for all candidates of a query.
Merged(rows, candidates) ==
    LET better == {c \in candidates :
                    \A r \in rows : r.memory = c.memory => r.score < c.score}
        kept == {r \in rows : \A c \in better : c.memory # r.memory}
    IN better \cup {[r EXCEPT !.vector = @ \/ \E c \in candidates : c.memory = r.memory] : r \in kept}

MemoryVectorQuery ==
    /\ recall # Null /\ recall.at = "memory_vectors"
    /\ \E vectors \in Limited(FoundMemoryVectors, VectorLimit) :
         recall' = [recall EXCEPT !.at = "chunk_vectors",
                                  !.merged = Merged(@, MemoryCandidates(vectors))]
    /\ UNCHANGED <<visibilityVars, indexVars, recallLog>>

\* Fault: only the vectors of memories count.
EffectiveByMemoryVectors(merged) ==
    IF recall.mode = "hybrid" /\ \A r \in merged : r.via # "vector" THEN "keyword"
    ELSE recall.mode

\* The downgrade is recorded when no row rests on a vector.
Effective(merged) ==
    IF recall.mode = "hybrid" /\ \A r \in merged : ~r.vector THEN "keyword" ELSE recall.mode

ChunkVectorQuery ==
    /\ recall # Null /\ recall.at = "chunk_vectors"
    /\ \E vectors \in Limited(FoundChunkVectors, VectorLimit) :
         LET merged == Merged(recall.merged, ChunkCandidates(vectors)) IN
         \E ranking \in Rankings(merged, recall.keyword) :
           recall' = [recall EXCEPT !.at = "answer", !.merged = merged,
                                    !.rows = FirstOf(ranking), !.effective = Effective(merged)]
    /\ UNCHANGED <<visibilityVars, indexVars, recallLog>>

\* The first row of every memory.
FirstOfEach(rows) ==
    LET repeated(i) == \E j \in 1 .. i - 1 : rows[j].memory = rows[i].memory
        kept[i \in 0 .. Len(rows)] ==
            IF i = 0 THEN <<>>
            ELSE IF repeated(i) THEN kept[i - 1] ELSE Append(kept[i - 1], rows[i])
    IN kept[Len(rows)]

MemoriesOf(rows) == [i \in DOMAIN rows |-> rows[i].memory]

\* The loop over the rows, the evidence of each memory, whatever its document's status, and
\* the log.
AnswerRecall ==
    LET answer == FirstOfEach(recall.rows) IN
    /\ recall # Null /\ recall.at = "answer"
    /\ recall' = [recall EXCEPT !.at = "answered", !.rows = answer]
    /\ recallLog' = [agent |-> recall.agent, result_count |-> Len(answer),
                     top_memory_ids |-> MemoriesOf(answer),
                     matched_chunks |-> UNION {EvidenceOf(answer[i].memory) : i \in DOMAIN answer}]
    /\ UNCHANGED <<visibilityVars, indexVars>>

\* The query embedding fails, or the connection: nothing is logged.
FailRecall ==
    /\ recall # Null /\ recall.at # "answered"
    /\ recall' = Null
    /\ UNCHANGED <<visibilityVars, indexVars, recallLog>>

RecallNext ==
    \/ \E agent \in Agents \cup {Null}, status \in {"active", Null}, mode \in Modes :
            BeginRecall(agent, status, mode)
    \/ KeywordQuery
    \/ MemoryVectorQuery
    \/ ChunkVectorQuery
    \/ AnswerRecall
    \/ FailRecall

-------------------------------------------------------------------------------
(* What could be seen during the recall. *)

\* Without an agent the access level decides and no policy; the validity window does not.
AdmittedWithoutAgent(m) ==
    memory[m].status # "forgotten" /\ memory[m].access_level \in {"public", "project"}

Seen == [agents |-> {x \in Agents \X Memories : MaySee(x[1], x[2])},
         anyone |-> {m \in Memories : AdmittedWithoutAgent(m)},
         chunks |-> ActiveChunks]
NothingSeen == [agents |-> {}, anyone |-> {}, chunks |-> {}]

Answered == recall # Null /\ recall.at = "answered"

Observe ==
    seen' = IF recall' = Null THEN NothingSeen
            ELSE IF Answered THEN seen
            ELSE [f \in DOMAIN seen |-> seen[f] \cup Seen[f] \cup Seen'[f]]

Init ==
    /\ VisibilityInit
    /\ IndexInit
    /\ recall = Null
    /\ recallLog = Null
    /\ found = Null
    /\ seen = NothingSeen

\* A search reads none of recall, job and the vectors: it is taken where there are none.
Next ==
    /\ \/ VisibilityNext /\ UNCHANGED <<indexVars, recallVars>> /\ found' = Null
       \/ IndexNext /\ UNCHANGED recallVars /\ found' = Null
       \/ RecallNext /\ found' = Null
       \/ /\ recall = Null /\ job = Null /\ memoryVectors = {} /\ chunkVectors = {}
          /\ \E agent \in Agents \cup {Null}, scope \in SearchScopes : Search(agent, scope)
          /\ UNCHANGED recallVars
    /\ Observe

Spec == Init /\ [][Next]_vars

\* The thread of an embedding request keeps running, and a call of the provider comes back:
\* the client has a timeout.
FairSpec == Spec /\ WF_indexVars(JobStep)

-------------------------------------------------------------------------------
(* Properties. *)

Answer == recall.rows

\* "project-only agents must not see private memory" (15-api-contract-plan.md): whatever
\* changes between the statements, a memory is answered to an agent only if its policies, its
\* status and its window let the agent see it at some moment of the request.  Without an
\* agent it must have been public or project at some moment, and not forgotten unless every
\* status was asked for; a window that has passed keeps nothing from these callers
\* (OutOfWindowNeverCandidate).  What a search finds is held to the same rules at the moment
\* of the search, and no chunk or source of a forgotten document is found.
EveryAnswerWasVisible ==
    /\ Answered => \A i \in DOMAIN Answer :
        IF recall.agent # Null THEN <<recall.agent, Answer[i].memory>> \in seen.agents
        ELSE recall.status = "active" => Answer[i].memory \in seen.anyone
    /\ found # Null => \A i \in DOMAIN found.items :
        CASE found.items[i][1] = "memory" ->
                IF found.agent # Null THEN MaySee(found.agent, found.items[i][2])
                ELSE AdmittedWithoutAgent(found.items[i][2])
          [] found.items[i][1] = "chunk" -> found.items[i][2] \in ActiveChunks
          [] found.items[i][1] = "source" -> document[found.items[i][2]] = "active"

\* "private or out-of-window memories never enter the candidate set" (execute_recall): no
\* statement adds a memory whose validity window has passed to the candidates of a request
\* for active memories.
OutOfWindowNeverCandidate ==
    [][recall # Null /\ recall' # Null /\ recall.status = "active" =>
        \A r \in recall'.merged :
            (\A s \in recall.merged : s.memory # r.memory) => memory[r.memory].status # "closed"
      ]_vars

\* No answer rests on a chunk whose document was forgotten before the request began; the
\* evidence shown beside an answer may (README).
EveryAnswerGrounded ==
    Answered => \A i \in DOMAIN Answer :
        Answer[i].via \in {"evidence", "chunk_vector"}
            => EvidenceOf(Answer[i].memory) \cap seen.chunks # {}

\* The answer has each memory once and keeps to the limit.  The limit is taken before rows of
\* one memory are merged, so an answer may be short of it; a keyword answer still has half of
\* what was asked for when so many memories match.
AnswersHalfTheLimit ==
    Answered =>
        /\ Len(Answer) <= Limit
        /\ \A i, j \in DOMAIN Answer : Answer[i].memory = Answer[j].memory => i = j
        /\ recall.mode = "keyword" =>
              \/ recall.matches \subseteq {Answer[i].memory : i \in DOMAIN Answer}
              \/ 2 * Len(Answer) >= Limit

\* "hybrid recall fell back to keyword ranking" (HYBRID_FALLBACK_REASON): without vectors a
\* hybrid answer is the keyword answer, except that a memory matched by its text and by its
\* evidence is ranked by the lower of its two scores.
FallbackRanksAsKeyword ==
    Answered /\ recall.mode = "hybrid" /\ recall.effective = "keyword" =>
        LET keyword == FirstOfEach(recall.keyword) IN
        /\ {keyword[i].memory : i \in DOMAIN keyword} = {Answer[i].memory : i \in DOMAIN Answer}
        /\ Len(keyword) = Len(recall.keyword) => Answer = keyword
===============================================================================
