---------------------------- MODULE EmbeddingIndex ----------------------------
(***************************************************************************)
(* The cached vectors of memories and source chunks, and the requests that *)
(* fill them.                                                              *)
(*                                                                         *)
(* An embedding request is one transaction: it reads the texts, calls the  *)
(* provider for one text after the other, retrying a call that may succeed *)
(* later, and stores the vectors.  A failed call ends the request and      *)
(* stores nothing.  A vector is kept for every text a memory had when it   *)
(* was embedded; the text of a chunk never changes.                        *)
(*                                                                         *)
(* One request is in flight at a time: two of them write the same vectors. *)
(* Provider, model and dimension are those recall asks for.                *)
(***************************************************************************)
EXTENDS AgentVisibility

CONSTANTS
    Documents, Chunks,
    DocOf,              \* the document of every chunk
    BackfillLimit,      \* the limit of a backfill request
    MaxAttempts         \* calls of the provider for one text

ASSUME IndexAssumption ==
    /\ BackfillLimit \in Nat /\ MaxAttempts \in Nat \ {0}
    /\ DocOf \in [Chunks -> Documents]

VARIABLES
    document,       \* document[d]: status of the source document
    memoryVectors,  \* rows of memory_embedding: the memory, and the text it had
    chunkVectors,   \* rows of source_chunk_embedding
    job             \* the embedding request in flight, or Null

indexVars == <<document, memoryVectors, chunkVectors, job>>

MemoryVectors == [memory: Memories, text: Texts]
Vectors == [memories: SUBSET MemoryVectors, chunks: SUBSET Chunks]
NoVectors == [memories |-> {}, chunks |-> {}]
JobRow == [target: {"memories", "chunks", "all"}, reading: {"memories", "chunks"},
           left: Vectors, done: Vectors, failures: 0 .. MaxAttempts - 1]

ASSUME IndexNullAssumption == Null \notin JobRow

IndexTypeOK ==
    /\ document \in [Documents -> {"active", "forgotten"}]
    /\ memoryVectors \subseteq MemoryVectors
    /\ chunkVectors \subseteq Chunks
    /\ job \in JobRow \cup {Null}

IndexInit ==
    /\ document = [d \in Documents |-> "active"]
    /\ memoryVectors = {}
    /\ chunkVectors = {}
    /\ job = Null

ForgetDocument(d) ==
    /\ Change
    /\ document[d] = "active"
    /\ document' = [document EXCEPT ![d] = "forgotten"]
    /\ UNCHANGED <<memory, policyVars, memoryVectors, chunkVectors, job>>

-------------------------------------------------------------------------------
ActiveChunks == {c \in Chunks : document[DocOf[c]] = "active"}
\* A memory whose window has passed keeps its status.
EmbeddableMemories ==
    {[memory |-> m, text |-> memory[m].text] : m \in {k \in Memories : memory[k].status # "forgotten"}}

NewJob(target, reading, left) ==
    [target |-> target, reading |-> reading, left |-> left, done |-> NoVectors, failures |-> 0]

\* embed_memory and embed_chunk raise for what is not active.
EmbedMemory(v) ==
    /\ Change
    /\ job = Null
    /\ v \in EmbeddableMemories
    /\ job' = NewJob("memories", "memories", [NoVectors EXCEPT !.memories = {v}])
    /\ UNCHANGED <<memory, policyVars, document, memoryVectors, chunkVectors>>

EmbedChunk(c) ==
    /\ Change
    /\ job = Null
    /\ c \in ActiveChunks
    /\ job' = NewJob("chunks", "chunks", [NoVectors EXCEPT !.chunks = {c}])
    /\ UNCHANGED <<memory, policyVars, document, memoryVectors, chunkVectors>>

Backfill(target) ==
    /\ Change
    /\ job = Null
    /\ \/ /\ target \in {"memories", "all"}
          /\ \E rows \in Limited(EmbeddableMemories, BackfillLimit) :
                job' = NewJob(target, "memories", [NoVectors EXCEPT !.memories = rows])
       \/ /\ target = "chunks"
          /\ \E rows \in Limited(ActiveChunks, BackfillLimit) :
                job' = NewJob(target, "chunks", [NoVectors EXCEPT !.chunks = rows])
    /\ UNCHANGED <<memory, policyVars, document, memoryVectors, chunkVectors>>

\* The chunks are read when the memories have their vectors.
ReadChunks ==
    /\ job # Null /\ job.left = NoVectors
    /\ job.target = "all" /\ job.reading = "memories"
    /\ \E rows \in Limited(ActiveChunks, BackfillLimit) :
            job' = [job EXCEPT !.reading = "chunks", !.left.chunks = rows]
    /\ UNCHANGED <<visibilityVars, document, memoryVectors, chunkVectors>>

\* The provider answers for one text.
ProviderAnswers ==
    /\ job # Null
    /\ \/ \E v \in job.left.memories :
            job' = [job EXCEPT !.left.memories = @ \ {v}, !.done.memories = @ \cup {v},
                               !.failures = 0]
       \/ \E c \in job.left.chunks :
            job' = [job EXCEPT !.left.chunks = @ \ {c}, !.done.chunks = @ \cup {c},
                               !.failures = 0]
    /\ UNCHANGED <<visibilityVars, document, memoryVectors, chunkVectors>>

\* Fault: a failed call starts the request over.
RetriedFromStart ==
    [job EXCEPT !.left = [f \in DOMAIN NoVectors |-> job.left[f] \cup job.done[f]],
                !.done = NoVectors]

\* _post_with_retry: 429, 5xx and transport errors are tried again, the last one is raised.
Retried == IF job.failures + 1 = MaxAttempts THEN Null
           ELSE [job EXCEPT !.failures = @ + 1]

ProviderFails ==
    /\ job # Null /\ job.left # NoVectors
    /\ job' = Retried
    /\ UNCHANGED <<visibilityVars, document, memoryVectors, chunkVectors>>

\* Any other error status, or an answer without a vector, is raised at once.
ProviderRefuses ==
    /\ job # Null /\ job.left # NoVectors
    /\ job' = Null
    /\ UNCHANGED <<visibilityVars, document, memoryVectors, chunkVectors>>

\* The upserts and their commit.
StoreVectors ==
    /\ job # Null /\ job.left = NoVectors
    /\ job.target = "all" => job.reading = "chunks"
    /\ memoryVectors' = memoryVectors \cup job.done.memories
    /\ chunkVectors' = chunkVectors \cup job.done.chunks
    /\ job' = Null
    /\ UNCHANGED <<visibilityVars, document>>

JobStep == ReadChunks \/ ProviderAnswers \/ ProviderFails \/ ProviderRefuses \/ StoreVectors

IndexNext ==
    \/ \E d \in Documents : ForgetDocument(d)
    \/ \E v \in MemoryVectors : EmbedMemory(v)
    \/ \E c \in Chunks : EmbedChunk(c)
    \/ \E target \in {"memories", "chunks", "all"} : Backfill(target)
    \/ JobStep

\* However the provider fails, a request for vectors ends (_post_with_retry).
EveryEmbeddingEnds == job # Null ~> job = Null
===============================================================================
