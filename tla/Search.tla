-------------------------------- MODULE Search --------------------------------
(***************************************************************************)
(* POST /api/search: one statement that finds memories, chunks and sources *)
(* by four strategies and fuses the rankings.                              *)
(*                                                                         *)
(* The query is fixed, as the score every strategy gives to a text, chunk  *)
(* or title.  An answer is remembered until the next step of the system.   *)
(***************************************************************************)
EXTENDS EmbeddingIndex, Sequences

CONSTANTS
    FtsScore,       \* ts_rank_cd of every text and chunk, 0 when it does not match
    Likeness,       \* word_similarity of every text, chunk and document title, 0 when below
                    \* TRIGRAM_SIMILARITY_THRESHOLD
    SearchLimit     \* the request's limit

ASSUME SearchAssumption == SearchLimit \in Nat \ {0}

VARIABLE found      \* what the last step answered to a search, or Null

SearchScopes == {"all", "chunks", "memories", "sources"}
Items == ({"chunk"} \X Chunks) \cup ({"memory"} \X Memories) \cup ({"source"} \X Documents)

\* The columns of a CTE that its WHERE clause and its score look at.
Body(item) == IF item[1] = "memory" THEN memory[item[2]].text ELSE item[2]

\* Without an agent, memories whose window has passed are found too.
MemoryFound(agent, m) ==
    /\ memory[m].status # "forgotten"
    /\ IF agent = Null THEN memory[m].access_level \in {"public", "project"}
                       ELSE AgentVisible(agent, m)

ChunksFound(scope) == IF scope \in {"all", "chunks"} THEN {"chunk"} \X ActiveChunks ELSE {}
MemoriesFound(agent, scope) ==
    IF scope \in {"all", "memories"} THEN {"memory"} \X {m \in Memories : MemoryFound(agent, m)}
    ELSE {}
SourcesFound(scope) ==
    IF scope \in {"all", "sources"}
    THEN {"source"} \X {d \in Documents : document[d] = "active"} ELSE {}

\* route_union, by strategy: the items each one scores.
Strategies == {"chunk_fts", "memory_fts", "trigram_fuzzy", "title_boost"}
Routes(agent, scope) ==
    [chunk_fts |-> {x \in ChunksFound(scope) : FtsScore[Body(x)] > 0},
     memory_fts |-> {x \in MemoriesFound(agent, scope) : FtsScore[Body(x)] > 0},
     trigram_fuzzy |-> {x \in ChunksFound(scope) \cup MemoriesFound(agent, scope) :
                            Likeness[Body(x)] > 0},
     title_boost |-> {x \in SourcesFound(scope) : Likeness[Body(x)] > 0}]
RawScore(strategy, item) ==
    IF strategy \in {"chunk_fts", "memory_fts"} THEN FtsScore[Body(item)]
    ELSE Likeness[Body(item)]

\* In tenths.
RouteWeight ==
    [chunk_fts |-> 10, memory_fts |-> 10, trigram_fuzzy |-> 6, title_boost |-> 5]

\* row_number() by falling score; ids decide ties, and come in any order.
Numberings(items, Score(_)) ==
    {rank \in [items -> 1 .. Cardinality(items)] :
        \A x, y \in items : x # y => rank[x] # rank[y] /\ (Score(x) > Score(y) => rank[x] < rank[y])}

\* row_number() OVER (PARTITION BY strategy ...): chunks and memories share the ranks of
\* trigram_fuzzy.
RouteRanks(routes) ==
    LET of(s) == Numberings(routes[s], LAMBDA x : RawScore(s, x)) IN
    [chunk_fts: of("chunk_fts"), memory_fts: of("memory_fts"),
     trigram_fuzzy: of("trigram_fuzzy"), title_boost: of("title_boost")]

\* The share of a route in an item's score: route_weight / (60 + route_rank), in 10^-9ths.
Share(s, rank) == (RouteWeight[s] * 100000000) \div (60 + rank)

RrfScore(routes, ranks, item) ==
    LET share(s) == IF item \in routes[s] THEN Share(s, ranks[s][item]) ELSE 0 IN
    share("chunk_fts") + share("memory_fts") + share("trigram_fuzzy") + share("title_boost")

\* SEARCH_SQL: fused, ordered and limited.
Search(agent, scope) ==
    /\ \E routes \in {Routes(agent, scope)} :
       \E ranks \in RouteRanks(routes), items \in {UNION {routes[s] : s \in Strategies}} :
       \E place \in Numberings(items, LAMBDA x : RrfScore(routes, ranks, x)) :
          LET number == IF Cardinality(items) < SearchLimit THEN Cardinality(items)
                        ELSE SearchLimit IN
          found' = [agent |-> agent, scope |-> scope,
                    items |-> [i \in 1 .. number |-> CHOOSE x \in items : place[x] = i]]
    /\ UNCHANGED <<visibilityVars, indexVars>>
===============================================================================
