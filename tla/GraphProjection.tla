--------------------------- MODULE GraphProjection ---------------------------
(***************************************************************************)
(* The workspace graph: built from the database, copied to Neo4j by a      *)
(* sync, and answered from Neo4j or, without it, from the database.        *)
(*                                                                         *)
(* A sync clears the workspace's nodes, merges the nodes it has read, and  *)
(* then the edges of one relation type after the other, every statement in *)
(* a transaction of its own.  A load reads nodes and edges in two          *)
(* statements and takes out what the agent may not see at the end.  Syncs  *)
(* and loads overlap, and fail anywhere.                                   *)
(*                                                                         *)
(* Sources, chunks, entities, scenes and wiki pages are nodes of one kind, *)
(* whose rows do not change here; evidence stands for the relations of     *)
(* memories with them.  The limits of a load, eight times as many nodes    *)
(* and twelve times as many edges, are not reached.                        *)
(***************************************************************************)
EXTENDS AgentVisibility

CONSTANTS
    Others,         \* nodes of documents and what is made from them
    Workspace,      \* the node of the workspace
    NodeLimit,      \* limit of a sync or a load: how many memories the graph takes
    Syncs           \* concurrent sync requests

ASSUME LimitAssumption == NodeLimit \in Nat

VARIABLES
    evidence,   \* memory_evidence: pairs of a memory and another node
    available,  \* Neo4j is configured and answers
    store,      \* the graph in Neo4j
    sync,       \* sync[s]: a sync in flight, or Null
    syncAudit,  \* counts of the last graph.sync audit row, or Null
    load,       \* a load in flight or answered, or Null
    cleared     \* history: the sync that cleared the store last, what it had read, whether
                \* it alone has written since, whether all its statements have run; or Null

graphVars == <<evidence, available, store, sync, syncAudit, load, cleared>>
projectionVars == <<visibilityVars, graphVars>>

NodeIds == {Workspace} \cup Memories \cup Others
RelationTypes == {"CONTAINS", "SUPPORTED_BY"}
Edges == RelationTypes \X NodeIds \X NodeIds
Source(e) == e[2]
Destination(e) == e[3]

\* A graph has a function from node identifiers to what the node shows, and edges.
IsGraph(g) ==
    /\ DOMAIN g.nodes \subseteq NodeIds
    /\ \A n \in DOMAIN g.nodes : g.nodes[n] \in IF n \in Memories THEN Texts ELSE {Null}
    /\ g.edges \subseteq Edges
Graphs ==
    {g \in [nodes : UNION {[ids -> Texts \cup {Null}] : ids \in SUBSET NodeIds},
            edges : SUBSET Edges] : IsGraph(g)}
NoGraph == [nodes |-> [n \in {} |-> Null], edges |-> {}]

Clearings == [by : Syncs, graph : Graphs, whole : BOOLEAN, alone : BOOLEAN]

ASSUME NullAssumption == Null \notin Clearings

ProjectionTypeOK ==
    /\ VisibilityTypeOK
    /\ evidence \subseteq Memories \X Others
    /\ available \in BOOLEAN
    /\ IsGraph(store)
    /\ \A e \in store.edges : {Source(e), Destination(e)} \subseteq DOMAIN store.nodes
    /\ \A s \in Syncs : sync[s] # Null =>
          /\ sync[s].at \in {"read_memories", "read_evidence", "clear", "merge_nodes",
                             "merge_edges", "audit"}
          /\ IsGraph(sync[s].graph) /\ sync[s].left \subseteq RelationTypes
    /\ load # Null =>
          /\ load.at \in {"load_nodes", "load_edges", "read_memories", "read_evidence",
                          "filter", "answered"}
          /\ load.agent \in Agents \cup {Null} /\ load.fallback \in BOOLEAN
          /\ IsGraph(load.graph)
    /\ cleared \in Clearings \cup {Null}

ProjectionInit ==
    /\ VisibilityInit
    /\ evidence = Memories \X Others
    /\ available = TRUE
    /\ store = NoGraph
    /\ sync = [s \in Syncs |-> Null]
    /\ syncAudit = Null
    /\ load = Null
    /\ cleared = Null

\* Neo4j stops or comes back.
Toggle ==
    /\ Change
    /\ available' = ~available
    /\ UNCHANGED <<memory, policyVars, evidence, store, sync, syncAudit, load, cleared>>

\* PATCH replaces the evidence of a memory.
ReplaceEvidence(m, others) ==
    /\ Change
    /\ evidence' = {e \in evidence : e[1] # m} \cup ({m} \X others)
    /\ UNCHANGED <<memory, policyVars, available, store, sync, syncAudit, load, cleared>>

-------------------------------------------------------------------------------
(* build_workspace_graph: the nodes are read before the relations. *)

WithNodes(memories) ==
    LET ids == {Workspace} \cup Others \cup memories IN
    [nodes |-> [n \in ids |-> IF n \in Memories THEN memory[n].text ELSE Null],
     edges |-> {<<"CONTAINS", Workspace, n>> : n \in ids \ {Workspace}}]

\* add_edge leaves out an edge whose ends the limit has left out.
WithEvidence(g) ==
    [g EXCEPT !.edges = @ \cup {<<"SUPPORTED_BY", e[1], e[2]>> :
                                    e \in {x \in evidence : x[1] \in DOMAIN g.nodes}}]

-------------------------------------------------------------------------------
(* sync_workspace *)

StartSync(s) ==
    /\ Change
    /\ sync[s] = Null
    /\ sync' = [sync EXCEPT ![s] = [at |-> "read_memories", graph |-> NoGraph,
                                    left |-> RelationTypes]]
    /\ UNCHANGED <<memory, policyVars, evidence, available, store, syncAudit, load, cleared>>

At(s, step) == sync[s] # Null /\ sync[s].at = step

SyncReadsMemories(s) ==
    /\ At(s, "read_memories")
    /\ \E memories \in Limited(Memories, NodeLimit) :
         sync' = [sync EXCEPT ![s].at = "read_evidence", ![s].graph = WithNodes(memories)]
    /\ UNCHANGED <<visibilityVars, evidence, available, store, syncAudit, load, cleared>>

SyncReadsEvidence(s) ==
    /\ At(s, "read_evidence")
    /\ sync' = [sync EXCEPT ![s].at = "clear", ![s].graph = WithEvidence(@)]
    /\ UNCHANGED <<visibilityVars, evidence, available, store, syncAudit, load, cleared>>

\* Fault: the nodes of earlier syncs stay.
NotCleared == store

\* DETACH DELETE of the workspace's nodes.
Cleared == NoGraph

ClearStore(s) ==
    /\ At(s, "clear") /\ available
    /\ store' = Cleared
    /\ sync' = [sync EXCEPT ![s].at = "merge_nodes"]
    /\ cleared' = [by |-> s, graph |-> sync[s].graph, whole |-> FALSE, alone |-> TRUE]
    /\ UNCHANGED <<visibilityVars, evidence, available, syncAudit, load>>

\* MERGE by id: a node that is there is set anew and keeps its edges.
MergedNodes(g) ==
    [n \in DOMAIN store.nodes \cup DOMAIN g.nodes |->
        IF n \in DOMAIN g.nodes THEN g.nodes[n] ELSE store.nodes[n]]

MergeNodes(s) ==
    /\ At(s, "merge_nodes") /\ available
    /\ store' = [store EXCEPT !.nodes = MergedNodes(sync[s].graph)]
    /\ sync' = [sync EXCEPT ![s].at = "merge_edges"]
    /\ cleared' = [cleared EXCEPT !.alone = @ /\ cleared.by = s]
    /\ UNCHANGED <<visibilityVars, evidence, available, syncAudit, load>>

OfType(edges, type) == {e \in edges : e[1] = type}

\* _group_edges_by_relation_type: one statement for every type that has edges.
LeftAfter(left, type) == left \ {type}

\* MATCH finds the ends that are there.
Matched(edges) == {e \in edges : {Source(e), Destination(e)} \subseteq DOMAIN store.nodes}

MergeEdges(s) ==
    /\ At(s, "merge_edges") /\ available
    /\ \E type \in sync[s].left :
         /\ store' = [store EXCEPT !.edges = @ \cup Matched(OfType(sync[s].graph.edges, type))]
         /\ sync' = [sync EXCEPT ![s].left = LeftAfter(@, type),
                                 ![s].at = IF LeftAfter(sync[s].left, type) = {} THEN "audit"
                                           ELSE "merge_edges"]
         /\ cleared' = [cleared EXCEPT !.alone = @ /\ cleared.by = s,
                                       !.whole = @ \/ (cleared.by = s /\ LeftAfter(sync[s].left, type) = {})]
    /\ UNCHANGED <<visibilityVars, evidence, available, syncAudit, load>>

AuditSync(s) ==
    /\ At(s, "audit")
    /\ syncAudit' = [node_count |-> Cardinality(DOMAIN sync[s].graph.nodes),
                     edge_count |-> Cardinality(sync[s].graph.edges)]
    /\ sync' = [sync EXCEPT ![s] = Null]
    /\ UNCHANGED <<visibilityVars, evidence, available, store, load, cleared>>

\* Neo4j is not there, a statement fails or the process stops: what has run stays.
FailSync(s) ==
    /\ sync[s] # Null
    /\ sync' = [sync EXCEPT ![s] = Null]
    /\ UNCHANGED <<visibilityVars, evidence, available, store, syncAudit, load, cleared>>

-------------------------------------------------------------------------------
(* load_workspace_graph; preview_workspace answers the built graph as it is. *)

NewLoad(at, agent, fallback) ==
    [at |-> at, agent |-> agent, fallback |-> fallback, graph |-> NoGraph]

\* _ensure_available: without Neo4j the database answers, or nothing does.
StartLoad(agent, fallback) ==
    /\ Change
    /\ load = Null
    /\ available \/ fallback
    /\ load' = NewLoad(IF available THEN "load_nodes" ELSE "read_memories", agent, fallback)
    /\ UNCHANGED <<memory, policyVars, evidence, available, store, sync, syncAudit, cleared>>

LoadAt(step) == load # Null /\ load.at = step

LoadNodes ==
    /\ LoadAt("load_nodes") /\ available
    /\ load' = [load EXCEPT !.at = "load_edges", !.graph.nodes = store.nodes]
    /\ UNCHANGED <<visibilityVars, evidence, available, store, sync, syncAudit, cleared>>

\* A graph without nodes was never synced: the database answers.
LoadEdges ==
    /\ LoadAt("load_edges") /\ available
    /\ load' = [load EXCEPT
          !.at = IF DOMAIN load.graph.nodes = {} THEN "read_memories" ELSE "filter",
          !.graph.edges = {e \in store.edges :
                {Source(e), Destination(e)} \subseteq DOMAIN load.graph.nodes}]
    /\ UNCHANGED <<visibilityVars, evidence, available, store, sync, syncAudit, cleared>>

LoadReadsMemories ==
    /\ LoadAt("read_memories")
    /\ \E memories \in Limited(Memories, NodeLimit) :
         load' = [load EXCEPT !.at = "read_evidence", !.graph = WithNodes(memories)]
    /\ UNCHANGED <<visibilityVars, evidence, available, store, sync, syncAudit, cleared>>

LoadReadsEvidence ==
    /\ LoadAt("read_evidence")
    /\ load' = [load EXCEPT !.at = "filter", !.graph = WithEvidence(@)]
    /\ UNCHANGED <<visibilityVars, evidence, available, store, sync, syncAudit, cleared>>

\* list_visible_memory_ids
VisibleMemories(agent) ==
    {m \in Memories : IF agent # Null THEN AgentVisible(agent, m)
                      ELSE /\ memory[m].status = "active"
                           /\ memory[m].access_level \in {"public", "project"}}

\* Fault: only the memories that are connected are looked at.
FilteredEdgesOnly(g, agent) ==
    [nodes |-> g.nodes,
     edges |-> {e \in g.edges : {Source(e), Destination(e)} \cap Memories
                                    \subseteq VisibleMemories(agent)}]

\* _filter_graph
Filtered(g, agent) ==
    LET allowed == {n \in DOMAIN g.nodes : n \in Memories => n \in VisibleMemories(agent)}
        edges == {e \in g.edges : {Source(e), Destination(e)} \subseteq allowed}
        connected == {n \in allowed : \E e \in edges : n \in {Source(e), Destination(e)}}
    IN [nodes |-> [n \in connected \cup ({Workspace} \cap allowed) |-> g.nodes[n]],
        edges |-> edges]

FilterGraph ==
    /\ LoadAt("filter")
    /\ load' = [load EXCEPT !.at = "answered", !.graph = Filtered(@, load.agent)]
    /\ UNCHANGED <<visibilityVars, evidence, available, store, sync, syncAudit, cleared>>

FailLoad ==
    /\ load # Null /\ load.at # "answered"
    /\ load' = Null
    /\ UNCHANGED <<visibilityVars, evidence, available, store, sync, syncAudit, cleared>>

GraphNext ==
    \/ Toggle
    \/ \E m \in Memories, others \in SUBSET Others : ReplaceEvidence(m, others)
    \/ \E s \in Syncs : StartSync(s)
    \/ \E s \in Syncs : SyncReadsMemories(s)
    \/ \E s \in Syncs : SyncReadsEvidence(s)
    \/ \E s \in Syncs : ClearStore(s)
    \/ \E s \in Syncs : MergeNodes(s)
    \/ \E s \in Syncs : MergeEdges(s)
    \/ \E s \in Syncs : AuditSync(s)
    \/ \E s \in Syncs : FailSync(s)
    \/ \E agent \in Agents \cup {Null}, fallback \in BOOLEAN : StartLoad(agent, fallback)
    \/ LoadNodes
    \/ LoadEdges
    \/ LoadReadsMemories
    \/ LoadReadsEvidence
    \/ FilterGraph
    \/ FailLoad

ProjectionNext ==
    \/ VisibilityNext /\ UNCHANGED graphVars
    \/ GraphNext

ProjectionSpec == ProjectionInit /\ [][ProjectionNext]_projectionVars

-------------------------------------------------------------------------------
(* Properties. *)

\* "memory nodes outside the caller's view are removed" (_filter_graph): whatever Neo4j
\* holds and whenever it was synced, a memory denied or forgotten by the end of a load is
\* not in its answer.
HiddenNeverShown ==
    [][load # Null /\ load.at # "answered" /\ load' # Null /\ load'.at = "answered" =>
        \A m \in Memories \cap DOMAIN load'.graph.nodes :
            IF load.agent # Null THEN MaySee(load.agent, m)'
            ELSE memory'[m].status = "active" /\ memory'[m].access_level # "private"]_projectionVars

\* "replace one workspace graph" (Neo4jGraphStore.sync): however syncs overlap and fail,
\* the nodes and edges of the sync that cleared the store last, once all its statements
\* have run, are there, and nothing else is if no other wrote after that clearing, whatever
\* failed before it.
LastSyncHolds ==
    cleared # Null /\ cleared.whole =>
        /\ DOMAIN cleared.graph.nodes \subseteq DOMAIN store.nodes
        /\ cleared.graph.edges \subseteq store.edges
        /\ cleared.alone => store = cleared.graph
===============================================================================
