------------------------ MODULE GraphProjectionProofs ------------------------
(***************************************************************************)
(* Proofs about AgentVisibility and GraphProjection: any number of syncs   *)
(* and loads, which overlap and fail anywhere, beside any changes of       *)
(* memories and policies.                                                  *)
(***************************************************************************)
EXTENDS GraphProjection, TLAPS

-------------------------------------------------------------------------------
(* Visibility: policies are changed by any number of overlapping requests, and the view *)
(* shows what the documents promise. *)

\* A policy that was not created yet has no audit row.
CreatedBeforeAudited == \A p \in Policies : policy[p] = Null => policyAudit[p] = Null

VisibilityInv == VisibilityTypeOK /\ AuditShowsPolicy /\ CreatedBeforeAudited

\* What an update writes is a policy.
LEMMA AssignedType ==
    ASSUME NEW request \in RequestRow, NEW row \in PolicyRow
    PROVE  Assigned(request, row) \in PolicyRow
<1>1. DOMAIN row = {"principal", "role", "scope", "effect"}
  BY DEF PolicyRow
<1>2. DOMAIN NotGiven = {"role", "scope", "effect"}
  BY DEF NotGiven
<1>3. request.given \in Given
  BY DEF RequestRow
<1> DEFINE a == Assigned(request, row)
<1>4. a = [principal |-> a.principal, role |-> a.role, scope |-> a.scope, effect |-> a.effect]
  BY <1>1 DEF Assigned
<1>5. /\ a.principal = row.principal
      /\ a.role   = row.role   \/ (a.role   = request.given.role   /\ a.role   # Null)
      /\ a.scope  = row.scope  \/ (a.scope  = request.given.scope  /\ a.scope  # Null)
      /\ a.effect = row.effect \/ (a.effect = request.given.effect /\ a.effect # Null)
  BY <1>1, <1>2 DEF Assigned
<1> HIDE DEF a
<1>6. /\ a.principal \in Agents \cup {"role"} /\ a.role \in Roles /\ a.scope \in Scopes
      /\ a.effect \in Effects
  BY <1>3, <1>5 DEF PolicyRow, Given
<1>7. a \in PolicyRow
  BY <1>4, <1>6 DEF PolicyRow
<1> QED
  BY <1>7 DEF a

-------------------------------------------------------------------------------
(* One lemma for every request on policies. *)

USE DEF VisibilityInv, VisibilityTypeOK, AuditShowsPolicy, CreatedBeforeAudited

LEMMA CreateKeepsPolicies ==
    ASSUME VisibilityInv, NEW p \in Policies, NEW row \in PolicyRow, CreatePolicy(p, row)
    PROVE  VisibilityInv'
BY PolicyAssumption, ChangesAssumption DEF CreatePolicy, Change

LEMMA UpdateReadKeepsPolicies ==
    ASSUME VisibilityInv, NEW u \in PolicyRequests, NEW p \in Policies, NEW given \in Given,
           UpdatePolicyRead(u, p, given)
    PROVE  VisibilityInv'
<1>1. [kind |-> "update", policy |-> p, given |-> given, before |-> policy[p]] \in RequestRow
  BY DEF UpdatePolicyRead, Live, RequestRow
<1> QED
  BY <1>1, ChangesAssumption DEF UpdatePolicyRead, Change

LEMMA DeleteReadKeepsPolicies ==
    ASSUME VisibilityInv, NEW u \in PolicyRequests, NEW p \in Policies, DeletePolicyRead(u, p)
    PROVE  VisibilityInv'
<1>1. [kind |-> "delete", policy |-> p, given |-> NotGiven, before |-> policy[p]] \in RequestRow
  BY DEF DeletePolicyRead, Live, RequestRow, NotGiven, Given
<1> QED
  BY <1>1, ChangesAssumption DEF DeletePolicyRead, Change

LEMMA UpdateWriteKeepsPolicies ==
    ASSUME VisibilityInv, NEW u \in PolicyRequests, UpdatePolicyWrite(u)
    PROVE  VisibilityInv'
<1> DEFINE request == policyRequest[u]
           p == request.policy
           row == Assigned(request, policy[p])
           audit == AuditRow("policy.update", request, row)
<1>1. request \in RequestRow /\ p \in Policies /\ request.before \in PolicyRow
  BY DEF UpdatePolicyWrite, RequestRow
<1>2. CASE Live(p) /\ KeyFree(p, row)
  <2>1. row \in PolicyRow
    BY <1>1, <1>2, AssignedType DEF Live
  <2>2. audit \in PolicyAuditRow /\ audit.after = row
    BY <1>1, <2>1 DEF AuditRow, PolicyAuditRow
  <2>3. /\ policy' = [policy EXCEPT ![p] = row]
        /\ policyAudit' = [policyAudit EXCEPT ![p] = audit]
        /\ policyRequest' = [policyRequest EXCEPT ![u] = Null]
        /\ UNCHANGED <<memory, changes>>
    BY <1>2 DEF UpdatePolicyWrite, Audited
  <2> HIDE DEF row, audit, p, request
  <2> QED
    BY <1>1, <2>1, <2>2, <2>3, PolicyAssumption
<1>3. CASE ~(Live(p) /\ KeyFree(p, row))
  BY <1>1, <1>3 DEF UpdatePolicyWrite
<1> QED
  BY <1>2, <1>3

LEMMA DeleteWriteKeepsPolicies ==
    ASSUME VisibilityInv, NEW u \in PolicyRequests, DeletePolicyWrite(u)
    PROVE  VisibilityInv'
<1> DEFINE request == policyRequest[u]
           p == request.policy
           audit == AuditRow("policy.delete", request, Deleted)
<1>1. request \in RequestRow /\ p \in Policies /\ request.before \in PolicyRow
  BY DEF DeletePolicyWrite, RequestRow
<1>2. audit \in PolicyAuditRow /\ audit.after = Deleted
  BY <1>1 DEF AuditRow, PolicyAuditRow
<1>3. /\ policy' = [policy EXCEPT ![p] = Deleted]
      /\ policyAudit' = [policyAudit EXCEPT ![p] = audit]
      /\ policyRequest' = [policyRequest EXCEPT ![u] = Null]
      /\ UNCHANGED <<memory, changes>>
  BY DEF DeletePolicyWrite
<1> HIDE DEF audit, p, request
<1> QED
  BY <1>1, <1>2, <1>3, PolicyAssumption

LEMMA MemoriesKeepPolicies ==
    ASSUME VisibilityInv, NEW m \in Memories,
           \/ \E text \in Texts : EditText(m, text)
           \/ \E level \in Levels : ChangeAccess(m, level)
           \/ Close(m) \/ Forget(m)
    PROVE  VisibilityInv'
<1>1. memory' \in [Memories -> MemoryRow]
  BY DEF EditText, ChangeAccess, Close, Forget, MemoryRow
<1> QED
  BY <1>1, ChangesAssumption DEF EditText, ChangeAccess, Close, Forget, Change, policyVars

LEMMA NextKeepsVisibility ==
    ASSUME VisibilityInv, [VisibilityNext]_visibilityVars
    PROVE  VisibilityInv'
<1>1. CASE UNCHANGED visibilityVars
  BY <1>1 DEF visibilityVars, policyVars
<1> QED
  BY <1>1, CreateKeepsPolicies, UpdateReadKeepsPolicies, DeleteReadKeepsPolicies,
     UpdateWriteKeepsPolicies, DeleteWriteKeepsPolicies, MemoriesKeepPolicies
  DEF VisibilityNext

LEMMA InitVisibility ==
    ASSUME VisibilityInit
    PROVE  VisibilityInv
BY RowsAssumption, ChangesAssumption DEF VisibilityInit

\* A step changes a field of a policy only to what a request in flight gives for it.
LEMMA StepChangesGivenFields ==
    ASSUME VisibilityInv, [VisibilityNext]_visibilityVars, NEW p \in Policies,
           NEW f \in DOMAIN NotGiven, Live(p), Live(p)', policy'[p][f] # policy[p][f]
    PROVE  \E u \in PolicyRequests :
              /\ policyRequest[u] # Null /\ policyRequest[u].policy = p
              /\ policyRequest[u].given[f] = policy'[p][f]
<1>1. PICK u \in PolicyRequests : UpdatePolicyWrite(u) \/ DeletePolicyWrite(u)
  <2>1. ASSUME NEW q \in Policies, NEW row \in PolicyRow, CreatePolicy(q, row)
        PROVE  FALSE
    BY <2>1 DEF CreatePolicy, Live
  <2>2. CASE UNCHANGED policy
    BY <2>2
  <2> QED
    BY <2>1, <2>2 DEF VisibilityNext, visibilityVars, policyVars, EditText, ChangeAccess, Close,
       Forget, UpdatePolicyRead, DeletePolicyRead
<1> DEFINE request == policyRequest[u]
           q == request.policy
           row == Assigned(request, policy[q])
<1>2. request # Null /\ request \in RequestRow /\ q \in Policies
  BY <1>1 DEF UpdatePolicyWrite, DeletePolicyWrite, RequestRow
<1>3. UpdatePolicyWrite(u)
  BY <1>1, <1>2 DEF DeletePolicyWrite, Live
<1>4. policy' = [policy EXCEPT ![q] = row]
  BY <1>3 DEF UpdatePolicyWrite
<1>5. q = p /\ policy'[p] = row
  BY <1>2, <1>4
<1>6. row[f] = policy[p][f] \/ row[f] = request.given[f]
  BY <1>5 DEF Assigned, Live, PolicyRow, NotGiven
<1> QED
  BY <1>2, <1>5, <1>6

\* What the view v_agent_visible_memory shows an agent is what the documents let it see.
LEMMA VisibleIsPermitted ==
    ASSUME NEW a, NEW m, AgentVisible(a, m)
    PROVE  MaySee(a, m)
BY DEF AgentVisible, MaySee, SomePolicy, Applies, Matching, Concerns

-------------------------------------------------------------------------------
(* The theorems. *)

THEOREM VisibilityInvariance == VisibilitySpec => []VisibilityInv
BY InitVisibility, NextKeepsVisibility, PTL DEF VisibilitySpec

\* Policies, requests on them and their audit rows are well typed.
THEOREM VisibilityTypeCorrect == VisibilitySpec => []VisibilityTypeOK
<1>1. VisibilityInv => VisibilityTypeOK
  OBVIOUS
<1> QED
  BY <1>1, VisibilityInvariance, PTL

\* The last audit row of a policy shows the policy, however updates and deletes overlap.
THEOREM AuditsArePolicies == VisibilitySpec => []AuditShowsPolicy
<1>1. VisibilityInv => AuditShowsPolicy
  OBVIOUS
<1> QED
  BY <1>1, VisibilityInvariance, PTL

\* Of two overlapping updates of different fields of a policy neither undoes the other.
THEOREM UpdatesAreFieldwise == VisibilitySpec => OnlyGivenFieldsChange
<1>1. VisibilityInv /\ [VisibilityNext]_visibilityVars =>
        [\A p \in Policies, f \in DOMAIN NotGiven :
            Live(p) /\ Live(p)' /\ policy'[p][f] # policy[p][f]
                => \E u \in PolicyRequests : policyRequest[u] # Null
                    /\ policyRequest[u].policy = p
                    /\ policyRequest[u].given[f] = policy'[p][f]]_visibilityVars
  BY StepChangesGivenFields
<1> QED
  BY <1>1, VisibilityInvariance, PTL DEF VisibilitySpec, OnlyGivenFieldsChange

-------------------------------------------------------------------------------
(* The inductive invariant. *)

Formed(g) ==
    /\ g = [nodes |-> g.nodes, edges |-> g.edges]
    /\ g.nodes = [n \in DOMAIN g.nodes |-> g.nodes[n]]
    /\ IsGraph(g)

\* A graph as build_workspace_graph makes it: no edge without its ends.
Whole(g) ==
    /\ Formed(g)
    /\ \A e \in g.edges : {Source(e), Destination(e)} \subseteq DOMAIN g.nodes

SyncOK(x) ==
    /\ DOMAIN x = {"at", "graph", "left"} /\ x = [f \in DOMAIN x |-> x[f]]
    /\ x.at \in {"read_memories", "read_evidence", "clear", "merge_nodes", "merge_edges", "audit"}
    /\ x.left \subseteq RelationTypes
    /\ Whole(x.graph)
    /\ x.at \notin {"merge_edges", "audit"} => x.left = RelationTypes
    /\ x.at = "read_evidence" => Others \subseteq DOMAIN x.graph.nodes

LoadOK(x) ==
    /\ DOMAIN x = {"at", "agent", "fallback", "graph"} /\ x = [f \in DOMAIN x |-> x[f]]
    /\ x.at \in {"load_nodes", "load_edges", "read_memories", "read_evidence", "filter", "answered"}
    /\ x.agent \in Agents \cup {Null} /\ x.fallback \in BOOLEAN
    /\ Formed(x.graph)

GraphsOK ==
    /\ evidence \subseteq Memories \X Others
    /\ available \in BOOLEAN
    /\ Whole(store)
    /\ sync = [s \in Syncs |-> sync[s]]
    /\ \A s \in Syncs : sync[s] # Null => SyncOK(sync[s])
    /\ load # Null => LoadOK(load)

Writing(s) == sync[s] # Null /\ sync[s].at \in {"merge_nodes", "merge_edges", "audit"}

\* The sync that cleared the store last, while it is writing.
Owner(s) == Writing(s) /\ cleared.by = s

ClearedOK ==
    /\ \A s \in Syncs : Writing(s) => cleared # Null
    /\ cleared # Null => cleared \in Clearings /\ Whole(cleared.graph)
    /\ \A s \in Syncs : Owner(s) => sync[s].graph = cleared.graph

\* What the sync that cleared the store last has written is still there: the nodes once it
\* has merged them, and the edges of every relation type that is not left.
OwnerKept ==
    /\ \A s \in Syncs : Owner(s) /\ sync[s].at # "merge_nodes" =>
          /\ DOMAIN cleared.graph.nodes \subseteq DOMAIN store.nodes
          /\ \A e \in cleared.graph.edges : e[1] \in sync[s].left \/ e \in store.edges
    /\ cleared # Null /\ cleared.whole =>
          /\ DOMAIN cleared.graph.nodes \subseteq DOMAIN store.nodes
          /\ cleared.graph.edges \subseteq store.edges

\* Nothing else is there while no other has written.
NothingElse ==
    cleared # Null /\ cleared.alone =>
        /\ DOMAIN store.nodes \subseteq DOMAIN cleared.graph.nodes
        /\ \A n \in DOMAIN store.nodes : store.nodes[n] = cleared.graph.nodes[n]
        /\ store.edges \subseteq cleared.graph.edges

IInv == VisibilityInv /\ GraphsOK /\ ClearedOK /\ OwnerKept /\ NothingElse

LEMMA InvariantImpliesTypes == ASSUME IInv PROVE ProjectionTypeOK
BY DEF IInv, VisibilityInv, GraphsOK, SyncOK, LoadOK, Whole, Formed, ClearedOK, ProjectionTypeOK

\* The strengthening implies the property that a run checks.
LEMMA InvariantImpliesLastSync ==
    ASSUME IInv
    PROVE  LastSyncHolds
<1> SUFFICES ASSUME cleared # Null, cleared.whole
             PROVE  /\ DOMAIN cleared.graph.nodes \subseteq DOMAIN store.nodes
                    /\ cleared.graph.edges \subseteq store.edges
                    /\ cleared.alone => store = cleared.graph
  BY DEF LastSyncHolds
<1>1. /\ DOMAIN cleared.graph.nodes \subseteq DOMAIN store.nodes
      /\ cleared.graph.edges \subseteq store.edges
  BY DEF IInv, OwnerKept
<1>2. ASSUME cleared.alone
      PROVE  store = cleared.graph
  <2>1. store.edges = cleared.graph.edges /\ DOMAIN store.nodes = DOMAIN cleared.graph.nodes
    BY <1>1, <1>2 DEF IInv, NothingElse
  <2>2. \A n \in DOMAIN store.nodes : store.nodes[n] = cleared.graph.nodes[n]
    BY <1>2 DEF IInv, NothingElse
  <2>3. Formed(store) /\ Formed(cleared.graph)
    BY DEF IInv, GraphsOK, ClearedOK, Whole
  <2>4. store.nodes = cleared.graph.nodes
    BY <2>1, <2>2, <2>3 DEF Formed
  <2> QED
    BY <2>1, <2>3, <2>4 DEF Formed
<1> QED
  BY <1>1, <1>2

-------------------------------------------------------------------------------
(* Graphs. *)

LEMMA GraphsAreFormed == \A g : g \in Graphs <=> Formed(g)
<1>1. ASSUME NEW g, Formed(g)
      PROVE  g \in Graphs
  <2>1. DOMAIN g.nodes \in SUBSET NodeIds
    BY <1>1 DEF Formed, IsGraph
  <2>2. \A n \in DOMAIN g.nodes : g.nodes[n] \in Texts \cup {Null}
    BY <1>1 DEF Formed, IsGraph
  <2>3. g.nodes \in [DOMAIN g.nodes -> Texts \cup {Null}]
    BY <1>1, <2>2 DEF Formed
  <2>4. g.nodes \in UNION {[ids -> Texts \cup {Null}] : ids \in SUBSET NodeIds}
    BY <2>1, <2>3
  <2> QED
    BY <1>1, <2>4 DEF Formed, IsGraph, Graphs
<1>2. ASSUME NEW g \in Graphs
      PROVE  Formed(g)
  <2>1. PICK ids \in SUBSET NodeIds : g.nodes \in [ids -> Texts \cup {Null}]
    BY DEF Graphs
  <2> QED
    BY <2>1 DEF Formed, Graphs
<1> QED
  BY <1>1, <1>2

LEMMA EmptyGraphWhole == Whole(NoGraph) /\ DOMAIN NoGraph.nodes = {} /\ NoGraph.edges = {}
BY DEF NoGraph, Whole, Formed, IsGraph

\* The nodes that build_workspace_graph reads.
LEMMA NodesWhole ==
    ASSUME VisibilityInv, NEW memories \in SUBSET Memories
    PROVE  Whole(WithNodes(memories)) /\ Others \subseteq DOMAIN WithNodes(memories).nodes
<1> DEFINE ids == {Workspace} \cup Others \cup memories
           g == WithNodes(memories)
<1>1. /\ g.nodes = [n \in ids |-> IF n \in Memories THEN memory[n].text ELSE Null]
      /\ g.edges = {<<"CONTAINS", Workspace, n>> : n \in ids \ {Workspace}}
      /\ g = [nodes |-> g.nodes, edges |-> g.edges]
  BY DEF WithNodes
<1>2. ids \subseteq NodeIds
  BY DEF NodeIds
<1>3. \A m \in Memories : memory[m].text \in Texts
  BY DEF VisibilityInv, VisibilityTypeOK, MemoryRow
<1>4. \A e \in g.edges : e \in Edges /\ {Source(e), Destination(e)} \subseteq ids
  BY <1>1, <1>2 DEF Edges, Source, Destination, RelationTypes, NodeIds
<1>5. DOMAIN g.nodes = ids /\ g.nodes = [n \in DOMAIN g.nodes |-> g.nodes[n]]
  BY <1>1
<1>6. \A n \in DOMAIN g.nodes : g.nodes[n] \in IF n \in Memories THEN Texts ELSE {Null}
  BY <1>1, <1>3
<1> HIDE DEF g, ids
<1>7. Whole(g)
  BY <1>1, <1>2, <1>4, <1>5, <1>6 DEF Whole, Formed, IsGraph
<1> QED
  BY <1>5, <1>7 DEF g, ids

\* The evidence it adds.
LEMMA EvidenceFormed ==
    ASSUME evidence \subseteq Memories \X Others, NEW g, Formed(g)
    PROVE  /\ Formed(WithEvidence(g)) /\ WithEvidence(g).nodes = g.nodes
           /\ Whole(g) /\ Others \subseteq DOMAIN g.nodes => Whole(WithEvidence(g))
<1> DEFINE added == {<<"SUPPORTED_BY", e[1], e[2]>> :
                        e \in {x \in evidence : x[1] \in DOMAIN g.nodes}}
           h == WithEvidence(g)
<1>1. h.nodes = g.nodes /\ h.edges = g.edges \cup added
      /\ h = [nodes |-> h.nodes, edges |-> h.edges]
  <2>1. h = [g EXCEPT !.edges = g.edges \cup added]
    BY DEF WithEvidence
  <2> HIDE DEF h, added
  <2> QED
    BY <2>1 DEF Formed
<1>2. \A e \in added : /\ e \in Edges
                       /\ Source(e) \in DOMAIN g.nodes /\ Destination(e) \in Others
  BY DEF Edges, Source, Destination, RelationTypes, NodeIds
<1> HIDE DEF added, h
<1>3. Formed(h)
  BY <1>1, <1>2 DEF Formed, IsGraph
<1>4. Whole(g) /\ Others \subseteq DOMAIN g.nodes => Whole(h)
  BY <1>1, <1>2, <1>3 DEF Whole
<1> QED
  BY <1>1, <1>3, <1>4 DEF h

-------------------------------------------------------------------------------
(* Policies and memories beside the graph. *)

LEMMA GraphNextKeepsVisibility ==
    ASSUME VisibilityInv, GraphNext
    PROVE  VisibilityInv'
<1>1. UNCHANGED <<memory, policyVars>> /\ (Change \/ changes' = changes)
  BY DEF GraphNext, Toggle, ReplaceEvidence, StartSync, SyncReadsMemories, SyncReadsEvidence,
     ClearStore, MergeNodes, MergeEdges, AuditSync, FailSync, StartLoad, LoadNodes, LoadEdges,
     LoadReadsMemories, LoadReadsEvidence, FilterGraph, FailLoad, visibilityVars
<1>2. changes' \in 0 .. MaxChanges
  BY <1>1, ChangesAssumption DEF Change, VisibilityInv, VisibilityTypeOK
<1> QED
  BY <1>1, <1>2
  DEF VisibilityInv, VisibilityTypeOK, AuditShowsPolicy, CreatedBeforeAudited, policyVars

\* Steps that touch neither Neo4j nor a sync.
LEMMA SyncsUntouched ==
    ASSUME IInv, UNCHANGED <<store, sync, cleared>>
    PROVE  ClearedOK' /\ OwnerKept' /\ NothingElse'
BY DEF IInv, ClearedOK, OwnerKept, NothingElse, Writing, Owner

\* Steps that only move a load.
LEMMA LoadMoves ==
    ASSUME IInv, VisibilityInv', UNCHANGED <<evidence, available, store, sync, cleared>>,
           load' # Null => LoadOK(load')
    PROVE  IInv'
<1>1. GraphsOK'
  BY DEF IInv, GraphsOK
<1> QED
  BY <1>1, SyncsUntouched DEF IInv

\* Steps of a sync that do not write: one that starts, reads, or ends.
LEMMA SyncMoves ==
    ASSUME IInv, VisibilityInv', UNCHANGED <<evidence, available, store, load, cleared>>,
           NEW s \in Syncs, NEW x, sync' = [sync EXCEPT ![s] = x],
           x # Null => SyncOK(x) /\ x.at \in {"read_memories", "read_evidence", "clear"}
    PROVE  IInv'
<1>1. sync'[s] = x /\ \A t \in Syncs \ {s} : sync'[t] = sync[t]
  BY DEF IInv, GraphsOK
<1>2. GraphsOK'
  BY <1>1 DEF IInv, GraphsOK
<1>3. \A t \in Syncs : Writing(t)' => t # s /\ Writing(t) /\ sync'[t] = sync[t]
  BY <1>1 DEF Writing
<1>4. ClearedOK' /\ OwnerKept' /\ NothingElse'
  BY <1>3 DEF IInv, ClearedOK, OwnerKept, NothingElse, Owner
<1> QED
  BY <1>2, <1>4 DEF IInv

-------------------------------------------------------------------------------
(* The statements of a sync. *)

LEMMA ClearKeeps ==
    ASSUME IInv, VisibilityInv', NEW s \in Syncs, ClearStore(s)
    PROVE  IInv'
<1> DEFINE g == sync[s].graph
           x == [sync[s] EXCEPT !.at = "merge_nodes"]
<1>1. /\ sync[s] # Null /\ SyncOK(sync[s])
      /\ store' = NoGraph /\ sync' = [sync EXCEPT ![s] = x]
      /\ UNCHANGED <<evidence, available, load>>
  BY DEF ClearStore, Cleared, At, IInv, GraphsOK
<1>2. /\ cleared' \in Clearings /\ cleared' # Null
      /\ cleared'.by = s /\ cleared'.graph = g /\ ~cleared'.whole
  <2>1. g \in Graphs
    BY <1>1, GraphsAreFormed DEF SyncOK, Whole
  <2>2. cleared' = [by |-> s, graph |-> g, whole |-> FALSE, alone |-> TRUE]
    BY DEF ClearStore
  <2> HIDE DEF g
  <2>3. [by |-> s, graph |-> g, whole |-> FALSE, alone |-> TRUE] \in Clearings
    BY <2>1 DEF Clearings
  <2> QED
    BY <2>2, <2>3, NullAssumption
<1>3. SyncOK(x) /\ x.graph = g /\ x.at = "merge_nodes"
  <2>1. /\ x.at = "merge_nodes" /\ x.graph = g /\ x.left = sync[s].left
        /\ DOMAIN x = {"at", "graph", "left"} /\ x = [f \in DOMAIN x |-> x[f]]
    BY <1>1 DEF SyncOK
  <2>2. Whole(g) /\ sync[s].left = RelationTypes
    BY <1>1 DEF SyncOK, ClearStore, At
  <2> HIDE DEF x
  <2> QED
    BY <2>1, <2>2 DEF SyncOK
<1>4. sync'[s] = x /\ \A t \in Syncs \ {s} : sync'[t] = sync[t]
  BY <1>1 DEF IInv, GraphsOK
<1> HIDE DEF x
<1>5. GraphsOK'
  BY <1>1, <1>3, <1>4, EmptyGraphWhole DEF IInv, GraphsOK
<1>6. \A t \in Syncs : Owner(t)' => t = s
  BY <1>2 DEF Owner
<1>7. ClearedOK'
  BY <1>1, <1>2, <1>3, <1>4, <1>6 DEF ClearedOK, SyncOK
<1>8. OwnerKept'
  BY <1>2, <1>3, <1>4, <1>6 DEF OwnerKept
<1>9. NothingElse'
  BY <1>1, EmptyGraphWhole DEF NothingElse
<1> QED
  BY <1>5, <1>7, <1>8, <1>9 DEF IInv

\* A statement that writes for a sync and keeps what is there: another sync's ownership
\* ends the claim that nothing else is there, its own keeps it.
WriteStep(s, x, nodes, edges, whole) ==
    /\ SyncOK(x) /\ x.graph = sync[s].graph /\ x.at \in {"merge_edges", "audit"}
    /\ sync' = [sync EXCEPT ![s] = x] /\ UNCHANGED <<evidence, available, load>>
    /\ store' = [nodes |-> nodes, edges |-> edges] /\ Whole(store')
    /\ DOMAIN store.nodes \subseteq DOMAIN nodes /\ store.edges \subseteq edges
    /\ DOMAIN nodes \subseteq DOMAIN store.nodes \cup DOMAIN x.graph.nodes
    /\ \A n \in DOMAIN nodes : \/ n \in DOMAIN store.nodes /\ nodes[n] = store.nodes[n]
                               \/ n \in DOMAIN x.graph.nodes /\ nodes[n] = x.graph.nodes[n]
    /\ edges \subseteq store.edges \cup x.graph.edges
    /\ whole \in BOOLEAN
    /\ cleared' = [cleared EXCEPT !.alone = @ /\ cleared.by = s, !.whole = whole]
    /\ cleared.by = s => /\ DOMAIN x.graph.nodes \subseteq DOMAIN nodes
                         /\ \A e \in x.graph.edges : e[1] \in x.left \/ e \in edges
    /\ whole => cleared.whole \/ (cleared.by = s /\ x.left = {})

LEMMA WriteSteps ==
    ASSUME IInv, NEW s \in Syncs, Writing(s), NEW x, NEW nodes, NEW edges, NEW whole,
           WriteStep(s, x, nodes, edges, whole)
    PROVE  GraphsOK' /\ ClearedOK' /\ OwnerKept' /\ NothingElse'
<1> USE DEF WriteStep
<1>1. cleared \in Clearings /\ cleared # Null /\ Whole(cleared.graph)
  BY DEF IInv, ClearedOK
<1>2. /\ cleared' \in Clearings /\ cleared' # Null
      /\ cleared'.by = cleared.by /\ cleared'.graph = cleared.graph /\ cleared'.whole = whole
      /\ cleared'.alone => cleared.alone /\ cleared.by = s
  <2>1. (cleared.alone /\ cleared.by = s) \in BOOLEAN
    OBVIOUS
  <2> QED
    BY <1>1, <2>1, NullAssumption DEF Clearings
<1>3. sync'[s] = x /\ \A t \in Syncs \ {s} : sync'[t] = sync[t]
  BY DEF IInv, GraphsOK
<1>4. GraphsOK'
  BY <1>3 DEF IInv, GraphsOK
<1>5. \A t \in Syncs : Owner(t)' => Owner(t)
  BY <1>2, <1>3 DEF Owner, Writing
<1>6. cleared.by = s => x.graph = cleared.graph
  BY DEF IInv, ClearedOK, Owner
<1>7. ClearedOK'
  BY <1>1, <1>2, <1>3, <1>5, <1>6 DEF IInv, ClearedOK, Owner, Writing
<1>8. store'.nodes = nodes /\ store'.edges = edges
  OBVIOUS
<1>9. OwnerKept'
  <2>1. ASSUME NEW t \in Syncs, Owner(t)', sync'[t].at # "merge_nodes"
        PROVE  /\ DOMAIN cleared.graph.nodes \subseteq DOMAIN nodes
               /\ \A e \in cleared.graph.edges : e[1] \in sync'[t].left \/ e \in edges
    <3>1. CASE t = s
      BY <1>2, <1>3, <1>6, <2>1, <3>1 DEF Owner
    <3>2. CASE t # s
      BY <1>3, <1>5, <2>1, <3>2 DEF IInv, OwnerKept
    <3> QED
      BY <3>1, <3>2
  <2>2. ASSUME whole
        PROVE  /\ DOMAIN cleared.graph.nodes \subseteq DOMAIN nodes
               /\ cleared.graph.edges \subseteq edges
    BY <1>1, <1>6, <2>2 DEF IInv, OwnerKept
  <2> QED
    BY <1>2, <1>8, <2>1, <2>2 DEF OwnerKept
<1>10. NothingElse'
  BY <1>1, <1>2, <1>6, <1>8 DEF IInv, NothingElse
<1> QED
  BY <1>4, <1>7, <1>9, <1>10

LEMMA MergeNodesKeeps ==
    ASSUME IInv, VisibilityInv', NEW s \in Syncs, MergeNodes(s)
    PROVE  IInv'
<1> DEFINE g == sync[s].graph
           x == [sync[s] EXCEPT !.at = "merge_edges"]
           nodes == MergedNodes(g)
<1>1. /\ sync[s] # Null /\ sync[s].at = "merge_nodes" /\ SyncOK(sync[s])
      /\ store' = [store EXCEPT !.nodes = nodes] /\ sync' = [sync EXCEPT ![s] = x]
      /\ cleared' = [cleared EXCEPT !.alone = @ /\ cleared.by = s]
      /\ UNCHANGED <<evidence, available, load>>
  BY DEF MergeNodes, At, IInv, GraphsOK
<1>2. Writing(s)
  BY <1>1 DEF Writing
<1>3. SyncOK(x) /\ x.graph = g /\ x.at = "merge_edges" /\ x.left = RelationTypes
  BY <1>1 DEF SyncOK
<1>4. cleared \in Clearings /\ cleared.whole \in BOOLEAN /\ Whole(store) /\ Whole(g)
  BY <1>1, <1>2 DEF IInv, GraphsOK, ClearedOK, Clearings, SyncOK
<1>5. cleared' = [cleared EXCEPT !.alone = @ /\ cleared.by = s, !.whole = cleared.whole]
  BY <1>1, <1>4 DEF Clearings
<1>6. store' = [nodes |-> nodes, edges |-> store.edges]
  <2> HIDE DEF nodes
  <2> QED
    BY <1>1, <1>4 DEF Whole, Formed
<1>7. /\ DOMAIN nodes = DOMAIN store.nodes \cup DOMAIN g.nodes
      /\ nodes = [n \in DOMAIN nodes |-> nodes[n]]
      /\ \A n \in DOMAIN nodes : \/ n \in DOMAIN store.nodes /\ nodes[n] = store.nodes[n]
                                 \/ n \in DOMAIN g.nodes /\ nodes[n] = g.nodes[n]
  BY DEF MergedNodes
<1> HIDE DEF x, g, nodes
<1>8. Whole(store')
  <2>1. /\ store'.nodes = nodes /\ store'.edges = store.edges
        /\ store' = [nodes |-> store'.nodes, edges |-> store'.edges]
    BY <1>6
  <2> QED
    BY <1>4, <1>7, <2>1 DEF Whole, Formed, IsGraph
<1>9. \A e \in g.edges : e[1] \in RelationTypes
  BY <1>4 DEF Whole, Formed, IsGraph, Edges
<1>10. WriteStep(s, x, nodes, store.edges, cleared.whole)
  BY <1>1, <1>3, <1>4, <1>5, <1>6, <1>7, <1>8, <1>9 DEF WriteStep, g
<1>11. GraphsOK' /\ ClearedOK' /\ OwnerKept' /\ NothingElse'
  BY <1>2, <1>10, WriteSteps
<1> QED
  BY <1>11 DEF IInv

LEMMA MergeEdgesKeeps ==
    ASSUME IInv, VisibilityInv', NEW s \in Syncs, MergeEdges(s)
    PROVE  IInv'
<1> DEFINE g == sync[s].graph
<1>1. /\ sync[s] # Null /\ sync[s].at = "merge_edges" /\ SyncOK(sync[s])
      /\ UNCHANGED <<evidence, available, load>>
  BY DEF MergeEdges, At, IInv, GraphsOK
<1>2. PICK type \in sync[s].left :
         /\ store' = [store EXCEPT !.edges = @ \cup Matched(OfType(g.edges, type))]
         /\ sync' = [sync EXCEPT ![s].left = LeftAfter(@, type),
                                 ![s].at = IF LeftAfter(sync[s].left, type) = {} THEN "audit"
                                           ELSE "merge_edges"]
         /\ cleared' = [cleared EXCEPT !.alone = @ /\ cleared.by = s,
                                       !.whole = @ \/ (cleared.by = s /\ LeftAfter(sync[s].left, type) = {})]
  BY DEF MergeEdges
<1> DEFINE left == LeftAfter(sync[s].left, type)
           at == IF left = {} THEN "audit" ELSE "merge_edges"
           x == [sync[s] EXCEPT !.left = left, !.at = at]
           added == Matched(OfType(g.edges, type))
           edges == store.edges \cup added
           whole == cleared.whole \/ (cleared.by = s /\ left = {})
<1>3. Writing(s)
  BY <1>1 DEF Writing
<1>4. sync' = [sync EXCEPT ![s] = x]
  BY <1>2 DEF IInv, GraphsOK
<1>5. SyncOK(x) /\ x.graph = g /\ x.at \in {"merge_edges", "audit"} /\ x.left = left
  <2>1. left \subseteq RelationTypes
    BY <1>1 DEF SyncOK, LeftAfter
  <2>2. /\ x.at = at /\ x.graph = g /\ x.left = left
        /\ DOMAIN x = {"at", "graph", "left"} /\ x = [f \in DOMAIN x |-> x[f]]
    <3> HIDE DEF left, at
    <3> QED
      BY <1>1 DEF SyncOK
  <2>3. Whole(g)
    BY <1>1 DEF SyncOK
  <2>4. at \in {"merge_edges", "audit"}
    OBVIOUS
  <2> HIDE DEF left, x, at
  <2> QED
    BY <2>1, <2>2, <2>3, <2>4 DEF SyncOK
<1>6. cleared \in Clearings /\ whole \in BOOLEAN /\ Whole(store) /\ Whole(g)
  BY <1>1, <1>3 DEF IInv, GraphsOK, ClearedOK, Clearings, SyncOK
<1>7. cleared' = [cleared EXCEPT !.alone = @ /\ cleared.by = s, !.whole = whole]
  BY <1>2
<1>8. store' = [nodes |-> store.nodes, edges |-> edges]
  <2>1. store' = [store EXCEPT !.edges = edges]
    BY <1>2
  <2> HIDE DEF edges
  <2> QED
    BY <1>6, <2>1 DEF Whole, Formed
<1>9. \A e \in added : e \in g.edges /\ {Source(e), Destination(e)} \subseteq DOMAIN store.nodes
  BY DEF Matched, OfType
<1>10. cleared.by = s => /\ DOMAIN g.nodes \subseteq DOMAIN store.nodes
                         /\ \A e \in g.edges : e[1] \in left \/ e \in edges
  <2> SUFFICES ASSUME cleared.by = s
               PROVE  /\ DOMAIN g.nodes \subseteq DOMAIN store.nodes
                      /\ \A e \in g.edges : e[1] \in left \/ e \in edges
    OBVIOUS
  <2>1. /\ cleared.graph = g /\ DOMAIN g.nodes \subseteq DOMAIN store.nodes
        /\ \A e \in g.edges : e[1] \in sync[s].left \/ e \in store.edges
    BY <1>1, <1>3 DEF IInv, ClearedOK, OwnerKept, Owner
  <2>2. \A e \in g.edges : e[1] = type => e \in added
    BY <1>6, <2>1 DEF Matched, OfType, Whole
  <2> QED
    BY <2>1, <2>2 DEF LeftAfter
<1> HIDE DEF x, g, left, added, whole
<1>11. Whole(store')
  <2>1. /\ store'.nodes = store.nodes /\ store'.edges = edges
        /\ store' = [nodes |-> store'.nodes, edges |-> store'.edges]
    BY <1>8
  <2>2. added \subseteq Edges
    BY <1>6, <1>9 DEF Whole, Formed, IsGraph
  <2> QED
    BY <1>6, <1>9, <2>1, <2>2 DEF Whole, Formed, IsGraph
<1>12. whole => cleared.whole \/ (cleared.by = s /\ x.left = {})
  BY <1>5 DEF whole
<1>13. edges \subseteq store.edges \cup x.graph.edges
  BY <1>5, <1>9
<1> HIDE DEF edges
<1>14. store.edges \subseteq edges
  BY DEF edges
<1>15. WriteStep(s, x, store.nodes, edges, whole)
  BY <1>1, <1>4, <1>5, <1>6, <1>7, <1>8, <1>10, <1>11, <1>12, <1>13, <1>14 DEF WriteStep, g
<1>16. GraphsOK' /\ ClearedOK' /\ OwnerKept' /\ NothingElse'
  BY <1>3, <1>15, WriteSteps
<1> QED
  BY <1>16 DEF IInv

LEMMA SyncKeeps ==
    ASSUME IInv, VisibilityInv', NEW s \in Syncs,
           \/ StartSync(s) \/ SyncReadsMemories(s) \/ SyncReadsEvidence(s)
           \/ AuditSync(s) \/ FailSync(s)
    PROVE  IInv'
<1>1. UNCHANGED <<evidence, available, store, load, cleared>>
  BY DEF StartSync, SyncReadsMemories, SyncReadsEvidence, AuditSync, FailSync
<1>2. CASE StartSync(s)
  <2> DEFINE x == [at |-> "read_memories", graph |-> NoGraph, left |-> RelationTypes]
  <2>1. SyncOK(x) /\ x.at = "read_memories"
    BY EmptyGraphWhole DEF SyncOK
  <2>2. sync' = [sync EXCEPT ![s] = x]
    BY <1>2 DEF StartSync
  <2> HIDE DEF x
  <2> QED
    BY <1>1, <2>1, <2>2, SyncMoves
<1>3. CASE SyncReadsMemories(s)
  <2>1. PICK memories \in SUBSET Memories :
           sync' = [sync EXCEPT ![s].at = "read_evidence", ![s].graph = WithNodes(memories)]
    BY <1>3 DEF SyncReadsMemories, Limited
  <2> DEFINE g == WithNodes(memories)
             x == [sync[s] EXCEPT !.at = "read_evidence", !.graph = g]
  <2>2. sync' = [sync EXCEPT ![s] = x]
    BY <2>1 DEF IInv, GraphsOK
  <2>3. SyncOK(sync[s]) /\ sync[s].left = RelationTypes
    BY <1>3 DEF SyncReadsMemories, At, IInv, GraphsOK, SyncOK
  <2>4. Whole(g) /\ Others \subseteq DOMAIN g.nodes
    BY NodesWhole DEF IInv
  <2>5. /\ DOMAIN x = {"at", "graph", "left"} /\ x = [f \in DOMAIN x |-> x[f]]
        /\ x.at = "read_evidence" /\ x.graph = g /\ x.left = sync[s].left
    <3> HIDE DEF g
    <3> QED
      BY <2>3 DEF SyncOK
  <2> HIDE DEF x, g
  <2>6. SyncOK(x)
    BY <2>3, <2>4, <2>5 DEF SyncOK
  <2> QED
    BY <1>1, <2>2, <2>5, <2>6, SyncMoves
<1>4. CASE SyncReadsEvidence(s)
  <2> DEFINE g == WithEvidence(sync[s].graph)
             x == [sync[s] EXCEPT !.at = "clear", !.graph = g]
  <2>1. sync' = [sync EXCEPT ![s] = x]
    BY <1>4 DEF SyncReadsEvidence, IInv, GraphsOK
  <2>2. SyncOK(sync[s]) /\ sync[s].at = "read_evidence"
    BY <1>4 DEF SyncReadsEvidence, At, IInv, GraphsOK
  <2>3. Whole(g)
    BY <2>2, EvidenceFormed DEF SyncOK, Whole, IInv, GraphsOK
  <2>4. /\ DOMAIN x = {"at", "graph", "left"} /\ x = [f \in DOMAIN x |-> x[f]]
        /\ x.at = "clear" /\ x.graph = g /\ x.left = sync[s].left
    <3> HIDE DEF g
    <3> QED
      BY <2>2 DEF SyncOK
  <2>5. sync[s].left = RelationTypes
    BY <2>2 DEF SyncOK
  <2> HIDE DEF x, g
  <2>6. SyncOK(x)
    BY <2>3, <2>4, <2>5 DEF SyncOK
  <2> QED
    BY <1>1, <2>1, <2>4, <2>6, SyncMoves
<1>5. CASE AuditSync(s) \/ FailSync(s)
  <2>1. sync' = [sync EXCEPT ![s] = Null]
    BY <1>5 DEF AuditSync, FailSync
  <2> QED
    BY <1>1, <2>1, SyncMoves
<1> QED
  BY <1>2, <1>3, <1>4, <1>5

-------------------------------------------------------------------------------
(* Loads. *)

\* _filter_graph takes nodes and edges out, and keeps no memory that is not visible.
LEMMA FilteredFormed ==
    ASSUME NEW g, Formed(g), NEW agent
    PROVE  /\ Formed(Filtered(g, agent))
           /\ Memories \cap DOMAIN Filtered(g, agent).nodes \subseteq VisibleMemories(agent)
<1> DEFINE allowed == {n \in DOMAIN g.nodes : n \in Memories => n \in VisibleMemories(agent)}
           edges == {e \in g.edges : {Source(e), Destination(e)} \subseteq allowed}
           connected == {n \in allowed : \E e \in edges : n \in {Source(e), Destination(e)}}
           ids == connected \cup ({Workspace} \cap allowed)
           h == Filtered(g, agent)
<1>1. h = [nodes |-> [n \in ids |-> g.nodes[n]], edges |-> edges]
  BY DEF Filtered
<1>2. ids \subseteq allowed /\ edges \subseteq g.edges
  OBVIOUS
<1>3. allowed \subseteq DOMAIN g.nodes /\ Memories \cap allowed \subseteq VisibleMemories(agent)
  OBVIOUS
<1> HIDE DEF ids, edges, h, allowed
<1>4. /\ h.nodes = [n \in ids |-> g.nodes[n]] /\ h.edges = edges
      /\ h = [nodes |-> h.nodes, edges |-> h.edges]
  BY <1>1
<1>5. DOMAIN h.nodes = ids /\ h.nodes = [n \in DOMAIN h.nodes |-> h.nodes[n]]
  BY <1>4
<1>6. Formed(h)
  BY <1>2, <1>3, <1>4, <1>5 DEF Formed, IsGraph
<1> QED
  BY <1>2, <1>3, <1>5, <1>6 DEF h

\* A graph of the store, or of what a load has read of it.
LEMMA StoreFormed ==
    ASSUME NEW g, Formed(g), Formed(store)
    PROVE  /\ Formed([g EXCEPT !.nodes = store.nodes])
           /\ \A edges \in SUBSET store.edges : Formed([g EXCEPT !.edges = edges])
<1>1. Formed([g EXCEPT !.nodes = store.nodes])
  <2> DEFINE h == [g EXCEPT !.nodes = store.nodes]
  <2>1. /\ h.nodes = store.nodes /\ h.edges = g.edges
        /\ h = [nodes |-> h.nodes, edges |-> h.edges]
    BY DEF Formed
  <2> HIDE DEF h
  <2>2. Formed(h)
    BY <2>1 DEF Formed, IsGraph
  <2> QED
    BY <2>2 DEF h
<1>2. ASSUME NEW edges \in SUBSET store.edges
      PROVE  Formed([g EXCEPT !.edges = edges])
  <2> DEFINE h == [g EXCEPT !.edges = edges]
  <2>1. /\ h.nodes = g.nodes /\ h.edges = edges
        /\ h = [nodes |-> h.nodes, edges |-> h.edges]
    BY DEF Formed
  <2> HIDE DEF h
  <2>2. Formed(h)
    BY <2>1 DEF Formed, IsGraph
  <2> QED
    BY <2>2 DEF h
<1> QED
  BY <1>1, <1>2

LEMMA LoadEdited ==
    ASSUME load # Null, LoadOK(load), NEW g, Formed(g),
           NEW at \in {"load_edges", "read_memories", "read_evidence", "filter", "answered"},
           load' = [load EXCEPT !.at = at, !.graph = g]
    PROVE  LoadOK(load') /\ load'.at = at /\ load'.agent = load.agent /\ load'.graph = g
<1>1. /\ DOMAIN load' = {"at", "agent", "fallback", "graph"}
      /\ load' = [f \in DOMAIN load' |-> load'[f]]
      /\ load'.at = at /\ load'.agent = load.agent /\ load'.fallback = load.fallback
      /\ load'.graph = g
  BY DEF LoadOK
<1> QED
  BY <1>1 DEF LoadOK

LEMMA LoadKeeps ==
    ASSUME IInv, VisibilityInv',
           \/ \E agent \in Agents \cup {Null}, fallback \in BOOLEAN : StartLoad(agent, fallback)
           \/ LoadNodes \/ LoadEdges \/ LoadReadsMemories \/ LoadReadsEvidence
           \/ FilterGraph \/ FailLoad
    PROVE  IInv'
<1>1. UNCHANGED <<evidence, available, store, sync, cleared>>
  BY DEF StartLoad, LoadNodes, LoadEdges, LoadReadsMemories, LoadReadsEvidence, FilterGraph,
     FailLoad
<1>2. load # Null => LoadOK(load) /\ Formed(load.graph)
  BY DEF IInv, GraphsOK, LoadOK
<1>3. Formed(store) /\ evidence \subseteq Memories \X Others
  BY DEF IInv, GraphsOK, Whole
<1>4. ASSUME NEW agent \in Agents \cup {Null}, NEW fallback \in BOOLEAN,
             StartLoad(agent, fallback)
      PROVE  LoadOK(load')
  <2> DEFINE at == IF available THEN "load_nodes" ELSE "read_memories"
             x == [at |-> at, agent |-> agent, fallback |-> fallback, graph |-> NoGraph]
  <2>1. load' = x
    BY <1>4 DEF StartLoad, NewLoad
  <2>2. at \in {"load_nodes", "read_memories"} /\ Formed(NoGraph)
    BY EmptyGraphWhole DEF Whole
  <2> HIDE DEF at
  <2> QED
    BY <2>1, <2>2 DEF LoadOK
<1>5. CASE LoadNodes
  <2>1. /\ load # Null
        /\ load' = [load EXCEPT !.at = "load_edges",
                                !.graph = [load.graph EXCEPT !.nodes = store.nodes]]
    BY <1>2, <1>5 DEF LoadNodes, LoadAt, LoadOK
  <2> QED
    BY <1>1, <1>2, <1>3, <2>1, StoreFormed, LoadEdited, LoadMoves
<1>6. CASE LoadEdges
  <2> DEFINE edges == {e \in store.edges :
                          {Source(e), Destination(e)} \subseteq DOMAIN load.graph.nodes}
             at == IF DOMAIN load.graph.nodes = {} THEN "read_memories" ELSE "filter"
             g == [load.graph EXCEPT !.edges = edges]
  <2>1. load # Null /\ load' = [load EXCEPT !.at = at, !.graph = g]
    BY <1>2, <1>6 DEF LoadEdges, LoadAt, LoadOK
  <2>2. at \in {"read_memories", "filter"}
    OBVIOUS
  <2>3. Formed(g)
    BY <1>2, <1>3, <2>1, StoreFormed
  <2> HIDE DEF at, g
  <2> QED
    BY <1>1, <1>2, <2>1, <2>2, <2>3, LoadEdited, LoadMoves
<1>7. CASE LoadReadsMemories
  <2>1. /\ load # Null
        /\ \E memories \in SUBSET Memories :
              load' = [load EXCEPT !.at = "read_evidence", !.graph = WithNodes(memories)]
    BY <1>7 DEF LoadReadsMemories, LoadAt, Limited
  <2>2. \A memories \in SUBSET Memories : Formed(WithNodes(memories))
    BY NodesWhole DEF Whole, IInv
  <2> QED
    BY <1>1, <1>2, <2>1, <2>2, LoadEdited, LoadMoves
<1>8. CASE LoadReadsEvidence
  <2>1. /\ load # Null
        /\ load' = [load EXCEPT !.at = "filter", !.graph = WithEvidence(load.graph)]
    BY <1>2, <1>8 DEF LoadReadsEvidence, LoadAt, LoadOK
  <2>2. Formed(WithEvidence(load.graph))
    BY <1>2, <1>3, <2>1, EvidenceFormed
  <2> QED
    BY <1>1, <1>2, <2>1, <2>2, LoadEdited, LoadMoves
<1>9. CASE FilterGraph
  <2>1. /\ load # Null
        /\ load' = [load EXCEPT !.at = "answered", !.graph = Filtered(load.graph, load.agent)]
    BY <1>2, <1>9 DEF FilterGraph, LoadAt, LoadOK
  <2>2. Formed(Filtered(load.graph, load.agent))
    BY <1>2, <2>1, FilteredFormed
  <2> QED
    BY <1>1, <1>2, <2>1, <2>2, LoadEdited, LoadMoves
<1>10. CASE FailLoad
  BY <1>1, <1>10, LoadMoves DEF FailLoad
<1> QED
  BY <1>1, <1>4, <1>5, <1>6, <1>7, <1>8, <1>9, <1>10, LoadMoves

-------------------------------------------------------------------------------
(* All steps. *)

LEMMA InitInv == ASSUME ProjectionInit PROVE IInv
<1>1. VisibilityInv
  BY InitVisibility DEF ProjectionInit
<1>2. GraphsOK
  BY EmptyGraphWhole DEF ProjectionInit, GraphsOK
<1>3. ClearedOK /\ OwnerKept /\ NothingElse
  BY DEF ProjectionInit, ClearedOK, OwnerKept, NothingElse, Writing, Owner
<1> QED
  BY <1>1, <1>2, <1>3 DEF IInv

LEMMA NextKeepsInv == ASSUME IInv, [ProjectionNext]_projectionVars PROVE IInv'
<1>1. CASE UNCHANGED projectionVars
  <2>1. UNCHANGED visibilityVars /\ UNCHANGED graphVars
    BY <1>1 DEF projectionVars
  <2>2. VisibilityInv'
    BY <2>1, NextKeepsVisibility DEF IInv
  <2> QED
    BY <2>1, <2>2, LoadMoves DEF graphVars, IInv, GraphsOK
<1>2. CASE VisibilityNext /\ UNCHANGED graphVars
  <2>1. VisibilityInv'
    BY <1>2, NextKeepsVisibility DEF IInv
  <2> QED
    BY <1>2, <2>1, LoadMoves DEF graphVars, IInv, GraphsOK
<1>3. CASE GraphNext
  <2>1. VisibilityInv'
    BY <1>3, GraphNextKeepsVisibility DEF IInv
  <2>2. ASSUME \/ Toggle
               \/ \E m \in Memories, others \in SUBSET Others : ReplaceEvidence(m, others)
        PROVE  IInv'
    <3>1. /\ evidence' \subseteq Memories \X Others /\ available' \in BOOLEAN
          /\ UNCHANGED <<store, sync, load, cleared>>
      BY <2>2 DEF Toggle, ReplaceEvidence, IInv, GraphsOK
    <3>2. GraphsOK'
      BY <3>1 DEF IInv, GraphsOK
    <3> QED
      BY <2>1, <3>1, <3>2, SyncsUntouched DEF IInv
  <2> QED
    BY <1>3, <2>1, <2>2, SyncKeeps, ClearKeeps, MergeNodesKeeps, MergeEdgesKeeps, LoadKeeps
    DEF GraphNext
<1> QED
  BY <1>1, <1>2, <1>3 DEF ProjectionNext

\* The answer of a load shows no memory that the caller may not see when it is given.
LEMMA AnswerHidesHidden ==
    ASSUME IInv, [ProjectionNext]_projectionVars, load # Null, load.at # "answered", load' # Null,
           load'.at = "answered", NEW m \in Memories \cap DOMAIN load'.graph.nodes
    PROVE  IF load.agent # Null THEN MaySee(load.agent, m)'
           ELSE memory'[m].status = "active" /\ memory'[m].access_level # "private"
<1>1. LoadOK(load) /\ Formed(load.graph)
  BY DEF IInv, GraphsOK, LoadOK
<1>2. FilterGraph
  <2>1. ASSUME NEW g, Formed(g), NEW at \in {"load_edges", "read_memories", "read_evidence",
                                             "filter", "answered"},
               load' = [load EXCEPT !.at = at, !.graph = g], at # "answered"
        PROVE  FALSE
    BY <1>1, <2>1, LoadEdited
  <2>2. CASE load' = load
    BY <2>2
  <2>3. ~LoadNodes /\ ~LoadEdges /\ ~LoadReadsMemories /\ ~LoadReadsEvidence
    BY <1>1 DEF LoadNodes, LoadEdges, LoadReadsMemories, LoadReadsEvidence, LoadOK
  <2> QED
    BY <2>2, <2>3 DEF ProjectionNext, GraphNext, projectionVars, graphVars, Toggle, ReplaceEvidence, StartSync,
       SyncReadsMemories, SyncReadsEvidence, ClearStore, MergeNodes, MergeEdges, AuditSync,
       FailSync, StartLoad, FailLoad
<1>3. /\ load' = [load EXCEPT !.at = "answered", !.graph = Filtered(load.graph, load.agent)]
      /\ UNCHANGED visibilityVars
  BY <1>1, <1>2 DEF FilterGraph, LoadOK
<1>4. m \in VisibleMemories(load.agent)
  BY <1>1, <1>3, FilteredFormed, LoadEdited
<1>5. load'.agent = load.agent
  BY <1>1, <1>3, FilteredFormed, LoadEdited
<1>6. CASE load.agent # Null
  <2>1. MaySee(load.agent, m)
    BY <1>4, <1>6, VisibleIsPermitted DEF VisibleMemories
  <2> QED
    BY <1>3, <1>5, <1>6, <2>1 DEF MaySee, Matching, Concerns, Live, visibilityVars, policyVars
<1>7. CASE load.agent = Null
  BY <1>3, <1>4, <1>7 DEF VisibleMemories, visibilityVars
<1> QED
  BY <1>6, <1>7

-------------------------------------------------------------------------------
(* The theorems. *)

\* The inductive invariant holds in every reachable state.
THEOREM Invariance == ProjectionSpec => []IInv
BY InitInv, NextKeepsInv, PTL DEF ProjectionSpec

\* Every state is well typed: no edge of the store is without its ends.
THEOREM TypeCorrect == ProjectionSpec => []ProjectionTypeOK
BY Invariance, InvariantImpliesTypes, PTL

\* However syncs overlap and fail, what the last one to clear the store wrote is there once
\* all its statements have run, and nothing else is if no other wrote since.
THEOREM LastSyncWins == ProjectionSpec => []LastSyncHolds
BY Invariance, InvariantImpliesLastSync, PTL

\* Whatever Neo4j holds and whenever it was synced, the answer of a load shows no memory that
\* is hidden from the caller at that moment.
THEOREM HiddenStaysHidden == ProjectionSpec => HiddenNeverShown
<1>1. IInv /\ [ProjectionNext]_projectionVars =>
        [load # Null /\ load.at # "answered" /\ load' # Null /\ load'.at = "answered" =>
            \A m \in Memories \cap DOMAIN load'.graph.nodes :
                IF load.agent # Null THEN MaySee(load.agent, m)'
                ELSE memory'[m].status = "active" /\ memory'[m].access_level # "private"]_projectionVars
  BY AnswerHidesHidden
<1> QED
  BY <1>1, Invariance, PTL DEF ProjectionSpec, HiddenNeverShown

\* The audit rows of the policies are right beside any syncs and loads, too.
THEOREM AuditsStayPolicies == ProjectionSpec => []AuditShowsPolicy
<1>1. IInv => AuditShowsPolicy
  BY DEF IInv, VisibilityInv
<1> QED
  BY <1>1, Invariance, PTL

\* And so are the updates of different fields of one policy.
THEOREM UpdatesStayFieldwise == ProjectionSpec => OnlyGivenFieldsChange
<1>1. IInv /\ [ProjectionNext]_projectionVars =>
        [\A p \in Policies, f \in DOMAIN NotGiven :
            Live(p) /\ Live(p)' /\ policy'[p][f] # policy[p][f]
                => \E u \in PolicyRequests : policyRequest[u] # Null
                    /\ policyRequest[u].policy = p
                    /\ policyRequest[u].given[f] = policy'[p][f]]_visibilityVars
  <2> SUFFICES ASSUME IInv, [ProjectionNext]_projectionVars, NEW p \in Policies, NEW f \in DOMAIN NotGiven,
                      Live(p), Live(p)', policy'[p][f] # policy[p][f]
               PROVE  \E u \in PolicyRequests : policyRequest[u] # Null
                         /\ policyRequest[u].policy = p
                         /\ policyRequest[u].given[f] = policy'[p][f]
    OBVIOUS
  <2>1. CASE VisibilityNext \/ UNCHANGED visibilityVars
    BY <2>1, StepChangesGivenFields DEF IInv
  <2>2. CASE GraphNext
    BY <2>2 DEF GraphNext, Toggle, ReplaceEvidence, StartSync, SyncReadsMemories,
       SyncReadsEvidence, ClearStore, MergeNodes, MergeEdges, AuditSync, FailSync, StartLoad,
       LoadNodes, LoadEdges, LoadReadsMemories, LoadReadsEvidence, FilterGraph, FailLoad,
       visibilityVars, policyVars
  <2> QED
    BY <2>1, <2>2 DEF ProjectionNext, projectionVars
<1> QED
  BY <1>1, Invariance, PTL DEF ProjectionSpec, OnlyGivenFieldsChange
===============================================================================
