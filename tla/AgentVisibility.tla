--------------------------- MODULE AgentVisibility ---------------------------
(***************************************************************************)
(* Access policies, and the memories an agent sees under them.             *)
(*                                                                         *)
(* A policy request reads the policy, writes it and adds an audit row in   *)
(* one READ COMMITTED transaction; the read takes no lock, so two requests *)
(* for one policy may both have read it before one of them commits.        *)
(*                                                                         *)
(* Policies for users match no agent, and those for other resources match  *)
(* no memory: both are left out.  A policy for a role has no principal_id. *)
(***************************************************************************)
EXTENDS Naturals, FiniteSets

CONSTANTS
    Memories, Agents,
    Texts,              \* what a memory's canonical_text can be
    Levels,             \* access levels in use
    InitialRows,        \* the rows memories begin with
    RoleOf,             \* agent_type of every agent
    Policies,           \* policy identifiers
    PolicyRequests,     \* concurrent updates and deletes of policies
    MaxChanges,         \* bound on the requests that change something
    Null, Deleted

ASSUME ChangesAssumption == MaxChanges \in Nat
ASSUME LevelsAssumption == Levels \subseteq {"public", "project", "team", "private"}

VARIABLES
    memory,         \* memory[m]: the columns of memory_item that decide who sees it
    policy,         \* policy[p]: the access_policy row, Null before it, Deleted after it
    policyRequest,  \* policyRequest[u]: the policy as read and the fields given, or Null
    policyAudit,    \* policyAudit[p]: the last audit_log row of the policy, or Null
    changes         \* changes so far

policyVars == <<policy, policyRequest, policyAudit>>
visibilityVars == <<memory, policyVars, changes>>

Roles == {RoleOf[a] : a \in Agents}
Scopes == Levels \cup {"all"}
Effects == {"allow", "deny"}

PolicyRow == [principal: Agents \cup {"role"}, role: Roles, scope: Scopes, effect: Effects]
Given == [role: Roles \cup {Null}, scope: Scopes \cup {Null}, effect: Effects \cup {Null}]
NotGiven == [role |-> Null, scope |-> Null, effect |-> Null]

\* "closed" is an active memory whose validity window has passed.
MemoryRow == [status: {"active", "closed", "forgotten"}, access_level: Levels, text: Texts]

\* What update_policy and delete_policy hold between their SELECT and their statement.
RequestRow == [kind: {"update", "delete"}, policy: Policies, given: Given, before: PolicyRow]
PolicyAuditRow == [action: {"policy.update", "policy.delete"}, before: PolicyRow,
                   after: PolicyRow \cup {Deleted}]

ASSUME RowsAssumption == InitialRows \subseteq MemoryRow
ASSUME PolicyAssumption == Null # Deleted /\ Null \notin PolicyRow

VisibilityTypeOK ==
    /\ memory \in [Memories -> MemoryRow]
    /\ policy \in [Policies -> PolicyRow \cup {Null, Deleted}]
    /\ policyRequest \in [PolicyRequests -> RequestRow \cup {Null}]
    /\ policyAudit \in [Policies -> PolicyAuditRow \cup {Null}]
    /\ changes \in 0 .. MaxChanges

VisibilityInit ==
    /\ memory \in [Memories -> InitialRows]
    /\ policy = [p \in Policies |-> Null]
    /\ policyRequest = [u \in PolicyRequests |-> Null]
    /\ policyAudit = [p \in Policies |-> Null]
    /\ changes = 0

\* ORDER BY ... LIMIT, when the order is by times that are not modelled.
Limited(rows, limit) ==
    {s \in SUBSET rows : Cardinality(s) = IF Cardinality(rows) < limit THEN Cardinality(rows) ELSE limit}

Change == changes < MaxChanges /\ changes' = changes + 1

-------------------------------------------------------------------------------
(* v_agent_visible_memory *)

Live(p) == policy[p] \notin {Null, Deleted}

Applies(p, a, m) ==
    /\ Live(p)
    /\ \/ policy[p].principal = a
       \/ policy[p].principal = "role" /\ policy[p].role = RoleOf[a]
    /\ policy[p].scope \in {"all", memory[m].access_level}

SomePolicy(effect, a, m) == \E p \in Policies : Applies(p, a, m) /\ policy[p].effect = effect

AgentVisible(a, m) ==
    /\ memory[m].status = "active"
    /\ ~SomePolicy("deny", a, m)
    /\ memory[m].access_level # "private" \/ SomePolicy("allow", a, m)

-------------------------------------------------------------------------------
(* What PATCH, forget requests and the passing of time do to a memory. *)

EditText(m, text) ==
    /\ Change
    /\ memory[m].text # text
    /\ memory' = [memory EXCEPT ![m].text = text]
    /\ UNCHANGED policyVars

ChangeAccess(m, level) ==
    /\ Change
    /\ memory[m].access_level # level
    /\ memory' = [memory EXCEPT ![m].access_level = level]
    /\ UNCHANGED policyVars

Close(m) ==
    /\ Change
    /\ memory[m].status = "active"
    /\ memory' = [memory EXCEPT ![m].status = "closed"]
    /\ UNCHANGED policyVars

Forget(m) ==
    /\ Change
    /\ memory[m].status # "forgotten"
    /\ memory' = [memory EXCEPT ![m].status = "forgotten"]
    /\ UNCHANGED policyVars

-------------------------------------------------------------------------------
(* Policies. *)

\* UNIQUE (principal_type, principal_id, resource_type, resource_scope, effect) and
\* idx_policy_global_unique, which takes all roles for one principal.
KeyFree(p, row) ==
    \A q \in Policies \ {p} :
        ~ /\ Live(q)
          /\ policy[q].principal = row.principal
          /\ policy[q].scope = row.scope
          /\ policy[q].effect = row.effect

CreatePolicy(p, row) ==
    /\ Change
    /\ policy[p] = Null
    /\ KeyFree(p, row)
    /\ policy' = [policy EXCEPT ![p] = row]
    /\ UNCHANGED <<memory, policyRequest, policyAudit>>

\* An update that gives no field returns the policy and changes nothing.
UpdatePolicyRead(u, p, given) ==
    /\ Change
    /\ policyRequest[u] = Null
    /\ Live(p)
    /\ given # NotGiven
    /\ policyRequest' = [policyRequest EXCEPT ![u] =
            [kind |-> "update", policy |-> p, given |-> given, before |-> policy[p]]]
    /\ UNCHANGED <<memory, policy, policyAudit>>

\* Fault: the fields that are not given are written back as they were read.
AssignedFromRead(request, row) ==
    [f \in DOMAIN row |-> IF f \in DOMAIN NotGiven /\ request.given[f] # Null
                          THEN request.given[f] ELSE request.before[f]]

\* SET names the given fields only.
Assigned(request, row) ==
    [f \in DOMAIN row |-> IF f \in DOMAIN NotGiven /\ request.given[f] # Null
                          THEN request.given[f] ELSE row[f]]

\* _insert_audit
AuditRow(action, request, after) ==
    [action |-> action, before |-> request.before, after |-> after]

\* Fault: the audit row is made from the policy as it was read.
AuditedFromRead(request, row) == Assigned(request, request.before)

\* The after image is the row that RETURNING gives.
Audited(request, row) == row

\* A policy deleted in between, or a key already taken, ends the request with an error.
UpdatePolicyWrite(u) ==
    LET request == policyRequest[u]
        p == request.policy
        row == Assigned(request, policy[p]) IN
    /\ request # Null /\ request.kind = "update"
    /\ IF Live(p) /\ KeyFree(p, row)
       THEN /\ policy' = [policy EXCEPT ![p] = row]
            /\ policyAudit' = [policyAudit EXCEPT ![p] =
                    AuditRow("policy.update", request, Audited(request, row))]
       ELSE UNCHANGED <<policy, policyAudit>>
    /\ policyRequest' = [policyRequest EXCEPT ![u] = Null]
    /\ UNCHANGED <<memory, changes>>

DeletePolicyRead(u, p) ==
    /\ Change
    /\ policyRequest[u] = Null
    /\ Live(p)
    /\ policyRequest' = [policyRequest EXCEPT ![u] =
            [kind |-> "delete", policy |-> p, given |-> NotGiven, before |-> policy[p]]]
    /\ UNCHANGED <<memory, policy, policyAudit>>

\* DELETE of a row another request has deleted does nothing and is audited all the same.
DeletePolicyWrite(u) ==
    LET request == policyRequest[u] IN
    /\ request # Null /\ request.kind = "delete"
    /\ policy' = [policy EXCEPT ![request.policy] = Deleted]
    /\ policyAudit' = [policyAudit EXCEPT ![request.policy] =
            AuditRow("policy.delete", request, Deleted)]
    /\ policyRequest' = [policyRequest EXCEPT ![u] = Null]
    /\ UNCHANGED <<memory, changes>>

VisibilityNext ==
    \/ \E m \in Memories, text \in Texts : EditText(m, text)
    \/ \E m \in Memories, level \in Levels : ChangeAccess(m, level)
    \/ \E m \in Memories : Close(m)
    \/ \E m \in Memories : Forget(m)
    \/ \E p \in Policies, row \in PolicyRow : CreatePolicy(p, row)
    \/ \E u \in PolicyRequests, p \in Policies, given \in Given : UpdatePolicyRead(u, p, given)
    \/ \E u \in PolicyRequests : UpdatePolicyWrite(u)
    \/ \E u \in PolicyRequests, p \in Policies : DeletePolicyRead(u, p)
    \/ \E u \in PolicyRequests : DeletePolicyWrite(u)

VisibilitySpec == VisibilityInit /\ [][VisibilityNext]_visibilityVars

-------------------------------------------------------------------------------
(* Properties. *)

\* However updates and deletes of a policy overlap, its last audit row shows the policy as
\* it is now (update_policy, delete_policy).
AuditShowsPolicy ==
    \A p \in Policies : policyAudit[p] # Null => policyAudit[p].after = policy[p]

\* A field of a policy changes only to what a request in flight gives for it: of two
\* overlapping updates of different fields neither undoes the other.
OnlyGivenFieldsChange ==
    [][\A p \in Policies, f \in DOMAIN NotGiven :
        Live(p) /\ Live(p)' /\ policy'[p][f] # policy[p][f]
            => \E u \in PolicyRequests : policyRequest[u] # Null
                    /\ policyRequest[u].policy = p /\ policyRequest[u].given[f] = policy'[p][f]
      ]_visibilityVars

(* What the documents promise of a moment, apart from how the view computes it. *)

Concerns(row, a) == row.principal = a \/ (row.principal = "role" /\ row.role = RoleOf[a])

Matching(p, a, m, effect) ==
    /\ Live(p) /\ policy[p].effect = effect /\ Concerns(policy[p], a)
    /\ policy[p].scope \in {"all", memory[m].access_level}

MaySee(a, m) ==
    /\ memory[m].status = "active"
    /\ \A p \in Policies : ~Matching(p, a, m, "deny")
    /\ memory[m].access_level = "private" => \E p \in Policies : Matching(p, a, m, "allow")
===============================================================================
