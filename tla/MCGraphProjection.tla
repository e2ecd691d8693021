-------------------------- MODULE MCGraphProjection --------------------------
(* Finite instances of GraphProjection for TLC. *)
EXTENDS GraphProjection, TLC

CONSTANTS m1, m2, a1, a2, p1, p2, o1, w, u1, u2, y1, y2

AgentRoles == [a \in Agents |-> IF a = a1 THEN "codex" ELSE "planner"]
ProjectRows == [status: {"active"}, access_level: {"project"}, text: {"old"}]

Symmetry == Permutations(Memories) \cup Permutations(Syncs) \cup Permutations(PolicyRequests)
                \cup Permutations(Policies)
===============================================================================
