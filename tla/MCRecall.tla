------------------------------- MODULE MCRecall -------------------------------
(* Finite instances of Recall for TLC: m1 and m2 rest on one chunk, and m2 outranks m1. *)
EXTENDS Recall, TLC

CONSTANTS m1, m2, a1, p1, d1, c1

AgentRoles == [a \in Agents |-> "codex"]
ChunkDocument == [c \in Chunks |-> d1]
ActiveRows == [status: {"active"}, access_level: Levels, text: {"hit"}]
EvidencePairs == {<<m1, c1>>, <<m2, c1>>}
FtsScores == [x \in Texts \cup Chunks |-> IF x = "miss" THEN 0 ELSE 1]
WordSimilarity == [x \in Texts \cup Chunks \cup Documents |-> IF x = "hit" THEN 2 ELSE 1]
MemoryImportance == [m \in Memories |-> IF m = m1 THEN 1 ELSE 5]
===============================================================================
