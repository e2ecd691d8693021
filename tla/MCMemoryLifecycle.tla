-------------------------- MODULE MCMemoryLifecycle --------------------------
(* Finite instances of MemoryLifecycle for TLC. *)
EXTENDS MemoryLifecycle, TLC

CONSTANTS m1, m2, t1, t2, project, private, c1, f1

NoPatch == [canonical_text |-> Null, status |-> Null, access_level |-> Null, evidence |-> Null]

StatusPatches == {[NoPatch EXCEPT !.status = s] : s \in Statuses}

\* Every status, an edit, an access change, and a rejected evidence list.
MCPatches ==
    StatusPatches \cup
    {[NoPatch EXCEPT !.canonical_text = t2],
     [NoPatch EXCEPT !.access_level = private],
     [NoPatch EXCEPT !.canonical_text = t2, !.evidence = {f1}]}

\* The PATCHes that end a memory's life or edit it.
MCOverlapPatches ==
    {[NoPatch EXCEPT !.canonical_text = t2],
     [NoPatch EXCEPT !.status = "archived"],
     [NoPatch EXCEPT !.status = "active"],
     [NoPatch EXCEPT !.evidence = {f1}]}

New(status, agent) ==
    [canonical_text |-> t1, status |-> status, access_level |-> project,
     evidence |-> {}, agent |-> agent]

MCNewMemories == {New("active", FALSE), New("candidate", TRUE)}

MemorySymmetry == Permutations(Memories)
===============================================================================
