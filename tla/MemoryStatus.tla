----------------------------- MODULE MemoryStatus -----------------------------
(***************************************************************************)
(* What the memory store promises of a memory's status to clients that do  *)
(* not overlap their requests: the abstract specification that             *)
(* MemoryLifecycle implements when Serialized is TRUE.                     *)
(*                                                                         *)
(* A memory appears as active or candidate; a candidate is decided once;   *)
(* active and conflicted alternate; and there is no way back from the      *)
(* statuses outside the working set, only on to archived or forgotten      *)
(* (DELETE and an approved forget request take any memory there) or, for   *)
(* none but active and conflicted memories, to superseded.                 *)
(***************************************************************************)
CONSTANTS Memories, Null

VARIABLE status     \* status[m]: the status of memory m, or Null before it is created

Init == status = [m \in Memories |-> Null]

MayBecome(s) ==
    CASE s = Null         -> {"active", "candidate"}
      [] s = "candidate"  -> {"active", "rejected", "archived", "forgotten"}
      [] s = "active"     -> {"conflicted", "superseded", "archived", "forgotten"}
      [] s = "conflicted" -> {"active", "superseded", "archived", "forgotten"}
      [] OTHER            -> {"archived", "forgotten"}

\* One request changes the status of at most two memories: the endpoints of a
\* conflict, or a new memory and the one it supersedes.
Next ==
    \E a, b \in Memories :
        \E sa \in MayBecome(status[a]) \cup {status[a]},
           sb \in MayBecome(status[b]) \cup {status[b]} :
            status' = [status EXCEPT ![a] = sa, ![b] = IF a = b THEN sa ELSE sb]

Spec == Init /\ [][Next]_status
===============================================================================
