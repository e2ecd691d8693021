-------------------------- MODULE MCForgetAndExport --------------------------
(* Finite instances of ForgetAndExport for TLC. *)
EXTENDS ForgetAndExport, TLC

CONSTANTS m1, m2, s1, s2, q1, q2, e1, e2, p1, p2

Symmetry == Permutations(Slugs) \cup Permutations(Requests)
                \cup Permutations(Exports) \cup Permutations(Patches)
===============================================================================
