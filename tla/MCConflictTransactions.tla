----------------------- MODULE MCConflictTransactions -----------------------
(* Finite instances of ConflictTransactions for TLC. *)
EXTENDS ConflictTransactions, TLC

CONSTANTS t1, t2, t3

\* Memory 1 is like every other, and no two of those are alike.
WordsOf == [m \in Memories |-> IF m = 1 THEN 1 .. 4 ELSE {m, 10 * m}]

TransactionSymmetry == Permutations(Transactions)
===============================================================================
