--------------------------- MODULE MCUnifiedContext ---------------------------
(* Finite instances of UnifiedContext for TLC: answers of up to two memories. *)
EXTENDS UnifiedContext

CONSTANTS f1, f2, f3, f4

Row(s, i, t) ==
    [score |-> s, importance |-> i, status |-> "active", risk |-> t = 900, text |-> t,
     evidence |-> IF t = 100 THEN <<>> ELSE <<500>>]
SmallAnswers ==
    {<<>>, <<Row(1, 2, 900), Row(2, 1, 100)>>}
OneAnswer == {<<Row(1, 1, 900)>>}

\* The least budget for a text that is as dense as can just be cut down to it, and for one that
\* is denser, as a pack is that begins with headings of a quarter token per character and a
\* memory in Chinese of more than one; a budget for some 900 characters.
DenseMinimum == [tokens |-> 100, density |-> 70]
SomeBudgets == {[tokens |-> 100, density |-> 53], DenseMinimum, [tokens |-> 450, density |-> 50]}
OneBudget == {DenseMinimum}

ChangedPaths == {<<f2, f4, f1>>}
HitPaths == {<<f3>>, <<f1>>}
===============================================================================
