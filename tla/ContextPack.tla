----------------------------- MODULE ContextPack -----------------------------
(***************************************************************************)
(* format_context_pack: the Markdown of a recall's answer, within a token  *)
(* budget.  Memories are dropped from the end of the ranking until the     *)
(* text fits; if not even the first one fits, its text is cut shorter and  *)
(* shorter.                                                                *)
(*                                                                         *)
(* A text is its length in characters, and 100 characters cost density     *)
(* tokens: the tokenizer's rate for the language at hand, or the half      *)
(* token per character that is assumed without it.  The trailing blanks of *)
(* a cut, the confidence, and the wording are left out.                    *)
(***************************************************************************)
EXTENDS Naturals, FiniteSets, Sequences

CONSTANTS
    Answers,    \* answers of a recall: sequences of PackRow
    Headings,       \* characters of the headings and the metadata of a pack
    Budgets,    \* values of max_tokens, each with the density of the language
    NoPack

\* A memory with the lengths of its text and of its pieces of evidence.
PackRow == [score: Nat, importance: Nat, status: STRING, risk: BOOLEAN, text: Nat,
            evidence: Seq(Nat)]
Budget == [tokens: Nat, density: Nat \ {0}]

Title == 21     \* "# MemoryBase Context", the first line of every pack

ASSUME PackAssumption ==
    /\ Answers \subseteq Seq(PackRow) /\ Budgets \subseteq Budget
    /\ Headings \in Nat /\ Headings >= Title

VARIABLE pack   \* the pack being formatted, or NoPack

MemoryLine == 110       \* characters of a memory's line beside its text
EvidenceLine == 80      \* of the line of a piece of evidence,
WarningLine == 8        \* and of a line below the evidence
Suffix == 34            \* "[Truncated to fit token budget]" and its line ends
Shortest == Suffix + 80 \* what trim_to_token_budget keeps at least

PackTypeOK ==
    pack # NoPack =>
        /\ pack.at \in {"fit", "trim", "packed"}
        /\ pack.included \in 0 .. Len(pack.rows)
        /\ pack.length \in Nat /\ pack.truncated \in BOOLEAN

PackInit == pack = NoPack

-------------------------------------------------------------------------------
Above(x, y) ==
    \/ x.score > y.score
    \/ x.score = y.score /\ x.importance > y.importance

\* Fault: the importance decides before the score.
RankedByImportance(answer) ==
    LET Higher(x, y) == \/ x.importance > y.importance
                        \/ x.importance = y.importance /\ x.score > y.score
        place(i) == 1 + Cardinality({j \in DOMAIN answer :
                            \/ Higher(answer[j], answer[i])
                            \/ j < i /\ ~Higher(answer[i], answer[j])})
    IN [k \in DOMAIN answer |-> answer[CHOOSE i \in DOMAIN answer : place(i) = k]]

\* sorted(..., reverse=True): the best first, and equals in the order of the answer.
Ranked(answer) ==
    LET place(i) == 1 + Cardinality({j \in DOMAIN answer :
                            \/ Above(answer[j], answer[i])
                            \/ j < i /\ ~Above(answer[i], answer[j])})
    IN [k \in DOMAIN answer |-> answer[CHOOSE i \in DOMAIN answer : place(i) = k]]

Compact(length, maximum) == IF length <= maximum THEN length ELSE maximum

\* The length of lines 1 to n together.
Together(line, n) == LET sum[k \in 0 .. n] == IF k = 0 THEN 0 ELSE sum[k - 1] + line[k] IN sum[n]

\* Risks, conflicts and what is not to be assumed are printed again (a risk that is not to be
\* assumed, a third time, which is left out).
Warned(row) == row.risk \/ row.status \in {"conflicted", "forgotten", "superseded", "archived"}

EntryLength(row, truncated) ==
    LET text == Compact(row.text, IF truncated THEN 220 ELSE 600)
        line == [i \in DOMAIN row.evidence |->
                    EvidenceLine + Compact(row.evidence[i], IF truncated THEN 160 ELSE 420)]
    IN MemoryLine + text + Together(line, Len(row.evidence))
         + IF Warned(row) THEN WarningLine + text ELSE 0

\* build_markdown
MarkdownLength(rows, truncated) ==
    Headings + Together([i \in DOMAIN rows |-> EntryLength(rows[i], truncated)], Len(rows))
        + IF truncated THEN Suffix - 1 ELSE 0

\* count_tokens
Tokens(length, density) == (length * density) \div 100

OverBudget(length, budget) == Tokens(length, budget.density) > budget.tokens

\* Fault: the 220 characters of a shortened memory are always kept.
TrimmedLess(length) ==
    LET kept == (length * 82) \div 100
    IN (IF kept > 220 THEN kept ELSE 220) + Suffix

\* One turn of the loop of trim_to_token_budget: 82 per cent are kept, and the suffix added.
Trimmed(length) ==
    LET kept == (length * 82) \div 100
    IN (IF kept > Shortest THEN kept ELSE Shortest) + Suffix

-------------------------------------------------------------------------------
FormatPack(answer, budget) ==
    /\ pack = NoPack
    /\ pack' = [at |-> "fit", answer |-> answer, rows |-> Ranked(answer),
                included |-> Len(answer), budget |-> budget, length |-> 0, truncated |-> FALSE]

Included == SubSeq(pack.rows, 1, pack.included)

FitPack ==
    LET length == MarkdownLength(Included, FALSE) IN
    /\ pack # NoPack /\ pack.at = "fit" /\ pack.included > 0
    /\ pack' = IF ~OverBudget(length, pack.budget)
               THEN [pack EXCEPT !.at = "packed", !.length = length]
               ELSE [pack EXCEPT !.included = @ - 1]

\* No memory fits whole, or there is none.
TruncatePack ==
    LET first == SubSeq(pack.rows, 1, IF pack.rows = <<>> THEN 0 ELSE 1) IN
    /\ pack # NoPack /\ pack.at = "fit" /\ pack.included = 0
    /\ pack' = [pack EXCEPT !.at = "trim", !.included = Len(first), !.truncated = TRUE,
                            !.length = MarkdownLength(first, TRUE)]

\* The first loop of trim_to_token_budget goes on while the text is over budget and longer
\* than Shortest, which what it leaves always is: its second loop is never entered.
TrimPack ==
    /\ pack # NoPack /\ pack.at = "trim"
    /\ OverBudget(pack.length, pack.budget) /\ pack.length > Shortest
    /\ pack' = [pack EXCEPT !.length = Trimmed(@)]

FinishPack ==
    /\ pack # NoPack /\ pack.at = "trim" /\ ~OverBudget(pack.length, pack.budget)
    /\ pack' = [pack EXCEPT !.at = "packed"]

PackStep == FitPack \/ TruncatePack \/ TrimPack \/ FinishPack

\* _excluded_memory_reason
ExcludedReason(row) ==
    CASE row.status \in {"archived", "forgotten", "superseded", "conflicted"} -> row.status
      [] pack.truncated -> "token_budget"
      [] OTHER -> "low_score"

-------------------------------------------------------------------------------
(* Properties. *)

Packed == pack # NoPack /\ pack.at = "packed"
LeftOut == {pack.rows[i] : i \in pack.included + 1 .. Len(pack.rows)}

\* The pack shows the best memories, as many of them as fit whole, and it is truncated only
\* when not even the best one fits; "low_score" is said of no memory that outranks one shown.
LargestFittingPack ==
    Packed =>
        /\ \A i \in 1 .. pack.included, row \in LeftOut :
              /\ ~Above(row, pack.rows[i])
              /\ ExcludedReason(row) = "low_score" => pack.rows[i].score >= row.score
        /\ IF pack.truncated
           THEN \A i \in DOMAIN pack.rows :
                    OverBudget(MarkdownLength(<<pack.rows[1]>>, FALSE), pack.budget)
           ELSE pack.included < Len(pack.rows) =>
                    OverBudget(MarkdownLength(SubSeq(pack.rows, 1, pack.included + 1), FALSE), pack.budget)

\* The suffix makes up for the 18 per cent that are cut once there are no more than
\* Irreducible characters: a budget for fewer of them is never met (for the least budget, of 100
\* tokens, at 54 tokens per 100 characters or more).
Irreducible == (Suffix * 100) \div 18
CanFit(budget) == ~OverBudget(Irreducible, budget)
===============================================================================
