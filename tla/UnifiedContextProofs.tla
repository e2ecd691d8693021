-------------------------- MODULE UnifiedContextProofs --------------------------
(***************************************************************************)
(* Proofs about UnifiedContext, and the pack and the conversation in it:   *)
(* any number of transactions of messages beside the command, answers and  *)
(* candidate files of any length, and calls that fail anywhere.            *)
(***************************************************************************)
EXTENDS UnifiedContext, FiniteSetTheorems, SequenceTheorems, WellFoundedInduction, TLAPS

-------------------------------------------------------------------------------
(* Induction over the numbers, for sets of numbers instead of predicates. *)

LEMMA Least ==
    ASSUME NEW S, S \subseteq Nat, S # {}
    PROVE  \E x \in S : \A y \in S : x <= y
<1>1. PICK x \in S : \A y \in S : ~(<<y, x>> \in OpToRel(<, Nat))
  BY NatLessThanWellFounded, WFMin
<1>2. \A y \in S : ~(y < x)
  BY <1>1 DEF OpToRel
<1> QED
  BY <1>2

LEMMA UpTo ==
    ASSUME NEW N \in Nat, NEW S, 0 \in S, \A n \in 1 .. N : n - 1 \in S => n \in S
    PROVE  N \in S
<1> SUFFICES ASSUME N \notin S PROVE FALSE
  OBVIOUS
<1> DEFINE Missed == {k \in 0 .. N : k \notin S}
<1>1. PICK x \in Missed : \A y \in Missed : x <= y
  <2>1. Missed \subseteq Nat /\ Missed # {}
    OBVIOUS
  <2> HIDE DEF Missed
  <2> QED
    BY <2>1, Least
<1>2. x # 0 /\ x \in 1 .. N /\ x \notin S
  OBVIOUS
<1>3. x - 1 \in 0 .. N /\ x - 1 \notin Missed
  BY <1>1, <1>2
<1> QED
  BY <1>2, <1>3

\* The functions given by recursion along the numbers: step n takes the value before it.
Solutions(N, V, base, F) ==
    {f \in [0 .. N -> V] : f[0] = base /\ \A n \in 1 .. N : f[n] = F[n][f[n - 1]]}

LEMMA Recursion ==
    ASSUME NEW N \in Nat, NEW V, NEW base \in V, NEW F \in [1 .. N -> [V -> V]]
    PROVE  Solutions(N, V, base, F) # {}
<1> DEFINE S == {k \in 0 .. N : Solutions(k, V, base, F) # {}}
<1>1. 0 \in S
  <2>1. [n \in 0 .. 0 |-> base] \in Solutions(0, V, base, F)
    BY DEF Solutions
  <2> QED
    BY <2>1
<1>2. \A k \in 1 .. N : k - 1 \in S => k \in S
  <2> SUFFICES ASSUME NEW k \in 1 .. N, Solutions(k - 1, V, base, F) # {}
               PROVE  Solutions(k, V, base, F) # {}
    OBVIOUS
  <2>1. PICK f \in Solutions(k - 1, V, base, F) : TRUE
    OBVIOUS
  <2> DEFINE g == [n \in 0 .. k |-> IF n = k THEN F[k][f[k - 1]] ELSE f[n]]
  <2>2. f \in [0 .. k - 1 -> V]
    BY <2>1 DEF Solutions
  <2>3. F[k][f[k - 1]] \in V
    BY <2>2
  <2>4. g \in [0 .. k -> V]
    BY <2>2, <2>3
  <2>5. g[0] = base /\ \A n \in 1 .. k : g[n] = F[n][g[n - 1]]
    <3>1. f[0] = base /\ \A n \in 1 .. k - 1 : f[n] = F[n][f[n - 1]]
      BY <2>1 DEF Solutions
    <3>2. g[0] = base
      BY <3>1
    <3>3. ASSUME NEW n \in 1 .. k PROVE g[n] = F[n][g[n - 1]]
      <4>1. n \in 0 .. k /\ n - 1 \in 0 .. k /\ n - 1 # k
        OBVIOUS
      <4>2. g[n - 1] = f[n - 1]
        BY <4>1
      <4>3. CASE n = k
        BY <4>2, <4>3
      <4>4. CASE n # k
        <5>1. n \in 1 .. k - 1 /\ g[n] = f[n]
          BY <4>4
        <5> QED
          BY <3>1, <4>2, <5>1
      <4> QED
        BY <4>3, <4>4
    <3> QED
      BY <3>2, <3>3
  <2>6. g \in Solutions(k, V, base, F)
    BY <2>4, <2>5 DEF Solutions
  <2> QED
    BY <2>6
<1>3. N \in S
  <2> HIDE DEF S
  <2> QED
    BY <1>1, <1>2, UpTo
<1> QED
  BY <1>3

-------------------------------------------------------------------------------
(* Lengths. *)

\* A sum of lengths is a length, however many there are.
LEMMA TogetherType ==
    ASSUME NEW n \in Nat, NEW line \in [1 .. n -> Nat]
    PROVE  Together(line, n) \in Nat
<1> DEFINE Step(q, k) == IF k = 0 THEN 0 ELSE q[k - 1] + line[k]
           F == [k \in 1 .. n |-> [v \in Nat |-> v + line[k]]]
           h == CHOOSE q : q = [k \in 0 .. n |-> Step(q, k)]
<1>1. F \in [1 .. n -> [Nat -> Nat]] /\ 0 \in Nat
  OBVIOUS
<1>2. PICK f : f \in Solutions(n, Nat, 0, F)
  <2> HIDE DEF F
  <2> QED
    BY <1>1, Recursion
<1>3. f \in [0 .. n -> Nat] /\ f[0] = 0 /\ \A k \in 1 .. n : f[k] = f[k - 1] + line[k]
  <2>1. f \in [0 .. n -> Nat] /\ f[0] = 0 /\ \A k \in 1 .. n : f[k] = F[k][f[k - 1]]
    <3> HIDE DEF F
    <3> QED
      BY <1>2 DEF Solutions
  <2>2. ASSUME NEW k \in 1 .. n PROVE f[k] = f[k - 1] + line[k]
    <3>1. k - 1 \in 0 .. n
      OBVIOUS
    <3>2. f[k - 1] \in Nat
      BY <2>1, <3>1
    <3>3. F[k][f[k - 1]] = f[k - 1] + line[k]
      BY <3>2
    <3> QED
      BY <2>1, <3>3
  <2> QED
    BY <2>1, <2>2
<1>4. f = [k \in 0 .. n |-> Step(f, k)]
  <2>1. \A k \in 0 .. n : f[k] = Step(f, k)
    BY <1>3
  <2> HIDE DEF Step
  <2> QED
    BY <1>3, <2>1
<1>5. h = [k \in 0 .. n |-> Step(h, k)]
  <2> HIDE DEF Step
  <2> QED
    BY <1>4
<1>6. Together(line, n) = h[n]
  BY DEF Together
<1> HIDE DEF h
<1>7. h[0] = 0 /\ \A k \in 1 .. n : h[k] = h[k - 1] + line[k]
  BY <1>5
<1> DEFINE S == {k \in Nat : k <= n => h[k] \in Nat}
<1>8. 0 \in S
  BY <1>7
<1>9. \A k \in 1 .. n : k - 1 \in S => k \in S
  <2> SUFFICES ASSUME NEW k \in 1 .. n, h[k - 1] \in Nat PROVE h[k] \in Nat
    OBVIOUS
  <2>1. line[k] \in Nat /\ h[k] = h[k - 1] + line[k]
    BY <1>7
  <2> QED
    BY <2>1
<1>10. n \in S
  <2> HIDE DEF S
  <2> QED
    BY <1>8, <1>9, UpTo
<1> QED
  BY <1>6, <1>10

LEMMA EntryLengthType ==
    ASSUME NEW row \in PackRow, NEW truncated \in BOOLEAN
    PROVE  EntryLength(row, truncated) \in Nat
<1> DEFINE line == [i \in DOMAIN row.evidence |->
                       EvidenceLine + Compact(row.evidence[i], IF truncated THEN 160 ELSE 420)]
<1>1. row.evidence \in Seq(Nat) /\ row.text \in Nat
  BY DEF PackRow
<1>2. Len(row.evidence) \in Nat /\ DOMAIN row.evidence = 1 .. Len(row.evidence)
  BY <1>1
<1>3. line \in [1 .. Len(row.evidence) -> Nat]
  BY <1>1, <1>2 DEF EvidenceLine, Compact
<1>4. Together(line, Len(row.evidence)) \in Nat
  <2> HIDE DEF line
  <2> QED
    BY <1>2, <1>3, TogetherType
<1> DEFINE text == Compact(row.text, IF truncated THEN 220 ELSE 600)
           again == IF Warned(row) THEN WarningLine + text ELSE 0
<1>5. text \in Nat /\ again \in Nat
  BY <1>1 DEF Compact, WarningLine
<1>6. EntryLength(row, truncated) = MemoryLine + text + Together(line, Len(row.evidence)) + again
  BY DEF EntryLength
<1> HIDE DEF text, again, line
<1> QED
  BY <1>4, <1>5, <1>6 DEF MemoryLine

LEMMA MarkdownLengthType ==
    ASSUME NEW rows \in Seq(PackRow), NEW truncated \in BOOLEAN
    PROVE  MarkdownLength(rows, truncated) \in Nat /\ MarkdownLength(rows, truncated) >= Title
<1> DEFINE entry == [i \in DOMAIN rows |-> EntryLength(rows[i], truncated)]
<1>1. Len(rows) \in Nat /\ DOMAIN rows = 1 .. Len(rows) /\ \A i \in DOMAIN rows : rows[i] \in PackRow
  OBVIOUS
<1>2. entry \in [1 .. Len(rows) -> Nat]
  BY <1>1, EntryLengthType
<1>3. Together(entry, Len(rows)) \in Nat
  <2> HIDE DEF entry
  <2> QED
    BY <1>1, <1>2, TogetherType
<1> QED
  BY <1>3, PackAssumption DEF MarkdownLength, Suffix, Title

LEMMA TrimmedType == ASSUME NEW length \in Nat PROVE Trimmed(length) \in Nat /\ Trimmed(length) >= Title
BY DEF Trimmed, Shortest, Suffix, Title

\* A text of more than Irreducible characters is shortened, and none is cut below that
\* (trim_to_token_budget): what is over budget with so many characters stays over budget.
THEOREM TrimmingStops ==
    ASSUME NEW length \in Nat, length >= Irreducible
    PROVE  /\ length > Irreducible => Trimmed(length) < length
           /\ Trimmed(length) >= Irreducible
<1>1. Irreducible = 188
  BY DEF Irreducible, Suffix
<1> DEFINE kept == (length * 82) \div 100
<1>2. kept \in Nat /\ 100 * kept <= length * 82 /\ length * 82 < 100 * kept + 100
  OBVIOUS
<1>3. Trimmed(length) = (IF kept > 114 THEN kept ELSE 114) + 34
  BY DEF Trimmed, Shortest, Suffix
<1> HIDE DEF kept
<1>4. kept >= 154
  BY <1>1, <1>2
<1>5. length > 188 => kept + 34 < length
  BY <1>2
<1> QED
  BY <1>1, <1>2, <1>3, <1>4, <1>5

-------------------------------------------------------------------------------
(* The ranking. *)

\* Whether memory j of an answer comes before memory i, and the memories that come before i.
Before(answer, j, i) ==
    \/ Above(answer[j], answer[i])
    \/ j < i /\ ~Above(answer[i], answer[j])
Ahead(answer, i) == {j \in DOMAIN answer : Before(answer, j, i)}
Place(answer, i) == 1 + Cardinality(Ahead(answer, i))

LEMMA RankedIsPlace ==
    ASSUME NEW answer
    PROVE  Ranked(answer) =
             [k \in DOMAIN answer |-> answer[CHOOSE i \in DOMAIN answer : Place(answer, i) = k]]
BY DEF Ranked, Place, Ahead, Before

\* A strict order in which any two memories are comparable.
LEMMA BeforeOrders ==
    ASSUME NEW answer \in Seq(PackRow), NEW i \in DOMAIN answer, NEW j \in DOMAIN answer
    PROVE  /\ ~Before(answer, i, i)
           /\ i # j => Before(answer, i, j) \/ Before(answer, j, i)
           /\ Before(answer, i, j) => ~Above(answer[j], answer[i])
           /\ \A k \in DOMAIN answer : Before(answer, k, j) /\ Before(answer, j, i) => Before(answer, k, i)
<1>1. \A k \in DOMAIN answer : k \in Nat /\ answer[k].score \in Nat /\ answer[k].importance \in Nat
  <2>1. \A k \in DOMAIN answer : k \in Nat /\ answer[k] \in PackRow
    OBVIOUS
  <2>2. \A row \in PackRow : row.score \in Nat /\ row.importance \in Nat
    BY DEF PackRow
  <2> QED
    BY <2>1, <2>2
<1> QED
  BY <1>1 DEF Before, Above

LEMMA PlaceIncreases ==
    ASSUME NEW answer \in Seq(PackRow), NEW i \in DOMAIN answer, NEW j \in DOMAIN answer
    PROVE  /\ Place(answer, i) \in 1 .. Len(answer)
           /\ Before(answer, j, i) => Place(answer, j) < Place(answer, i)
<1> DEFINE n == Len(answer)
<1>1. n \in Nat /\ DOMAIN answer = 1 .. n
  OBVIOUS
<1>2. IsFiniteSet(1 .. n) /\ Cardinality(1 .. n) = n
  <2> HIDE DEF n
  <2>1. 1 \in Int /\ n \in Int
    BY <1>1
  <2>2. IsFiniteSet(1 .. n) /\ Cardinality(1 .. n) = IF 1 > n THEN 0 ELSE n - 1 + 1
    BY <2>1, FS_Interval
  <2> QED
    BY <1>1, <2>2
<1>3. /\ IsFiniteSet((1 .. n) \ {i}) /\ Cardinality((1 .. n) \ {i}) = n - 1
      /\ n - 1 \in Nat
  <2>1. i \in 1 .. n
    BY <1>1
  <2> HIDE DEF n
  <2>2. n - 1 \in Nat
    BY <1>1, <2>1
  <2>3. /\ IsFiniteSet((1 .. n) \ {i})
        /\ Cardinality((1 .. n) \ {i}) =
             IF i \in 1 .. n THEN Cardinality(1 .. n) - 1 ELSE Cardinality(1 .. n)
    BY <1>2, FS_RemoveElement
  <2> QED
    BY <1>2, <2>1, <2>2, <2>3
<1>4. ASSUME NEW k \in DOMAIN answer
      PROVE  IsFiniteSet(Ahead(answer, k)) /\ Cardinality(Ahead(answer, k)) \in Nat
  <2>1. Ahead(answer, k) \in SUBSET (1 .. n)
    BY <1>1 DEF Ahead
  <2> HIDE DEF n
  <2> QED
    BY <1>2, <2>1, FS_Subset, FS_CardinalityType
<1>5. Place(answer, i) \in 1 .. n
  <2>1. Ahead(answer, i) \in SUBSET ((1 .. n) \ {i})
    BY <1>1, BeforeOrders DEF Ahead
  <2> HIDE DEF n
  <2>2. Cardinality(Ahead(answer, i)) <= n - 1
    BY <1>3, <2>1, FS_Subset
  <2> QED
    BY <1>1, <1>3, <1>4, <2>2 DEF Place
<1>6. ASSUME Before(answer, j, i) PROVE Place(answer, j) < Place(answer, i)
  <2>1. Ahead(answer, j) \in SUBSET Ahead(answer, i)
    BY <1>6, BeforeOrders DEF Ahead
  <2>2. j \in Ahead(answer, i) /\ j \notin Ahead(answer, j)
    BY <1>6, BeforeOrders DEF Ahead
  <2>3. Cardinality(Ahead(answer, j)) <= Cardinality(Ahead(answer, i))
    BY <1>4, <2>1, FS_Subset
  <2>4. Cardinality(Ahead(answer, j)) # Cardinality(Ahead(answer, i))
    BY <1>4, <2>1, <2>2, FS_Subset
  <2> QED
    BY <1>4, <2>3, <2>4 DEF Place
<1> QED
  BY <1>5, <1>6

\* The ranking has every memory of the answer, and none outranks one before it.
LEMMA RankedInOrder ==
    ASSUME NEW answer \in Seq(PackRow)
    PROVE  /\ Ranked(answer) \in Seq(PackRow)
           /\ Len(Ranked(answer)) = Len(answer)
           /\ \A k, l \in 1 .. Len(answer) : k < l => ~Above(Ranked(answer)[l], Ranked(answer)[k])
<1> DEFINE n == Len(answer)
           place == [i \in 1 .. n |-> Place(answer, i)]
           at(k) == CHOOSE i \in DOMAIN answer : Place(answer, i) = k
<1>1. n \in Nat /\ DOMAIN answer = 1 .. n /\ \A i \in 1 .. n : answer[i] \in PackRow
  OBVIOUS
<1>2. IsFiniteSet(1 .. n) /\ Cardinality(1 .. n) = n
  <2> HIDE DEF n
  <2>1. 1 \in Int /\ n \in Int
    BY <1>1
  <2>2. IsFiniteSet(1 .. n) /\ Cardinality(1 .. n) = IF 1 > n THEN 0 ELSE n - 1 + 1
    BY <2>1, FS_Interval
  <2> QED
    BY <1>1, <2>2
<1>3. \A i \in 1 .. n : Place(answer, i) \in 1 .. n
  BY <1>1, PlaceIncreases
<1>4. \A i, j \in 1 .. n : i # j => Place(answer, i) # Place(answer, j)
  <2> TAKE i, j \in 1 .. n
  <2>1. Place(answer, i) \in Nat /\ Place(answer, j) \in Nat
    BY <1>3
  <2> QED
    BY <1>1, <2>1, PlaceIncreases, BeforeOrders
<1>5. place \in Injection(1 .. n, 1 .. n)
  BY <1>3, <1>4 DEF Injection, IsInjective
<1>6. \A k \in 1 .. n : \E i \in 1 .. n : Place(answer, i) = k
  <2>1. place \in Surjection(1 .. n, 1 .. n)
    <3> HIDE DEF n, place
    <3> QED
      BY <1>2, <1>5, FS_Injection
  <2> QED
    BY <2>1 DEF Surjection
<1>7. \A k \in 1 .. n : at(k) \in 1 .. n /\ Place(answer, at(k)) = k
  BY <1>1, <1>6
<1> HIDE DEF at
<1>8. Ranked(answer) = [k \in 1 .. n |-> answer[at(k)]]
  BY <1>1, RankedIsPlace DEF at
<1>9. \A k, l \in 1 .. n : k < l => Before(answer, at(k), at(l))
  <2> SUFFICES ASSUME NEW k \in 1 .. n, NEW l \in 1 .. n, k < l PROVE Before(answer, at(k), at(l))
    OBVIOUS
  <2>1. ~Before(answer, at(l), at(k))
    <3> SUFFICES ASSUME Before(answer, at(l), at(k)) PROVE FALSE
      OBVIOUS
    <3>1. Place(answer, at(l)) < Place(answer, at(k))
      BY <1>1, <1>7, PlaceIncreases
    <3> QED
      BY <1>7, <3>1
  <2>2. at(k) # at(l)
    BY <1>7
  <2> QED
    BY <1>1, <1>7, <2>1, <2>2, BeforeOrders
<1>10. \A k, l \in 1 .. n : k < l => ~Above(Ranked(answer)[l], Ranked(answer)[k])
  BY <1>1, <1>7, <1>8, <1>9, BeforeOrders
<1>11. Ranked(answer) \in [1 .. n -> PackRow]
  BY <1>1, <1>7, <1>8
<1>12. Ranked(answer) \in Seq(PackRow) /\ Len(Ranked(answer)) = n
  <2> HIDE DEF n
  <2> QED
    BY <1>1, <1>11
<1> QED
  BY <1>10, <1>12

-------------------------------------------------------------------------------
(* The pack. *)

InOrder(rows) == \A k, l \in DOMAIN rows : k < l => ~Above(rows[l], rows[k])
TooMany(rows, budget) == OverBudget(MarkdownLength(rows, FALSE), budget)

PackState == [at: {"fit", "trim", "packed"}, answer: Seq(PackRow), rows: Seq(PackRow),
              included: Nat, budget: Budget, length: Nat, truncated: BOOLEAN]

\* One memory more would not have fitted, and a text is cut only if the best memory did not.
AllThatFit(p) ==
    IF p.truncated
    THEN p.rows # <<>> => TooMany(<<p.rows[1]>>, p.budget)
    ELSE p.included < Len(p.rows) => TooMany(SubSeq(p.rows, 1, p.included + 1), p.budget)

PackOK(p) ==
    /\ p \in PackState
    /\ p.included <= Len(p.rows)
    /\ InOrder(p.rows)
    /\ p.at = "fit" => ~p.truncated
    /\ p.at # "fit" => p.length >= Title
    /\ AllThatFit(p)

PackInv == pack # NoPack => PackOK(pack)

LEMMA PrefixType ==
    ASSUME NEW rows \in Seq(PackRow), NEW n \in Nat, n <= Len(rows)
    PROVE  SubSeq(rows, 1, n) \in Seq(PackRow) /\ Len(SubSeq(rows, 1, n)) = n
OBVIOUS

LEMMA FirstAlone ==
    ASSUME NEW rows \in Seq(PackRow), rows # <<>>
    PROVE  Len(rows) > 0 /\ SubSeq(rows, 1, 1) = <<rows[1]>>
<1>1. Len(rows) \in Nat \ {0}
  BY EmptySeq
<1>2. rows[1] \in PackRow
  BY <1>1
<1>3. SubSeq(rows, 1, 1) \in Seq(PackRow) /\ Len(SubSeq(rows, 1, 1)) = 1
  BY <1>1, PrefixType
<1>4. SubSeq(rows, 1, 1)[1] = rows[1]
  BY <1>1
<1>5. <<rows[1]>> \in Seq(PackRow) /\ Len(<<rows[1]>>) = 1 /\ <<rows[1]>>[1] = rows[1]
  BY <1>2
<1>6. \A i \in 1 .. Len(SubSeq(rows, 1, 1)) : SubSeq(rows, 1, 1)[i] = <<rows[1]>>[i]
  BY <1>3, <1>4, <1>5
<1>7. SubSeq(rows, 1, 1) = <<rows[1]>>
  BY <1>3, <1>5, <1>6, SeqEqual
<1> QED
  BY <1>1, <1>7

LEMMA FormatKeepsPack ==
    ASSUME NEW answer \in Answers, NEW budget \in Budget, FormatPack(answer, budget)
    PROVE  PackInv'
<1> DEFINE p == [at |-> "fit", answer |-> answer, rows |-> Ranked(answer),
                 included |-> Len(answer), budget |-> budget, length |-> 0, truncated |-> FALSE]
<1>1. answer \in Seq(PackRow) /\ budget \in Budget /\ Len(answer) \in Nat
  BY PackAssumption
<1>2. /\ Ranked(answer) \in Seq(PackRow)
      /\ Len(Ranked(answer)) = Len(answer)
      /\ \A k, l \in 1 .. Len(answer) : k < l => ~Above(Ranked(answer)[l], Ranked(answer)[k])
  BY <1>1, RankedInOrder
<1>3. p \in PackState
  BY <1>1, <1>2 DEF PackState
<1>4. InOrder(p.rows) /\ p.included = Len(p.rows)
  BY <1>2 DEF InOrder
<1>5. PackOK(p)
  BY <1>1, <1>2, <1>3, <1>4 DEF PackOK, AllThatFit
<1>6. pack' = p
  BY DEF FormatPack
<1> QED
  BY <1>5, <1>6 DEF PackInv

LEMMA FitKeepsPack ==
    ASSUME PackInv, FitPack
    PROVE  PackInv'
<1> DEFINE length == MarkdownLength(Included, FALSE)
           fits == ~OverBudget(length, pack.budget)
           shown == [pack EXCEPT !.at = "packed", !.length = length]
           fewer == [pack EXCEPT !.included = @ - 1]
<1>1. PackOK(pack) /\ pack.at = "fit" /\ pack.included > 0
  BY DEF FitPack, PackInv
<1>2. /\ pack \in PackState /\ pack.rows \in Seq(PackRow) /\ pack.included \in Nat /\ pack.budget \in Budget
      /\ pack.included <= Len(pack.rows) /\ ~pack.truncated /\ Len(pack.rows) \in Nat
  BY <1>1 DEF PackOK, PackState
<1>3. Included \in Seq(PackRow)
  BY <1>2, PrefixType DEF Included
<1>4. length \in Nat /\ length >= Title
  BY <1>3, MarkdownLengthType
<1>5. CASE fits
  <2> HIDE DEF length
  <2>1. shown \in PackState
    BY <1>2, <1>4 DEF PackState
  <2>2. /\ shown.rows = pack.rows /\ shown.included = pack.included /\ shown.budget = pack.budget
        /\ shown.truncated = pack.truncated /\ shown.length = length /\ shown.at = "packed"
    BY <1>2 DEF PackState
  <2>3. PackOK(shown)
    <3> HIDE DEF shown
    <3> QED
      BY <1>1, <1>4, <2>1, <2>2 DEF PackOK, AllThatFit
  <2>4. pack' = shown
    BY <1>5 DEF FitPack, length
  <2> QED
    BY <2>3, <2>4 DEF PackInv
<1>6. CASE ~fits
  <2>1. fewer \in PackState
    BY <1>1, <1>2 DEF PackState
  <2>2. /\ fewer.rows = pack.rows /\ fewer.included = pack.included - 1 /\ fewer.budget = pack.budget
        /\ fewer.truncated = pack.truncated /\ fewer.at = pack.at
    BY <1>2 DEF PackState
  <2>3. TooMany(SubSeq(pack.rows, 1, pack.included), pack.budget)
    BY <1>6 DEF TooMany, Included
  <2>4. pack.included - 1 + 1 = pack.included
    BY <1>2
  <2>5. AllThatFit(fewer)
    <3> HIDE DEF fewer
    <3> QED
      BY <1>2, <2>2, <2>3, <2>4 DEF AllThatFit
  <2>6. PackOK(fewer)
    <3> HIDE DEF fewer
    <3> QED
      BY <1>1, <1>2, <2>1, <2>2, <2>5 DEF PackOK
  <2>7. pack' = fewer
    BY <1>6 DEF FitPack
  <2> QED
    BY <2>6, <2>7 DEF PackInv
<1> QED
  BY <1>5, <1>6

LEMMA TruncateKeepsPack ==
    ASSUME PackInv, TruncatePack
    PROVE  PackInv'
<1> DEFINE size == IF pack.rows = <<>> THEN 0 ELSE 1
           first == SubSeq(pack.rows, 1, size)
           cut == [pack EXCEPT !.at = "trim", !.included = Len(first), !.truncated = TRUE,
                               !.length = MarkdownLength(first, TRUE)]
<1>1. PackOK(pack) /\ pack.at = "fit" /\ pack.included = 0
  BY DEF TruncatePack, PackInv
<1>2. /\ pack \in PackState /\ pack.rows \in Seq(PackRow) /\ ~pack.truncated /\ Len(pack.rows) \in Nat
      /\ InOrder(pack.rows)
  BY <1>1 DEF PackOK, PackState
<1>3. size \in Nat /\ size <= Len(pack.rows)
  BY <1>2
<1>4. first \in Seq(PackRow) /\ Len(first) = size
  <2> HIDE DEF size
  <2> QED
    BY <1>2, <1>3, PrefixType
<1>5. MarkdownLength(first, TRUE) \in Nat /\ MarkdownLength(first, TRUE) >= Title
  BY <1>4, MarkdownLengthType
<1> HIDE DEF first
<1>6. cut \in PackState
  BY <1>2, <1>3, <1>4, <1>5 DEF PackState
<1>7. /\ cut.rows = pack.rows /\ cut.included = size /\ cut.budget = pack.budget
      /\ cut.truncated = TRUE /\ cut.length = MarkdownLength(first, TRUE) /\ cut.at = "trim"
  BY <1>2, <1>4 DEF PackState
<1>8. ASSUME pack.rows # <<>> PROVE TooMany(<<pack.rows[1]>>, pack.budget)
  <2>1. 0 < Len(pack.rows) /\ SubSeq(pack.rows, 1, 1) = <<pack.rows[1]>>
    BY <1>2, <1>8, FirstAlone
  <2>2. TooMany(SubSeq(pack.rows, 1, pack.included + 1), pack.budget)
    BY <1>1, <1>2, <2>1 DEF PackOK, AllThatFit
  <2>3. pack.included + 1 = 1
    BY <1>1
  <2> QED
    BY <2>1, <2>2, <2>3
<1>9. PackOK(cut)
  <2> HIDE DEF cut, size
  <2> QED
    BY <1>2, <1>3, <1>5, <1>6, <1>7, <1>8 DEF PackOK, AllThatFit
<1>10. pack' = cut
  BY DEF TruncatePack, first
<1> QED
  BY <1>9, <1>10 DEF PackInv

LEMMA TrimKeepsPack ==
    ASSUME PackInv, TrimPack \/ FinishPack
    PROVE  PackInv'
<1> DEFINE shorter == [pack EXCEPT !.length = Trimmed(@)]
           done == [pack EXCEPT !.at = "packed"]
<1>1. PackOK(pack) /\ pack.at = "trim"
  BY DEF TrimPack, FinishPack, PackInv
<1>2. pack \in PackState /\ pack.length \in Nat
  BY <1>1 DEF PackOK, PackState
<1>3. Trimmed(pack.length) \in Nat /\ Trimmed(pack.length) >= Title
  BY <1>2, TrimmedType
<1>4. PackOK(shorter)
  <2>1. shorter \in PackState
    BY <1>2, <1>3 DEF PackState
  <2>2. /\ shorter.rows = pack.rows /\ shorter.included = pack.included /\ shorter.budget = pack.budget
        /\ shorter.truncated = pack.truncated /\ shorter.length = Trimmed(pack.length)
        /\ shorter.at = pack.at
    BY <1>2 DEF PackState
  <2> HIDE DEF shorter
  <2> QED
    BY <1>1, <1>3, <2>1, <2>2 DEF PackOK, AllThatFit
<1>5. PackOK(done)
  <2>1. done \in PackState
    BY <1>2 DEF PackState
  <2>2. /\ done.rows = pack.rows /\ done.included = pack.included /\ done.budget = pack.budget
        /\ done.truncated = pack.truncated /\ done.length = pack.length /\ done.at = "packed"
    BY <1>2 DEF PackState
  <2> HIDE DEF done
  <2> QED
    BY <1>1, <2>1, <2>2 DEF PackOK, AllThatFit
<1>6. pack' = shorter \/ pack' = done
  BY DEF TrimPack, FinishPack
<1> QED
  BY <1>4, <1>5, <1>6 DEF PackInv

LEMMA PackStepKeepsPack == ASSUME PackInv, PackStep PROVE PackInv'
BY FitKeepsPack, TruncateKeepsPack, TrimKeepsPack DEF PackStep

LEMMA PackInvShows == ASSUME PackInv PROVE PackTypeOK /\ LargestFittingPack
<1>1. ASSUME pack # NoPack
      PROVE  /\ PackOK(pack) /\ pack.rows \in Seq(PackRow) /\ pack.included \in Nat
             /\ pack.included <= Len(pack.rows) /\ Len(pack.rows) \in Nat
             /\ pack.at \in {"fit", "trim", "packed"} /\ pack.length \in Nat /\ pack.truncated \in BOOLEAN
  BY <1>1 DEF PackInv, PackOK, PackState
<1>2. PackTypeOK
  BY <1>1 DEF PackTypeOK
<1>3. ASSUME Packed, NEW i \in 1 .. pack.included, NEW row \in LeftOut
      PROVE  /\ ~Above(row, pack.rows[i])
             /\ ExcludedReason(row) = "low_score" => pack.rows[i].score >= row.score
  <2>1. PICK k \in pack.included + 1 .. Len(pack.rows) : row = pack.rows[k]
    BY <1>3 DEF LeftOut
  <2>2. i \in DOMAIN pack.rows /\ k \in DOMAIN pack.rows /\ i < k
    BY <1>1, <1>3 DEF Packed
  <2>3. ~Above(row, pack.rows[i])
    BY <1>1, <1>3, <2>1, <2>2 DEF Packed, PackOK, InOrder
  <2>4. row \in PackRow /\ pack.rows[i] \in PackRow
    BY <1>1, <1>3, <2>1, <2>2 DEF Packed
  <2>5. row.score \in Nat /\ pack.rows[i].score \in Nat
    BY <2>4 DEF PackRow
  <2> QED
    BY <2>3, <2>5 DEF Above
<1>4. ASSUME Packed
      PROVE  IF pack.truncated
             THEN \A i \in DOMAIN pack.rows :
                      OverBudget(MarkdownLength(<<pack.rows[1]>>, FALSE), pack.budget)
             ELSE pack.included < Len(pack.rows) =>
                      OverBudget(MarkdownLength(SubSeq(pack.rows, 1, pack.included + 1), FALSE),
                                 pack.budget)
  <2>1. AllThatFit(pack)
    BY <1>1, <1>4 DEF Packed, PackOK
  <2>2. \A i \in DOMAIN pack.rows : pack.rows # <<>>
    BY <1>1, <1>4 DEF Packed
  <2> QED
    BY <2>1, <2>2 DEF AllThatFit, TooMany
<1>5. LargestFittingPack
  BY <1>3, <1>4 DEF LargestFittingPack
<1> QED
  BY <1>2, <1>5

-------------------------------------------------------------------------------
(* The conversation: messages. *)

Open == UNION {writing[w] : w \in {v \in Writers : writing[v] # Null}}

\* A reply answers a message of its session that was committed before its transaction began.
Answered(row) ==
    row.reply_to_message_id # Null =>
        \E y \in message : /\ y.message_id = row.reply_to_message_id
                           /\ y.created_at < row.created_at

MessagesInv ==
    /\ sessions \subseteq Sessions
    /\ message \subseteq MessageRow
    /\ writing \in [Writers -> (SUBSET MessageRow) \cup {Null}]
    /\ time \in 1 .. MaxTime + 1
    /\ \A x, y \in message \cup Open : x.message_id = y.message_id => x = y
    /\ \A x \in message \cup Open : x.created_at < time /\ Answered(x)

LEMMA OpenType == ASSUME MessagesInv PROVE Open \subseteq MessageRow
BY DEF MessagesInv, Open

\* A step that starts no message and loses no committed one.
LEMMA FewerRows ==
    ASSUME MessagesInv, message \subseteq message', message' \cup Open' \subseteq message \cup Open,
           writing' \in [Writers -> (SUBSET MessageRow) \cup {Null}],
           sessions' \subseteq Sessions, time' = time
    PROVE  MessagesInv'
<1>1. message' \subseteq MessageRow
  BY OpenType DEF MessagesInv
<1>2. \A x \in message' \cup Open' : x.created_at < time' /\ Answered(x)'
  BY DEF MessagesInv, Answered
<1> QED
  BY <1>1, <1>2 DEF MessagesInv

LEMMA NothingWritten ==
    ASSUME MessagesInv, UNCHANGED <<sessions, message, writing, time>>
    PROVE  MessagesInv'
<1>1. Open' = Open
  BY DEF Open
<1> QED
  BY <1>1, FewerRows DEF MessagesInv

LEMMA CreateKeepsMessages ==
    ASSUME MessagesInv, NEW s \in Sessions, CreateSession(s)
    PROVE  MessagesInv'
<1>1. /\ sessions' \subseteq Sessions
      /\ message' = message /\ Open' = Open /\ writing' = writing /\ time' = time
  BY DEF CreateSession, MessagesInv, Open
<1> QED
  BY <1>1, FewerRows DEF MessagesInv

LEMMA CommitKeepsMessages ==
    ASSUME MessagesInv, NEW w \in Writers, CommitMessages(w)
    PROVE  MessagesInv' /\ message \subseteq message'
<1>1. /\ sessions' = sessions /\ time' = time /\ message' = message \cup writing[w]
      /\ writing' = [writing EXCEPT ![w] = Null] /\ writing[w] # Null
  BY DEF CommitMessages
<1>2. writing' \in [Writers -> (SUBSET MessageRow) \cup {Null}]
  BY <1>1 DEF MessagesInv
<1>3. writing[w] \subseteq Open
  BY <1>1 DEF Open
<1>4. \A v \in Writers : writing'[v] # Null => writing'[v] = writing[v]
  BY <1>1 DEF MessagesInv
<1>5. Open' \subseteq Open
  BY <1>4 DEF Open
<1> QED
  BY <1>1, <1>2, <1>3, <1>5, FewerRows DEF MessagesInv

LEMMA AbortKeepsMessages ==
    ASSUME MessagesInv, NEW w \in Writers, AbortMessages(w)
    PROVE  MessagesInv' /\ message' = message
<1>1. /\ sessions' = sessions /\ time' = time /\ message' = message
      /\ writing' = [writing EXCEPT ![w] = Null]
  BY DEF AbortMessages
<1>2. writing' \in [Writers -> (SUBSET MessageRow) \cup {Null}]
  BY <1>1 DEF MessagesInv
<1>3. \A v \in Writers : writing'[v] # Null => writing'[v] = writing[v]
  BY <1>1 DEF MessagesInv
<1>4. Open' \subseteq Open
  BY <1>3 DEF Open
<1> QED
  BY <1>1, <1>2, <1>4, FewerRows DEF MessagesInv

LEMMA InsertKeepsMessages ==
    ASSUME MessagesInv, NEW w \in Writers, NEW s \in Sessions, NEW ids \in SUBSET (Messages \ Used),
           InsertMessages(w, s, ids)
    PROVE  MessagesInv' /\ message' = message
<1>1. PICK reply \in [ids -> {row.message_id : row \in InSession(s)} \cup {Null}] :
        writing' = [writing EXCEPT ![w] =
            {[message_id |-> m, session_id |-> s, created_at |-> time,
              reply_to_message_id |-> reply[m]] : m \in ids}]
  BY DEF InsertMessages
<1> DEFINE Row(m) == [message_id |-> m, session_id |-> s, created_at |-> time,
                      reply_to_message_id |-> reply[m]]
           new == {Row(m) : m \in ids}
<1>2. /\ sessions' = sessions /\ message' = message /\ time' = time + 1 /\ time <= MaxTime
      /\ writing' = [writing EXCEPT ![w] = new] /\ writing[w] = Null
  BY <1>1 DEF InsertMessages
<1>3. time \in 1 .. MaxTime /\ time + 1 \in 1 .. MaxTime + 1 /\ time \in Nat
  BY <1>2, ConversationAssumption DEF MessagesInv
<1>4. \A m \in ids : /\ reply[m] \in Messages \cup {Null}
                     /\ reply[m] # Null => \E y \in message : y.message_id = reply[m]
  <2>1. \A y \in InSession(s) : y \in message /\ y.message_id \in Messages
    BY DEF InSession, MessagesInv, MessageRow
  <2> QED
    BY <2>1
<1>5. new \subseteq MessageRow
  <2>1. \A m \in ids : Row(m) \in MessageRow
    BY <1>3, <1>4 DEF MessageRow
  <2> HIDE DEF Row
  <2> QED
    BY <2>1
<1>6. writing' \in [Writers -> (SUBSET MessageRow) \cup {Null}]
  <2> HIDE DEF new
  <2> QED
    BY <1>2, <1>5 DEF MessagesInv
<1>7. Open' \subseteq Open \cup new
  <2>1. \A v \in Writers : writing'[v] = writing[v] \/ writing'[v] = new
    <3> HIDE DEF new
    <3> QED
      BY <1>2 DEF MessagesInv
  <2> HIDE DEF new
  <2> QED
    BY <2>1 DEF Open
<1>8. \A x \in new : /\ x.message_id \in ids /\ x = Row(x.message_id) /\ x.created_at = time
                     /\ x.reply_to_message_id = reply[x.message_id]
  OBVIOUS
<1>9. \A x \in message \cup Open : x.message_id \in Used /\ x.created_at < time /\ Answered(x)
  BY DEF MessagesInv, Used, Open
<1> HIDE DEF new, Row
<1>10. \A x, y \in message \cup Open \cup new : x.message_id = y.message_id => x = y
  <2>1. \A x, y \in message \cup Open : x.message_id = y.message_id => x = y
    BY DEF MessagesInv
  <2> QED
    BY <1>8, <1>9, <2>1
<1>11. \A x \in message \cup Open \cup new : x.created_at \in Nat /\ x.created_at < time + 1
  <2>1. \A x \in message \cup Open : x \in MessageRow
    BY OpenType DEF MessagesInv
  <2>2. \A x \in MessageRow : x.created_at \in Nat
    BY ConversationAssumption DEF MessageRow
  <2> QED
    BY <1>3, <1>8, <1>9, <2>1, <2>2
<1>12. \A x \in message \cup Open \cup new : Answered(x)
  <2>1. \A x \in new : Answered(x)
    BY <1>4, <1>8, <1>9 DEF Answered
  <2> QED
    BY <1>9, <2>1
<1>13. \A x \in message' \cup Open' : x.created_at < time' /\ Answered(x)'
  BY <1>2, <1>7, <1>11, <1>12 DEF Answered
<1>14. \A x, y \in message' \cup Open' : x.message_id = y.message_id => x = y
  BY <1>2, <1>7, <1>10
<1> QED
  BY <1>2, <1>3, <1>6, <1>13, <1>14 DEF MessagesInv

LEMMA WriteKeepsMessages ==
    ASSUME MessagesInv, WriteNext
    PROVE  MessagesInv' /\ message \subseteq message' /\ listing' = listing
<1>1. ASSUME NEW s \in Sessions, CreateSession(s) PROVE MessagesInv' /\ message' = message
  BY <1>1, CreateKeepsMessages DEF CreateSession
<1>2. listing' = listing
  BY DEF WriteNext, CreateSession, InsertMessages, CommitMessages, AbortMessages
<1> QED
  BY <1>1, <1>2, InsertKeepsMessages, CommitKeepsMessages, AbortKeepsMessages DEF WriteNext

-------------------------------------------------------------------------------
(* The conversation: the listing. *)

ListingState == [at: {"session", "count", "items", "listed"}, session: Sessions, limit: Nat \ {0},
                 total: Nat, items: Seq(MessageRow), known: SUBSET MessageRow]

Chronological(items) == \A i, j \in DOMAIN items : i < j => items[i].created_at <= items[j].created_at

\* What an answered listing says of the messages it knew and of the total it counted.
KnownShown(l) ==
    \A row \in l.known :
        \/ \E i \in DOMAIN l.items : l.items[i] = row
        \/ /\ Len(l.items) = l.limit
           /\ \A i \in DOMAIN l.items : l.items[i].created_at >= row.created_at
TotalShown(l) == Len(l.items) >= (IF l.total < l.limit THEN l.total ELSE l.limit)

ListingOK(l) ==
    /\ l \in ListingState
    /\ l.known \subseteq InSession(l.session)
    /\ \A i \in DOMAIN l.items : l.items[i] \in message
    /\ l.at = "items" => l.total <= Cardinality(InSession(l.session))
    /\ l.at = "listed" => Chronological(l.items) /\ KnownShown(l) /\ TotalShown(l)

ListingInv == listing # Null => ListingOK(listing)

\* Only finitely many messages can be committed: their ids are keys.
LEMMA KeyedFinite ==
    ASSUME NEW rows \in SUBSET MessageRow, \A x, y \in rows : x.message_id = y.message_id => x = y,
           NEW part \in SUBSET rows
    PROVE  IsFiniteSet(part) /\ Cardinality(part) \in Nat
<1> DEFINE key == [row \in rows |-> row.message_id]
<1>1. key \in Injection(rows, Messages)
  <2>1. \A row \in rows : row.message_id \in Messages
    BY DEF MessageRow
  <2> QED
    BY <2>1 DEF Injection, IsInjective
<1>2. IsFiniteSet(rows)
  <2> HIDE DEF key
  <2> QED
    BY <1>1, ConversationAssumption, FS_Injection
<1> QED
  BY <1>2, FS_Subset, FS_CardinalityType

\* Committed messages never go, so that what was counted is still there.
LEMMA CommitsKeepListing ==
    ASSUME MessagesInv, MessagesInv', ListingInv, message \subseteq message', listing' = listing
    PROVE  ListingInv'
<1> SUFFICES ASSUME listing # Null, ListingOK(listing)
             PROVE  ListingOK(listing)'
  BY DEF ListingInv
<1> DEFINE old == {row \in message : row.session_id = listing.session}
           new == {row \in message' : row.session_id = listing.session}
<1>1. old = InSession(listing.session) /\ new = InSession(listing.session)'
  BY DEF InSession
<1>2. new \in SUBSET message' /\ old \in SUBSET new
  OBVIOUS
<1>3. message' \in SUBSET MessageRow /\ \A x, y \in message' : x.message_id = y.message_id => x = y
  BY DEF MessagesInv
<1> HIDE DEF old, new
<1>4. IsFiniteSet(new) /\ Cardinality(new) \in Nat
  BY <1>2, <1>3, KeyedFinite
<1>5. Cardinality(old) <= Cardinality(new) /\ Cardinality(old) \in Nat
  BY <1>2, <1>4, FS_Subset, FS_CardinalityType
<1>6. listing.total \in Nat /\ (listing.at = "items" => listing.total <= Cardinality(old))
  BY <1>1 DEF ListingOK, ListingState
<1>7. listing.at = "items" => listing.total <= Cardinality(new)
  BY <1>4, <1>5, <1>6
<1> QED
  BY <1>1, <1>2, <1>7 DEF ListingOK, KnownShown, TotalShown

LEMMA BeginKeepsListing ==
    ASSUME MessagesInv, NEW s \in Sessions, NEW limit \in ListLimits, BeginListing(s, limit)
    PROVE  ListingInv'
<1> DEFINE l == [at |-> "session", session |-> s, limit |-> limit, total |-> 0,
                 items |-> <<>>, known |-> InSession(s)]
<1>1. listing' = l /\ message' = message
  BY DEF BeginListing
<1>2. l \in ListingState
  <2>1. InSession(s) \in SUBSET MessageRow
    BY DEF InSession, MessagesInv
  <2>2. limit \in Nat \ {0} /\ <<>> \in Seq(MessageRow)
    BY ConversationAssumption
  <2> QED
    BY <2>1, <2>2 DEF ListingState
<1>3. ListingOK(l)
  <2>1. DOMAIN <<>> = {}
    OBVIOUS
  <2> QED
    BY <1>2, <2>1 DEF ListingOK
<1>4. ListingOK(listing)'
  <2> HIDE DEF l
  <2> QED
    BY <1>1, <1>3 DEF ListingOK, InSession, KnownShown, TotalShown
<1> QED
  BY <1>4 DEF ListingInv

\* Only the step that reads the rows answers.
LEMMA SessionKeepsListing ==
    ASSUME MessagesInv, ListingInv, ListingSession \/ ListingCount
    PROVE  ListingInv'
<1> DEFINE found == [listing EXCEPT !.at = "count"]
           total == Cardinality(InSession(listing.session))
           counted == [listing EXCEPT !.at = "items", !.total = total]
<1>1. listing # Null /\ ListingOK(listing) /\ message' = message
  BY DEF ListingSession, ListingCount, ListingInv
<1>2. listing \in ListingState
  BY <1>1 DEF ListingOK
<1>3. total \in Nat
  <2>1. InSession(listing.session) \in SUBSET message
    BY DEF InSession
  <2> QED
    BY <2>1, KeyedFinite DEF MessagesInv
<1> HIDE DEF total
<1>4. ListingOK(found)
  <2>1. found \in ListingState
    BY <1>2 DEF ListingState
  <2>2. /\ found.at = "count" /\ found.session = listing.session /\ found.items = listing.items
        /\ found.known = listing.known
    BY <1>2 DEF ListingState
  <2> HIDE DEF found
  <2> QED
    BY <1>1, <2>1, <2>2 DEF ListingOK
<1>5. ListingOK(counted)
  <2>1. counted \in ListingState
    BY <1>2, <1>3 DEF ListingState
  <2>2. /\ counted.at = "items" /\ counted.session = listing.session /\ counted.items = listing.items
        /\ counted.known = listing.known /\ counted.total = total
    BY <1>2 DEF ListingState
  <2>3. counted.total <= Cardinality(InSession(counted.session))
    BY <1>3, <2>2 DEF total
  <2> HIDE DEF counted
  <2> QED
    BY <1>1, <2>1, <2>2, <2>3 DEF ListingOK
<1>6. listing' = Null \/ listing' = found \/ listing' = counted
  BY DEF ListingSession, ListingCount, total
<1>7. \A l : ListingOK(l) => (listing' = l => ListingOK(listing)')
  BY <1>1 DEF ListingOK, InSession, KnownShown, TotalShown
<1> HIDE DEF found, counted
<1> QED
  BY <1>4, <1>5, <1>6, <1>7 DEF ListingInv

\* The last rows of a session: all of them, or as many as the limit and none more recent.
LEMMA LatestRowsShow ==
    ASSUME NEW rows \in SUBSET MessageRow, IsFiniteSet(rows), NEW limit \in Nat \ {0},
           NEW items \in LatestRows(rows, limit)
    PROVE  /\ items \in Seq(MessageRow) /\ Chronological(items)
           /\ \A i \in DOMAIN items : items[i] \in rows
           /\ Len(items) = IF Cardinality(rows) < limit THEN Cardinality(rows) ELSE limit
           /\ \A row \in rows :
                 \/ \E i \in DOMAIN items : items[i] = row
                 \/ /\ Len(items) = limit
                    /\ \A i \in DOMAIN items : items[i].created_at >= row.created_at
<1> DEFINE size == IF Cardinality(rows) < limit THEN Cardinality(rows) ELSE limit
<1>1. Cardinality(rows) \in Nat /\ size \in Nat
  BY FS_CardinalityType
<1>2. /\ items \in [1 .. size -> rows]
      /\ \A i, j \in 1 .. size : i < j => items[i] # items[j] /\ items[i].created_at <= items[j].created_at
      /\ \A row \in rows : \A i \in 1 .. size :
            row \notin {items[k] : k \in 1 .. size} => row.created_at <= items[i].created_at
  BY DEF LatestRows
<1> HIDE DEF size
<1>3. items \in Seq(MessageRow) /\ Len(items) = size /\ DOMAIN items = 1 .. size
  <2>1. items \in [1 .. size -> MessageRow]
    BY <1>2
  <2> QED
    BY <1>1, <2>1
<1>4. \A row \in rows : row.created_at \in Nat
  BY ConversationAssumption DEF MessageRow
<1>5. ASSUME NEW row \in rows, \A i \in 1 .. size : items[i] # row
      PROVE  size = limit /\ \A i \in 1 .. size : items[i].created_at >= row.created_at
  <2>1. items \in Injection(1 .. size, rows)
    <3>1. \A i, j \in 1 .. size : i # j => items[i] # items[j]
      <4>1. \A i, j \in 1 .. size : i # j => i < j \/ j < i
        BY <1>1
      <4> QED
        BY <1>2, <4>1
    <3> QED
      BY <1>2, <3>1 DEF Injection, IsInjective
  <2>2. items \notin Surjection(1 .. size, rows)
    BY <1>5 DEF Surjection
  <2>3. Cardinality(1 .. size) = size
    <3>1. 1 \in Int /\ size \in Int
      BY <1>1
    <3>2. Cardinality(1 .. size) = IF 1 > size THEN 0 ELSE size - 1 + 1
      BY <3>1, FS_Interval
    <3> QED
      BY <1>1, <3>2
  <2>4. size # Cardinality(rows)
    BY <2>1, <2>2, <2>3, FS_Injection
  <2>5. size = limit
    BY <2>4 DEF size
  <2>6. row \notin {items[k] : k \in 1 .. size}
    BY <1>5
  <2>7. \A i \in 1 .. size : row.created_at <= items[i].created_at /\ items[i].created_at \in Nat
    BY <1>2, <1>4, <2>6
  <2> QED
    BY <1>4, <2>5, <2>7
<1> QED
  BY <1>2, <1>3, <1>5 DEF Chronological, size

LEMMA ItemsKeepListing ==
    ASSUME MessagesInv, ListingInv, ListingItems
    PROVE  ListingInv'
<1>1. listing # Null /\ listing.at = "items" /\ ListingOK(listing) /\ message' = message
  BY DEF ListingItems, ListingInv
<1>2. listing \in ListingState /\ listing.limit \in Nat \ {0} /\ listing.total \in Nat
  BY <1>1 DEF ListingOK, ListingState
<1>3. PICK items \in LatestRows(InSession(listing.session), listing.limit) :
        listing' = [listing EXCEPT !.at = "listed", !.items = items]
  BY DEF ListingItems
<1> DEFINE rows == InSession(listing.session)
           l == [listing EXCEPT !.at = "listed", !.items = items]
<1>4. /\ rows \in SUBSET MessageRow /\ rows \in SUBSET message
      /\ IsFiniteSet(rows) /\ Cardinality(rows) \in Nat
  <2>1. rows \in SUBSET message
    BY DEF InSession
  <2> QED
    BY <2>1, KeyedFinite DEF MessagesInv
<1> HIDE DEF rows
<1>5. /\ items \in Seq(MessageRow) /\ Chronological(items)
      /\ \A i \in DOMAIN items : items[i] \in rows
      /\ Len(items) = IF Cardinality(rows) < listing.limit THEN Cardinality(rows) ELSE listing.limit
      /\ \A row \in rows :
            \/ \E i \in DOMAIN items : items[i] = row
            \/ /\ Len(items) = listing.limit
               /\ \A i \in DOMAIN items : items[i].created_at >= row.created_at
  BY <1>2, <1>3, <1>4, LatestRowsShow DEF rows
<1>6. l \in ListingState
  BY <1>2, <1>5 DEF ListingState
<1>7. /\ l.at = "listed" /\ l.items = items /\ l.limit = listing.limit /\ l.total = listing.total
      /\ l.known = listing.known /\ l.session = listing.session
  BY <1>2 DEF ListingState
<1> HIDE DEF l
<1>8. listing.known \subseteq rows /\ listing.total <= Cardinality(rows)
  BY <1>1 DEF ListingOK, rows
<1>9. KnownShown(l)
  BY <1>5, <1>7, <1>8 DEF KnownShown
<1>10. TotalShown(l)
  BY <1>2, <1>4, <1>5, <1>7, <1>8 DEF TotalShown
<1>11. ListingOK(l)
  BY <1>4, <1>5, <1>6, <1>7, <1>8, <1>9, <1>10 DEF ListingOK, rows
<1>12. listing' = l
  BY <1>3 DEF l
<1>13. \A k : ListingOK(k) => (listing' = k => ListingOK(listing)')
  BY <1>1 DEF ListingOK, InSession, KnownShown, TotalShown
<1> QED
  BY <1>11, <1>12, <1>13 DEF ListingInv

LEMMA ListingStepKeeps ==
    ASSUME MessagesInv, ListingInv, ListingStep
    PROVE  MessagesInv' /\ ListingInv'
<1>1. MessagesInv'
  <2>1. UNCHANGED <<sessions, message, writing, time>>
    BY DEF ListingStep, ListingSession, ListingCount, ListingItems
  <2> QED
    BY <2>1, NothingWritten
<1> QED
  BY <1>1, SessionKeepsListing, ItemsKeepListing DEF ListingStep

\* A reply begins after what it answers was committed, hence carries a later time.
LEMMA ConversationShows ==
    ASSUME MessagesInv, ListingInv
    PROVE  ConversationTypeOK /\ RecentInOrder
<1>1. ConversationTypeOK
  <2>1. \A w \in Writers : writing[w] # Null => writing[w] \subseteq MessageRow
    BY DEF MessagesInv
  <2>2. ASSUME listing # Null
        PROVE  /\ listing.at \in {"session", "count", "items", "listed"}
               /\ \A i \in DOMAIN listing.items : listing.items[i] \in message
    BY <2>2 DEF ListingInv, ListingOK, ListingState
  <2> QED
    BY <2>1, <2>2 DEF ConversationTypeOK, MessagesInv
<1>2. ASSUME Listed
      PROVE  /\ ListingOK(listing) /\ listing.at = "listed" /\ listing.items \in Seq(MessageRow)
             /\ KnownShown(listing) /\ TotalShown(listing) /\ Chronological(listing.items)
  BY <1>2 DEF Listed, ListingInv, ListingOK, ListingState
<1>3. ASSUME Listed, NEW i \in DOMAIN listing.items, NEW j \in DOMAIN listing.items,
             listing.items[i].reply_to_message_id = listing.items[j].message_id
      PROVE  j < i
  <2> DEFINE x == listing.items[i]
             y == listing.items[j]
  <2>1. x \in message /\ y \in message /\ i \in Nat /\ j \in Nat
    BY <1>2, <1>3 DEF ListingOK
  <2>2. /\ y.message_id # Null /\ x.created_at \in Nat /\ y.created_at \in Nat
    BY <2>1, ConversationAssumption DEF MessagesInv, MessageRow
  <2>3. PICK z \in message : z.message_id = x.reply_to_message_id /\ z.created_at < x.created_at
    BY <1>3, <2>1, <2>2 DEF MessagesInv, Answered
  <2>4. z = y
    BY <1>3, <2>1, <2>3 DEF MessagesInv
  <2>5. i < j => x.created_at <= y.created_at
    BY <1>2, <1>3 DEF Chronological
  <2>6. i = j => x = y
    OBVIOUS
  <2> HIDE DEF x, y
  <2> QED
    BY <2>1, <2>2, <2>3, <2>4, <2>5, <2>6
<1> QED
  BY <1>1, <1>2, <1>3 DEF RecentInOrder, KnownShown, TotalShown

-------------------------------------------------------------------------------
(* The snippets. *)

Shown == Paths \ ExcludedFiles
Reasons == {"changed_file", "query_hit"}
Snippet == [path: Paths, reason: Reasons]

\* One step of NotExcluded.
KeptPath(v, path) == IF path \in ExcludedFiles THEN v ELSE Append(v, path)

LEMMA NotExcludedType ==
    ASSUME NEW paths \in Seq(Paths)
    PROVE  NotExcluded(paths) \in Seq(Shown)
<1> DEFINE n == Len(paths)
           V == Seq(Shown)
           Step(q, k) == IF k = 0 THEN <<>>
                         ELSE IF paths[k] \in ExcludedFiles THEN q[k - 1] ELSE Append(q[k - 1], paths[k])
           F == [k \in 1 .. n |-> [v \in V |-> KeptPath(v, paths[k])]]
           h == CHOOSE q : q = [k \in 0 .. n |-> Step(q, k)]
<1>1. n \in Nat /\ \A k \in 1 .. n : paths[k] \in Paths
  OBVIOUS
<1>2. \A k \in 1 .. n : \A v \in V : KeptPath(v, paths[k]) \in V
  BY <1>1 DEF KeptPath, Shown
<1>3. F \in [1 .. n -> [V -> V]] /\ <<>> \in V
  BY <1>2
<1>4. PICK f : f \in Solutions(n, V, <<>>, F)
  <2> HIDE DEF F, V, n
  <2> QED
    BY <1>1, <1>3, Recursion
<1>5. f \in [0 .. n -> V] /\ f[0] = <<>> /\ \A k \in 1 .. n : f[k] = F[k][f[k - 1]]
  BY <1>4 DEF Solutions
<1>6. \A k \in 1 .. n : f[k] = KeptPath(f[k - 1], paths[k])
  <2> TAKE k \in 1 .. n
  <2>1. k - 1 \in 0 .. n
    BY <1>1
  <2>2. f[k - 1] \in V
    <3> HIDE DEF V, F
    <3> QED
      BY <1>5, <2>1
  <2>3. F[k][f[k - 1]] = KeptPath(f[k - 1], paths[k])
    <3> HIDE DEF V
    <3> QED
      BY <2>2
  <2> HIDE DEF F
  <2> QED
    BY <1>5, <2>3
<1>7. f = [k \in 0 .. n |-> Step(f, k)]
  <2>1. \A k \in 0 .. n : f[k] = Step(f, k)
    <3> TAKE k \in 0 .. n
    <3>1. k = 0 \/ k \in 1 .. n
      OBVIOUS
    <3> HIDE DEF F
    <3> QED
      BY <1>5, <1>6, <3>1 DEF KeptPath
  <2> HIDE DEF F, Step, V
  <2> QED
    BY <1>5, <2>1
<1>8. h = [k \in 0 .. n |-> Step(h, k)]
  <2> HIDE DEF Step
  <2> QED
    BY <1>7
<1>9. NotExcluded(paths) = h[n]
  BY DEF NotExcluded
<1> HIDE DEF h
<1>10. h[0] = <<>> /\ \A k \in 1 .. n : h[k] = KeptPath(h[k - 1], paths[k])
  <2>1. h[0] = Step(h, 0) /\ \A k \in 1 .. n : h[k] = Step(h, k)
    <3>1. 0 \in 0 .. n /\ \A k \in 1 .. n : k \in 0 .. n
      OBVIOUS
    <3> HIDE DEF Step
    <3> QED
      BY <1>8, <3>1
  <2> QED
    BY <2>1 DEF KeptPath
<1> DEFINE S == {k \in Nat : k <= n => h[k] \in V}
<1>11. 0 \in S /\ \A k \in 1 .. n : k - 1 \in S => k \in S
  <2>1. 0 \in S
    BY <1>3, <1>10
  <2>2. ASSUME NEW k \in 1 .. n, h[k - 1] \in V PROVE h[k] \in V
    <3> HIDE DEF V
    <3> QED
      BY <1>2, <1>10, <2>2
  <2> HIDE DEF V
  <2> QED
    BY <1>1, <2>1, <2>2
<1>12. n \in S
  <2> HIDE DEF S, n
  <2> QED
    BY <1>1, <1>11, UpTo
<1> QED
  BY <1>9, <1>12

LEMMA QueryHitsType ==
    ASSUME NEW lines \in Seq(Paths), NEW hits \in QueryHits(lines)
    PROVE  hits \in Seq(Shown)
<1>1. NotExcluded(lines) \in Seq(Shown)
  BY NotExcludedType
<1> DEFINE S == ToSet(NotExcluded(lines)) \cap TextFiles
<1>2. S \in SUBSET Shown
  BY <1>1 DEF ToSet
<1>3. Cardinality(S) \in Nat
  <2>1. S \in SUBSET Paths
    BY <1>2 DEF Shown
  <2> HIDE DEF S
  <2> QED
    BY <2>1, UnifiedAssumption, FS_Subset, FS_CardinalityType
<1>4. ASSUME hits \in SetToSeqs(S) PROVE hits \in Seq(Shown)
  <2> HIDE DEF S
  <2>1. hits \in [1 .. Cardinality(S) -> S]
    BY <1>4 DEF SetToSeqs
  <2>2. hits \in [1 .. Cardinality(S) -> Shown]
    BY <1>2, <2>1
  <2> QED
    BY <1>3, <2>2
<1> QED
  BY <1>1, <1>4 DEF QueryHits

LEMMA CandidatesInOrder ==
    ASSUME NEW changed \in Seq(Shown), NEW hits \in Seq(Shown)
    PROVE  /\ CandidateFiles(changed, hits) \in Seq(Shown \X Reasons)
           /\ \A f, g \in DOMAIN CandidateFiles(changed, hits) :
                 f < g /\ CandidateFiles(changed, hits)[g][2] = "changed_file"
                   => CandidateFiles(changed, hits)[f][2] = "changed_file"
<1> DEFINE a == [i \in 1 .. Len(changed) |-> <<changed[i], "changed_file">>]
           b == [i \in 1 .. Len(hits) |-> <<hits[i], "query_hit">>]
           P == Shown \X Reasons
<1>1. /\ Len(changed) \in Nat /\ Len(hits) \in Nat
      /\ \A i \in 1 .. Len(changed) : changed[i] \in Shown
      /\ \A i \in 1 .. Len(hits) : hits[i] \in Shown
  OBVIOUS
<1>2. a \in [1 .. Len(changed) -> P] /\ b \in [1 .. Len(hits) -> P]
  BY <1>1 DEF Reasons
<1>3. \A i \in 1 .. Len(changed) : a[i][2] = "changed_file"
  OBVIOUS
<1>4. \A i \in 1 .. Len(hits) : b[i][2] = "query_hit"
  OBVIOUS
<1>5. CandidateFiles(changed, hits) = a \o b
  BY DEF CandidateFiles
<1> HIDE DEF a, b, P
<1>6. a \in Seq(P) /\ b \in Seq(P) /\ Len(a) = Len(changed) /\ Len(b) = Len(hits)
  <2>1. \A n \in Nat : \A s \in [1 .. n -> P] : s \in Seq(P) /\ Len(s) = n
    OBVIOUS
  <2> QED
    BY <1>1, <1>2, <2>1
<1>7. /\ a \o b \in Seq(P) /\ Len(a \o b) = Len(a) + Len(b)
      /\ \A i \in 1 .. Len(a) + Len(b) : (a \o b)[i] = IF i <= Len(a) THEN a[i] ELSE b[i - Len(a)]
  BY <1>6, ConcatProperties
<1>8. \A i \in DOMAIN (a \o b) : (a \o b)[i][2] = "changed_file" <=> i <= Len(a)
  <2> TAKE i \in DOMAIN (a \o b)
  <2>1. i \in 1 .. Len(a) + Len(b)
    BY <1>7
  <2>2. CASE i <= Len(a)
    BY <1>1, <1>3, <1>6, <1>7, <2>1, <2>2
  <2>3. CASE ~(i <= Len(a))
    <3>1. i - Len(a) \in 1 .. Len(hits)
      BY <1>1, <1>6, <2>1, <2>3
    <3> QED
      BY <1>4, <1>7, <2>1, <2>3, <3>1
  <2> QED
    BY <2>2, <2>3
<1>9. \A f, g \in DOMAIN (a \o b) : f < g /\ g <= Len(a) => f <= Len(a)
  BY <1>1, <1>6, <1>7
<1> QED
  BY <1>5, <1>7, <1>8, <1>9 DEF P

\* One step of Snippets, and what is true of the snippets after k files.
Taken(v, files, k, limit) ==
    IF k > 1 /\ Len(v) >= limit THEN v ELSE WithSnippet(v, files[k][1], files[k][2])

Shows(v, path) == \E i \in DOMAIN v : v[i].path = path
Full(limit) == IF limit = 0 THEN 1 ELSE limit

ChosenOK(v, files, k, limit) ==
    /\ v \in Seq(Snippet)
    /\ k = 0 => v = <<>>
    /\ \A i, j \in DOMAIN v : i # j => v[i].path # v[j].path
    /\ Len(v) <= Full(limit)
    /\ \A i \in DOMAIN v : \E f \in 1 .. k : v[i].reason = files[f][2]
    /\ \A i, j \in DOMAIN v : i < j /\ v[j].reason = "changed_file" => v[i].reason = "changed_file"
    /\ Len(v) < limit => \A f \in 1 .. k : files[f][1] \in TextFiles => Shows(v, files[f][1])

LEMMA AppendShows ==
    ASSUME NEW v \in Seq(Snippet), NEW x \in Snippet
    PROVE  /\ Append(v, x) \in Seq(Snippet)
           /\ Len(Append(v, x)) = Len(v) + 1 /\ Len(v) \in Nat
           /\ Append(v, x)[Len(v) + 1] = x
           /\ DOMAIN v = 1 .. Len(v) /\ DOMAIN Append(v, x) = 1 .. Len(v) + 1
           /\ \A i \in DOMAIN v : Append(v, x)[i] = v[i]
           /\ \A i \in DOMAIN Append(v, x) : i \in DOMAIN v \/ i = Len(v) + 1
           /\ Shows(Append(v, x), x.path)
           /\ \A path : Shows(v, path) => Shows(Append(v, x), path)
<1>1. /\ Append(v, x) \in Seq(Snippet)
      /\ Len(Append(v, x)) = Len(v) + 1 /\ Len(v) \in Nat
      /\ Append(v, x)[Len(v) + 1] = x
      /\ DOMAIN v = 1 .. Len(v) /\ DOMAIN Append(v, x) = 1 .. Len(v) + 1
      /\ \A i \in DOMAIN v : Append(v, x)[i] = v[i]
  OBVIOUS
<1>2. \A i \in 1 .. Len(v) + 1 : i \in 1 .. Len(v) \/ i = Len(v) + 1
  BY <1>1
<1>3. Shows(Append(v, x), x.path)
  <2>1. Len(v) + 1 \in DOMAIN Append(v, x)
    BY <1>1
  <2> QED
    BY <1>1, <2>1 DEF Shows
<1>4. \A path : Shows(v, path) => Shows(Append(v, x), path)
  <2>1. \A i \in DOMAIN v : i \in DOMAIN Append(v, x)
    BY <1>1
  <2> QED
    BY <1>1, <2>1 DEF Shows
<1> QED
  BY <1>1, <1>2, <1>3, <1>4

LEMMA TakenStaysOK ==
    ASSUME NEW files \in Seq(Shown \X Reasons), NEW limit \in Nat,
           \A f, g \in DOMAIN files :
              f < g /\ files[g][2] = "changed_file" => files[f][2] = "changed_file",
           NEW k \in 1 .. Len(files), NEW v, ChosenOK(v, files, k - 1, limit)
    PROVE  ChosenOK(Taken(v, files, k, limit), files, k, limit)
<1> DEFINE path == files[k][1]
           reason == files[k][2]
           x == [path |-> path, reason |-> reason]
<1>1. path \in Shown /\ reason \in Reasons
  <2>1. files[k] \in Shown \X Reasons
    OBVIOUS
  <2> QED
    BY <2>1
<1>2. k \in Nat /\ k # 0 /\ Len(files) \in Nat /\ DOMAIN files = 1 .. Len(files)
  OBVIOUS
<1>3. /\ v \in Seq(Snippet) /\ Len(v) \in Nat
      /\ k = 1 => v = <<>> /\ Len(v) = 0
      /\ \A i, j \in DOMAIN v : i # j => v[i].path # v[j].path
      /\ Len(v) <= Full(limit)
      /\ \A i \in DOMAIN v : \E f \in 1 .. k - 1 : v[i].reason = files[f][2]
      /\ \A i, j \in DOMAIN v : i < j /\ v[j].reason = "changed_file" => v[i].reason = "changed_file"
      /\ Len(v) < limit => \A f \in 1 .. k - 1 : files[f][1] \in TextFiles => Shows(v, files[f][1])
  BY <1>2 DEF ChosenOK
<1>4. \A f \in 1 .. k : f \in 1 .. k - 1 \/ f = k
  BY <1>2
<1>5. 1 .. k - 1 \subseteq 1 .. k /\ k \in 1 .. k
  BY <1>2
<1>6. CASE k > 1 /\ Len(v) >= limit
  <2>1. Taken(v, files, k, limit) = v
    BY <1>6 DEF Taken
  <2>2. ~(Len(v) < limit)
    BY <1>3, <1>6
  <2> QED
    BY <1>2, <1>3, <1>5, <2>1, <2>2 DEF ChosenOK
<1>7. CASE ~(k > 1 /\ Len(v) >= limit)
  <2>1. Taken(v, files, k, limit) = WithSnippet(v, path, reason)
    BY <1>7 DEF Taken
  <2>2. Len(v) + 1 <= Full(limit)
    BY <1>2, <1>3, <1>7 DEF Full
  <2>3. Len(v) < limit \/ (limit = 0 /\ Len(v) = 0)
    BY <1>2, <1>3, <1>7
  <2>4. CASE path \in TextFiles /\ ~Shows(v, path)
    <3> DEFINE w == Append(v, x)
    <3>1. Taken(v, files, k, limit) = w
      BY <1>1, <2>1, <2>4 DEF WithSnippet, Shown, Shows
    <3>2. x \in Snippet /\ x.path = path /\ x.reason = reason
      BY <1>1 DEF Snippet, Shown
    <3> HIDE DEF x
    <3>3. /\ w \in Seq(Snippet) /\ Len(w) = Len(v) + 1
          /\ w[Len(v) + 1] = x
          /\ DOMAIN v = 1 .. Len(v) /\ DOMAIN w = 1 .. Len(v) + 1
          /\ \A i \in DOMAIN v : w[i] = v[i]
          /\ \A i \in DOMAIN w : i \in DOMAIN v \/ i = Len(v) + 1
          /\ Shows(w, path)
          /\ \A p : Shows(v, p) => Shows(w, p)
      BY <1>3, <3>2, AppendShows
    <3> HIDE DEF w, path, reason
    <3>4. \A i, j \in DOMAIN w : i # j => w[i].path # w[j].path
      <4>1. \A i \in DOMAIN v : v[i].path # path
        BY <2>4 DEF Shows
      <4> QED
        BY <1>3, <3>2, <3>3, <4>1
    <3>5. \A i \in DOMAIN w : \E f \in 1 .. k : w[i].reason = files[f][2]
      BY <1>3, <1>5, <3>2, <3>3 DEF reason
    <3>6. \A i, j \in DOMAIN w : i < j /\ w[j].reason = "changed_file" => w[i].reason = "changed_file"
      <4> SUFFICES ASSUME NEW i \in DOMAIN w, NEW j \in DOMAIN w, i < j, w[j].reason = "changed_file"
                   PROVE  w[i].reason = "changed_file"
        OBVIOUS
      <4>1. i \in DOMAIN v
        BY <1>3, <3>3
      <4>2. CASE j \in DOMAIN v
        BY <1>3, <3>3, <4>1, <4>2
      <4>3. CASE j = Len(v) + 1
        <5>1. files[k][2] = "changed_file"
          BY <3>2, <3>3, <4>3 DEF reason
        <5>2. PICK f \in 1 .. k - 1 : v[i].reason = files[f][2]
          BY <1>3, <4>1
        <5>3. f \in DOMAIN files /\ k \in DOMAIN files /\ f < k
          BY <1>2
        <5> QED
          BY <3>3, <4>1, <5>1, <5>2, <5>3
      <4> QED
        BY <3>3, <4>2, <4>3
    <3>7. \A f \in 1 .. k : files[f][1] \in TextFiles /\ Len(v) < limit => Shows(w, files[f][1])
      BY <1>3, <1>4, <3>3 DEF path
    <3>8. Len(w) < limit => \A f \in 1 .. k : files[f][1] \in TextFiles => Shows(w, files[f][1])
      BY <1>3, <3>3, <3>7
    <3>9. Len(w) <= Full(limit)
      BY <2>2, <3>3
    <3> QED
      BY <1>2, <3>1, <3>3, <3>4, <3>5, <3>6, <3>8, <3>9 DEF ChosenOK
  <2>5. CASE ~(path \in TextFiles /\ ~Shows(v, path))
    <3>1. Taken(v, files, k, limit) = v
      BY <2>1, <2>5 DEF WithSnippet, Shows
    <3>2. Len(v) < limit => \A f \in 1 .. k : files[f][1] \in TextFiles => Shows(v, files[f][1])
      BY <1>3, <1>4, <2>5
    <3> QED
      BY <1>2, <1>3, <1>5, <3>1, <3>2 DEF ChosenOK
  <2> QED
    BY <2>4, <2>5
<1> QED
  BY <1>6, <1>7

LEMMA WithSnippetType ==
    ASSUME NEW v \in Seq(Snippet), NEW path \in Shown, NEW reason \in Reasons
    PROVE  WithSnippet(v, path, reason) \in Seq(Snippet)
<1>1. [path |-> path, reason |-> reason] \in Snippet
  BY DEF Snippet, Shown
<1> QED
  BY <1>1 DEF WithSnippet

LEMMA TakenType ==
    ASSUME NEW files \in Seq(Shown \X Reasons), NEW k \in 1 .. Len(files), NEW limit,
           NEW v \in Seq(Snippet)
    PROVE  Taken(v, files, k, limit) \in Seq(Snippet)
<1>1. files[k] \in Shown \X Reasons
  OBVIOUS
<1>2. files[k][1] \in Shown /\ files[k][2] \in Reasons
  BY <1>1
<1> QED
  BY <1>2, WithSnippetType DEF Taken

\* select_snippets, whatever files there are.
LEMMA SnippetsTaken ==
    ASSUME NEW changed \in Seq(Shown), NEW hits \in Seq(Shown), NEW limit \in Nat
    PROVE  LET files == CandidateFiles(changed, hits)
           IN  ChosenOK(Snippets(changed, hits, limit), files, Len(files), limit)
<1> DEFINE files == CandidateFiles(changed, hits)
           n == Len(files)
           V == Seq(Snippet)
           Step(q, k) == IF k = 0 THEN <<>>
                         ELSE IF k > 1 /\ Len(q[k - 1]) >= limit THEN q[k - 1]
                         ELSE WithSnippet(q[k - 1], files[k][1], files[k][2])
           F == [k \in 1 .. n |-> [v \in V |-> Taken(v, files, k, limit)]]
           h == CHOOSE q : q = [k \in 0 .. n |-> Step(q, k)]
<1>1. /\ files \in Seq(Shown \X Reasons)
      /\ \A f, g \in DOMAIN files :
            f < g /\ files[g][2] = "changed_file" => files[f][2] = "changed_file"
  BY CandidatesInOrder
<1>2. Snippets(changed, hits, limit) = h[n]
  BY DEF Snippets
<1> HIDE DEF files
<1>3. n \in Nat
  BY <1>1
<1>4. \A k \in 1 .. n : \A v \in V : Taken(v, files, k, limit) \in V
  BY <1>1, TakenType
<1>5. F \in [1 .. n -> [V -> V]] /\ <<>> \in V
  BY <1>4
<1>6. PICK f : f \in Solutions(n, V, <<>>, F)
  <2> HIDE DEF F, V, n
  <2> QED
    BY <1>3, <1>5, Recursion
<1>7. f \in [0 .. n -> V] /\ f[0] = <<>> /\ \A k \in 1 .. n : f[k] = F[k][f[k - 1]]
  BY <1>6 DEF Solutions
<1>8. \A k \in 1 .. n : f[k] = Taken(f[k - 1], files, k, limit)
  <2> TAKE k \in 1 .. n
  <2>1. k - 1 \in 0 .. n
    BY <1>3
  <2>2. f[k - 1] \in V
    <3> HIDE DEF V, F
    <3> QED
      BY <1>7, <2>1
  <2>3. F[k][f[k - 1]] = Taken(f[k - 1], files, k, limit)
    <3> HIDE DEF V
    <3> QED
      BY <2>2
  <2> HIDE DEF F
  <2> QED
    BY <1>7, <2>3
<1>9. f = [k \in 0 .. n |-> Step(f, k)]
  <2>1. \A k \in 0 .. n : f[k] = Step(f, k)
    <3> TAKE k \in 0 .. n
    <3>1. k = 0 \/ (k # 0 /\ k \in 1 .. n)
      OBVIOUS
    <3> HIDE DEF F, n
    <3> QED
      BY <1>7, <1>8, <3>1 DEF Taken
  <2> HIDE DEF F, Step, V
  <2> QED
    BY <1>7, <2>1
<1>10. h = [k \in 0 .. n |-> Step(h, k)]
  <2> HIDE DEF Step
  <2> QED
    BY <1>9
<1> HIDE DEF h
<1>11. h[0] = <<>> /\ \A k \in 1 .. n : h[k] = Taken(h[k - 1], files, k, limit)
  <2>1. h[0] = Step(h, 0) /\ \A k \in 1 .. n : h[k] = Step(h, k)
    <3>1. 0 \in 0 .. n /\ \A k \in 1 .. n : k \in 0 .. n
      OBVIOUS
    <3> HIDE DEF Step
    <3> QED
      BY <1>10, <3>1
  <2>2. \A k \in 1 .. n : k # 0
    OBVIOUS
  <2> QED
    BY <2>1, <2>2 DEF Taken
<1> DEFINE S == {k \in Nat : k <= n => ChosenOK(h[k], files, k, limit)}
<1>12. 0 \in S
  <2>1. <<>> \in Seq(Snippet) /\ DOMAIN <<>> = {} /\ Len(<<>>) = 0 /\ 1 .. 0 = {}
    OBVIOUS
  <2>2. ChosenOK(<<>>, files, 0, limit)
    BY <2>1 DEF ChosenOK, Full
  <2> QED
    BY <1>11, <2>2
<1>13. \A k \in 1 .. n : k - 1 \in S => k \in S
  <2> SUFFICES ASSUME NEW k \in 1 .. n, ChosenOK(h[k - 1], files, k - 1, limit)
               PROVE  ChosenOK(h[k], files, k, limit)
    BY <1>3
  <2>1. ChosenOK(Taken(h[k - 1], files, k, limit), files, k, limit)
    BY <1>1, TakenStaysOK
  <2> QED
    BY <1>11, <2>1
<1>14. n \in S
  <2> HIDE DEF S, n
  <2> QED
    BY <1>3, <1>12, <1>13, UpTo
<1> QED
  BY <1>2, <1>3, <1>14 DEF files

\* What SnippetsChosen says, of any snippets.
WellChosen(snippets, limit, changed, hits) ==
    LET paths == {snippets[i].path : i \in DOMAIN snippets} IN
    /\ Cardinality(paths) = Len(snippets)
    /\ Len(snippets) <= IF limit = 0 THEN 1 ELSE limit
    /\ \A i, j \in DOMAIN snippets :
          i < j /\ snippets[j].reason = "changed_file" => snippets[i].reason = "changed_file"
    /\ Len(snippets) < limit =>
          \A i \in DOMAIN CandidateFiles(changed, hits) :
              CandidateFiles(changed, hits)[i][1] \in TextFiles
                  => CandidateFiles(changed, hits)[i][1] \in paths

LEMMA SnippetsWellChosen ==
    ASSUME NEW changed \in Seq(Shown), NEW hits \in Seq(Shown), NEW limit \in Nat
    PROVE  /\ Snippets(changed, hits, limit) \in Seq(Snippet)
           /\ WellChosen(Snippets(changed, hits, limit), limit, changed, hits)
<1> DEFINE v == Snippets(changed, hits, limit)
           files == CandidateFiles(changed, hits)
           paths == {v[i].path : i \in DOMAIN v}
           at == [i \in DOMAIN v |-> v[i].path]
<1>1. ChosenOK(v, files, Len(files), limit)
  BY SnippetsTaken
<1>2. DOMAIN files = 1 .. Len(files)
  <2>1. files \in Seq(Shown \X Reasons)
    BY CandidatesInOrder
  <2> HIDE DEF files
  <2> QED
    BY <2>1
<1> HIDE DEF v, files
<1>3. /\ v \in Seq(Snippet) /\ Len(v) \in Nat /\ DOMAIN v = 1 .. Len(v)
      /\ \A i, j \in DOMAIN v : i # j => v[i].path # v[j].path
  BY <1>1 DEF ChosenOK
<1>4. Cardinality(paths) = Len(v)
  <2>1. at \in Surjection(DOMAIN v, paths)
    BY DEF Surjection
  <2>2. at \in Injection(DOMAIN v, paths)
    BY <1>3 DEF Injection, IsInjective
  <2>3. IsFiniteSet(DOMAIN v) /\ Cardinality(DOMAIN v) = Len(v)
    <3> DEFINE m == Len(v)
    <3> HIDE DEF m
    <3>1. m \in Nat /\ 1 \in Int /\ m \in Int
      BY <1>3 DEF m
    <3>2. IsFiniteSet(1 .. m) /\ Cardinality(1 .. m) = IF 1 > m THEN 0 ELSE m - 1 + 1
      BY <3>1, FS_Interval
    <3>3. IsFiniteSet(1 .. m) /\ Cardinality(1 .. m) = m
      BY <3>1, <3>2
    <3> QED
      BY <1>3, <3>3 DEF m
  <2> HIDE DEF at, paths
  <2> QED
    BY <2>1, <2>2, <2>3, FS_Surjection
<1>5. \A p : Shows(v, p) => p \in paths
  BY DEF Shows
<1>6. Len(v) < limit => \A i \in DOMAIN files : files[i][1] \in TextFiles => files[i][1] \in paths
  <2> HIDE DEF paths
  <2> QED
    BY <1>1, <1>2, <1>5 DEF ChosenOK
<1>7. WellChosen(v, limit, changed, hits)
  BY <1>1, <1>4, <1>6 DEF WellChosen, ChosenOK, Full, files
<1> QED
  BY <1>3, <1>7 DEF v

-------------------------------------------------------------------------------
(* The command. *)

CliSteps == {"recall", "pack", "search", "session", "messages", "repo", "render", "trim"} \cup Ended
Counts == [{"memory", "session", "search", "repo"} -> Nat]
FileLists == Seq(Shown)
SnippetLists == Seq(Snippet)
CliState == [at: CliSteps, session: Sessions \cup {Null}, repo: BOOLEAN, budget: Budget, markdown: Nat,
             limit: Nat, changed: FileLists, hits: FileLists, snippets: SnippetLists, length: Nat,
             counts: Counts]

CliOK(c) ==
    /\ c \in CliState
    /\ WellChosen(c.snippets, c.limit, c.changed, c.hits)
    /\ c.counts.memory # 0 => c.markdown >= Title

CliInv == cli # Null => CliOK(cli)

IInv == MessagesInv /\ ListingInv /\ PackInv /\ CliInv

\* What the steps of the command write.
LEMMA AtWritten ==
    ASSUME NEW c, CliOK(c), NEW a \in CliSteps, NEW n \in Nat
    PROVE  CliOK([c EXCEPT !.at = a]) /\ CliOK([c EXCEPT !.at = a, !.length = n])
<1>1. c \in CliState
  BY DEF CliOK
<1>2. ASSUME NEW d, d = [c EXCEPT !.at = a] \/ d = [c EXCEPT !.at = a, !.length = n]
      PROVE  CliOK(d)
  <2>1. d \in CliState
    BY <1>1, <1>2 DEF CliState
  <2>2. /\ d.snippets = c.snippets /\ d.limit = c.limit /\ d.changed = c.changed /\ d.hits = c.hits
        /\ d.counts = c.counts /\ d.markdown = c.markdown
    BY <1>1, <1>2 DEF CliState
  <2> QED
    BY <2>1, <2>2 DEF CliOK
<1> QED
  BY <1>2

LEMMA CountsWritten ==
    ASSUME NEW c, CliOK(c), NEW a \in CliSteps, NEW n \in Nat
    PROVE  /\ CliOK([c EXCEPT !.at = a, !.counts.search = n])
           /\ CliOK([c EXCEPT !.at = a, !.counts.session = n])
           /\ n >= Title => CliOK([c EXCEPT !.at = a, !.markdown = n, !.counts.memory = 1])
<1>1. c \in CliState /\ c.counts \in Counts
  BY DEF CliOK, CliState
<1> DEFINE searched == [c.counts EXCEPT !.search = n]
           talked == [c.counts EXCEPT !.session = n]
           recalled == [c.counts EXCEPT !.memory = 1]
           s == [c EXCEPT !.at = a, !.counts = searched]
           t == [c EXCEPT !.at = a, !.counts = talked]
           r == [c EXCEPT !.at = a, !.markdown = n, !.counts = recalled]
<1>2. searched \in Counts /\ talked \in Counts /\ recalled \in Counts
  BY <1>1 DEF Counts
<1>3. searched.memory = c.counts.memory /\ talked.memory = c.counts.memory
  BY <1>1 DEF Counts
<1> HIDE DEF searched, talked, recalled
<1>4. s \in CliState /\ t \in CliState /\ r \in CliState
  BY <1>1, <1>2 DEF CliState
<1>5. ASSUME NEW d \in {s, t, r}
      PROVE  d.snippets = c.snippets /\ d.limit = c.limit /\ d.changed = c.changed /\ d.hits = c.hits
  BY <1>1, <1>5 DEF CliState
<1>6. /\ s.counts = searched /\ t.counts = talked /\ s.markdown = c.markdown /\ t.markdown = c.markdown
      /\ r.markdown = n
  BY <1>1 DEF CliState
<1> HIDE DEF s, t, r
<1>7. CliOK(s) /\ CliOK(t) /\ (n >= Title => CliOK(r))
  BY <1>3, <1>4, <1>5, <1>6 DEF CliOK
<1> QED
  BY <1>7 DEF s, t, r, searched, talked, recalled

LEMMA StartKeepsCli ==
    ASSUME NEW memory \in BOOLEAN, NEW repo \in BOOLEAN, NEW session \in Sessions \cup {Null},
           NEW budget \in Budgets, StartContext(memory, session, repo, budget)
    PROVE  CliInv'
<1> DEFINE none == [memory |-> 0, session |-> 0, search |-> 0, repo |-> 0]
           c == [at |-> IF memory THEN "recall" ELSE "session",
                 session |-> session, repo |-> repo, budget |-> budget, markdown |-> 0,
                 limit |-> 0, changed |-> <<>>, hits |-> <<>>, snippets |-> <<>>, length |-> 0,
                 counts |-> none]
<1>1. cli' = c
  BY DEF StartContext
<1>2. none \in Counts /\ none.memory = 0
  BY DEF Counts
<1>3. <<>> \in FileLists /\ <<>> \in SnippetLists
  BY DEF FileLists, SnippetLists
<1>4. budget \in Budget
  BY PackAssumption
<1> HIDE DEF none
<1>5. c \in CliState
  <2>1. (IF memory THEN "recall" ELSE "session") \in CliSteps
    BY DEF CliSteps
  <2> QED
    BY <1>2, <1>3, <1>4, <2>1 DEF CliState
<1>6. WellChosen(<<>>, 0, <<>>, <<>>)
  <2>1. DOMAIN <<>> = {} /\ Len(<<>>) = 0
    OBVIOUS
  <2>2. Cardinality({<<>>[i].path : i \in DOMAIN <<>>}) = 0
    <3>1. {<<>>[i].path : i \in DOMAIN <<>>} = {}
      BY <2>1
    <3> QED
      BY <3>1, FS_EmptySet
  <2> QED
    BY <2>1, <2>2 DEF WellChosen
<1>7. CliOK(c)
  BY <1>2, <1>5, <1>6 DEF CliOK
<1> QED
  BY <1>1, <1>7 DEF CliInv

LEMMA PackKeepsInv ==
    ASSUME IInv, AskForPack \/ TakePack
    PROVE  PackInv' /\ CliInv'
<1>1. CASE AskForPack
  <2>1. CliOK(cli) /\ cli.budget \in Budget
    BY <1>1 DEF AskForPack, IInv, CliInv, CliOK, CliState
  <2>2. CliOK([cli EXCEPT !.at = "pack"])
    BY <2>1, AtWritten DEF CliSteps
  <2>3. PICK answer \in Answers : FormatPack(answer, cli.budget)
    BY <1>1 DEF AskForPack
  <2>4. PackInv'
    BY <2>1, <2>3, FormatKeepsPack
  <2>5. cli' = [cli EXCEPT !.at = "pack"]
    BY <1>1 DEF AskForPack
  <2> QED
    BY <2>2, <2>4, <2>5 DEF CliInv
<1>2. CASE TakePack
  <2>1. CliOK(cli)
    BY <1>2 DEF TakePack, IInv, CliInv
  <2>2. pack.length \in Nat /\ pack.length >= Title
    BY <1>2 DEF TakePack, Packed, IInv, PackInv, PackOK, PackState
  <2> DEFINE a == IF pack.answer = <<>> THEN "search" ELSE "session"
  <2>3. a \in CliSteps
    BY DEF CliSteps
  <2>4. cli' = [cli EXCEPT !.at = a, !.markdown = pack.length, !.counts.memory = 1]
    BY <1>2 DEF TakePack
  <2>5. PackInv'
    BY <1>2 DEF TakePack, PackInv
  <2> HIDE DEF a
  <2>6. CliOK([cli EXCEPT !.at = a, !.markdown = pack.length, !.counts.memory = 1])
    BY <2>1, <2>2, <2>3, CountsWritten
  <2> QED
    BY <2>4, <2>5, <2>6 DEF CliInv
<1> QED
  BY <1>1, <1>2

LEMMA PartsKeepInv ==
    ASSUME IInv, SearchInstead \/ AskForMessages \/ TakeMessages
    PROVE  MessagesInv' /\ ListingInv' /\ CliInv'
<1>1. CliOK(cli) /\ cli.session \in Sessions \cup {Null}
  BY DEF SearchInstead, AskForMessages, TakeMessages, IInv, CliInv, CliOK, CliState
<1>2. MessagesInv'
  <2>1. UNCHANGED <<sessions, message, writing, time>>
    BY DEF SearchInstead, AskForMessages, TakeMessages, BeginListing, conversationVars
  <2> QED
    BY <2>1, NothingWritten DEF IInv
<1>3. ASSUME UNCHANGED conversationVars PROVE ListingInv'
  <2>1. message \subseteq message' /\ listing' = listing
    BY <1>3 DEF conversationVars
  <2> QED
    BY <1>2, <2>1, CommitsKeepListing DEF IInv
<1>4. CASE SearchInstead
  <2>1. PICK n \in SearchItems : cli' = [cli EXCEPT !.at = "session", !.counts.search = n]
    BY <1>4 DEF SearchInstead
  <2>2. n \in Nat /\ "session" \in CliSteps
    BY UnifiedAssumption DEF CliSteps
  <2>3. CliOK([cli EXCEPT !.at = "session", !.counts.search = n])
    BY <1>1, <2>2, CountsWritten
  <2> QED
    BY <1>2, <1>3, <1>4, <2>1, <2>3 DEF SearchInstead, CliInv
<1>5. CASE AskForMessages
  <2>1. CliOK([cli EXCEPT !.at = "repo"]) /\ CliOK([cli EXCEPT !.at = "messages"])
    BY <1>1, AtWritten DEF CliSteps
  <2>2. CliInv'
    BY <1>5, <2>1 DEF AskForMessages, CliInv
  <2>3. CASE cli.session = Null
    BY <1>2, <1>3, <1>5, <2>2, <2>3 DEF AskForMessages
  <2>4. CASE cli.session # Null
    <3>1. PICK limit \in ListLimits : BeginListing(cli.session, limit)
      BY <1>5, <2>4 DEF AskForMessages
    <3>2. ListingInv'
      BY <1>1, <2>4, <3>1, BeginKeepsListing DEF IInv
    <3> QED
      BY <1>2, <2>2, <3>2
  <2> QED
    BY <2>3, <2>4
<1>6. CASE TakeMessages
  <2>1. Len(listing.items) \in Nat
    <3>1. listing \in ListingState
      BY <1>6 DEF TakeMessages, Listed, IInv, ListingInv, ListingOK
    <3>2. listing.items \in Seq(MessageRow)
      BY <3>1 DEF ListingState
    <3> QED
      BY <3>2
  <2>2. CliOK([cli EXCEPT !.at = "repo", !.counts.session = Len(listing.items)])
    <3>1. "repo" \in CliSteps
      BY DEF CliSteps
    <3> QED
      BY <1>1, <2>1, <3>1, CountsWritten
  <2>3. ListingInv'
    BY <1>6 DEF TakeMessages, ListingInv
  <2> QED
    BY <1>2, <1>6, <2>2, <2>3 DEF TakeMessages, CliInv
<1> QED
  BY <1>4, <1>5, <1>6

LEMMA CollectKeepsCli ==
    ASSUME IInv, CollectRepo
    PROVE  CliInv'
<1>1. CliOK(cli) /\ cli \in CliState
  BY DEF CollectRepo, IInv, CliInv, CliOK
<1>2. CASE ~cli.repo
  <2>1. CliOK([cli EXCEPT !.at = "render"])
    BY <1>1, AtWritten DEF CliSteps
  <2> QED
    BY <1>2, <2>1 DEF CollectRepo, CliInv
<1>3. CASE cli.repo
  <2>1. PICK status \in Changes, lines \in Hits, limit \in SnippetLimits :
        \E hits \in QueryHits(lines) :
          LET changed == ChangedFiles(status)
              snippets == Snippets(changed, hits, limit) IN
          cli' = [cli EXCEPT !.at = "render", !.snippets = snippets, !.limit = limit,
                             !.changed = changed, !.hits = hits,
                             !.counts.repo = IF snippets = <<>> THEN 1 ELSE Len(snippets)]
    BY <1>3 DEF CollectRepo
  <2>2. PICK hits \in QueryHits(lines) :
          LET changed == ChangedFiles(status)
              snippets == Snippets(changed, hits, limit) IN
          cli' = [cli EXCEPT !.at = "render", !.snippets = snippets, !.limit = limit,
                             !.changed = changed, !.hits = hits,
                             !.counts.repo = IF snippets = <<>> THEN 1 ELSE Len(snippets)]
    BY <2>1
  <2> DEFINE changed == ChangedFiles(status)
             snippets == Snippets(changed, hits, limit)
             size == IF snippets = <<>> THEN 1 ELSE Len(snippets)
             counts == [cli.counts EXCEPT !.repo = size]
             c == [cli EXCEPT !.at = "render", !.snippets = snippets, !.limit = limit,
                              !.changed = changed, !.hits = hits, !.counts = counts]
  <2>3. changed \in Seq(Shown) /\ hits \in Seq(Shown) /\ limit \in Nat
    BY UnifiedAssumption, NotExcludedType, QueryHitsType DEF ChangedFiles
  <2>4. cli' = c
    BY <2>2
  <2> HIDE DEF changed
  <2>5. snippets \in Seq(Snippet) /\ WellChosen(snippets, limit, changed, hits)
    BY <2>3, SnippetsWellChosen
  <2> HIDE DEF snippets
  <2>6. size \in Nat
    BY <2>5
  <2> HIDE DEF size
  <2>7. cli.counts \in Counts
    BY <1>1 DEF CliState
  <2>8. counts \in Counts /\ counts.memory = cli.counts.memory
    BY <2>6, <2>7 DEF Counts
  <2> HIDE DEF counts
  <2>9. c \in CliState
    <3>1. "render" \in CliSteps /\ changed \in FileLists /\ hits \in FileLists /\ snippets \in SnippetLists
      BY <2>3, <2>5 DEF CliSteps, FileLists, SnippetLists
    <3> QED
      BY <1>1, <2>3, <2>8, <3>1 DEF CliState
  <2>10. /\ c.snippets = snippets /\ c.limit = limit /\ c.changed = changed /\ c.hits = hits
         /\ c.counts = counts /\ c.markdown = cli.markdown
    BY <1>1 DEF CliState
  <2> HIDE DEF c
  <2>11. CliOK(c)
    BY <1>1, <2>5, <2>8, <2>9, <2>10 DEF CliOK
  <2> QED
    BY <2>4, <2>11 DEF CliInv
<1> QED
  BY <1>2, <1>3

LEMMA UnifiedLengthType == ASSUME CliOK(cli) PROVE UnifiedLength \in Nat
<1>1. /\ cli.counts \in Counts /\ cli.snippets \in SnippetLists /\ cli.markdown \in Nat
      /\ cli.counts.memory # 0 => cli.markdown >= Title
  BY DEF CliOK, CliState
<1>2. cli.counts.session \in Nat /\ cli.counts.search \in Nat
  BY <1>1 DEF Counts
<1>3. Len(cli.snippets) \in Nat
  BY <1>1 DEF SnippetLists
<1> DEFINE packed == IF cli.counts.memory = 0 THEN 0 ELSE cli.markdown - Title
           talked == cli.counts.session * MessageLength
           found == cli.counts.search * SearchLength
           shown == Len(cli.snippets) * SnippetLength
<1>4. packed \in Nat
  BY <1>1 DEF Title
<1>5. talked \in Nat /\ found \in Nat /\ shown \in Nat
  BY <1>2, <1>3 DEF MessageLength, SearchLength, SnippetLength
<1>6. UnifiedLength = Rest + talked + packed + found + shown
  BY DEF UnifiedLength
<1> HIDE DEF packed, talked, found, shown
<1> QED
  BY <1>4, <1>5, <1>6, UnifiedAssumption

LEMMA RenderKeepsCli ==
    ASSUME IInv, RenderContext \/ TrimContext \/ FailContext
    PROVE  CliInv'
<1>1. CliOK(cli) /\ cli.length \in Nat
  BY DEF RenderContext, TrimContext, FailContext, IInv, CliInv, CliOK, CliState
<1>2. ASSUME NEW n \in Nat, cli' = AfterRender(n) PROVE CliOK(cli)'
  <2> DEFINE a == IF OverBudget(n, cli.budget) THEN "trim" ELSE Result
  <2>1. a \in CliSteps
    BY DEF Result, CliSteps, Ended
  <2>2. cli' = [cli EXCEPT !.at = a, !.length = n]
    BY <1>2 DEF AfterRender
  <2> HIDE DEF a
  <2>3. CliOK([cli EXCEPT !.at = a, !.length = n])
    BY <1>1, <2>1, AtWritten
  <2> QED
    BY <2>2, <2>3
<1>3. UnifiedLength \in Nat /\ Trimmed(cli.length) \in Nat
  BY <1>1, UnifiedLengthType, TrimmedType
<1>4. CliOK([cli EXCEPT !.at = "failed"])
  BY <1>1, AtWritten DEF CliSteps, Ended
<1>5. CASE RenderContext
  BY <1>2, <1>3, <1>5 DEF RenderContext, CliInv
<1>6. CASE TrimContext
  BY <1>2, <1>3, <1>6 DEF TrimContext, CliInv
<1>7. CASE FailContext
  BY <1>4, <1>7 DEF FailContext, CliInv
<1> QED
  BY <1>5, <1>6, <1>7

-------------------------------------------------------------------------------
(* The theorems. *)

LEMMA InitInv == ASSUME Init PROVE IInv
<1>1. MessagesInv
  <2>1. Open = {}
    BY DEF Init, ConversationInit, Open
  <2> QED
    BY <2>1, ConversationAssumption DEF Init, ConversationInit, MessagesInv
<1> QED
  BY <1>1 DEF Init, ConversationInit, PackInit, IInv, ListingInv, PackInv, CliInv

LEMMA ConversationUntouched ==
    ASSUME IInv, UNCHANGED conversationVars
    PROVE  MessagesInv' /\ ListingInv'
<1>1. UNCHANGED <<sessions, message, writing, time>> /\ message \subseteq message' /\ listing' = listing
  BY DEF conversationVars
<1> QED
  BY <1>1, NothingWritten, CommitsKeepListing DEF IInv

LEMMA ContextStepKeepsInv == ASSUME IInv, ContextStep PROVE IInv'
<1>1. CASE AskForPack \/ TakePack
  <2>1. UNCHANGED conversationVars
    BY <1>1 DEF AskForPack, TakePack
  <2> QED
    BY <1>1, <2>1, PackKeepsInv, ConversationUntouched DEF IInv
<1>2. CASE SearchInstead \/ AskForMessages \/ TakeMessages
  <2>1. PackInv'
    BY <1>2 DEF SearchInstead, AskForMessages, TakeMessages, IInv, PackInv
  <2> QED
    BY <1>2, <2>1, PartsKeepInv DEF IInv
<1>3. CASE CollectRepo \/ RenderContext \/ TrimContext \/ FailContext
  <2>1. UNCHANGED conversationVars /\ pack' = pack
    BY <1>3 DEF CollectRepo, RenderContext, TrimContext, FailContext
  <2>2. PackInv'
    BY <2>1 DEF IInv, PackInv
  <2> QED
    BY <1>3, <2>1, <2>2, CollectKeepsCli, RenderKeepsCli, ConversationUntouched DEF IInv
<1> QED
  BY <1>1, <1>2, <1>3 DEF ContextStep

LEMMA NextKeepsInv == ASSUME IInv, [Next]_vars PROVE IInv'
<1>1. CASE (WriteNext \/ ListingStep) /\ UNCHANGED <<pack, cli>>
  <2>1. MessagesInv' /\ ListingInv'
    BY <1>1, WriteKeepsMessages, CommitsKeepListing, ListingStepKeeps DEF IInv
  <2> QED
    BY <1>1, <2>1 DEF IInv, PackInv, CliInv
<1>2. CASE PackStep /\ UNCHANGED <<conversationVars, cli>>
  <2>1. PackInv' /\ MessagesInv' /\ ListingInv'
    BY <1>2, PackStepKeepsPack, ConversationUntouched DEF IInv
  <2> QED
    BY <1>2, <2>1 DEF IInv, CliInv
<1>3. ASSUME NEW memory \in BOOLEAN, NEW repo \in BOOLEAN, NEW session \in Sessions \cup {Null},
             NEW budget \in Budgets, StartContext(memory, session, repo, budget)
      PROVE  IInv'
  <2>1. UNCHANGED conversationVars /\ pack' = pack
    BY <1>3 DEF StartContext
  <2> QED
    BY <1>3, <2>1, StartKeepsCli, ConversationUntouched DEF IInv, PackInv
<1>4. CASE UNCHANGED vars
  <2>1. UNCHANGED conversationVars /\ pack' = pack /\ cli' = cli
    BY <1>4 DEF vars
  <2> QED
    BY <2>1, ConversationUntouched DEF IInv, PackInv, CliInv
<1> QED
  BY <1>1, <1>2, <1>3, <1>4, ContextStepKeepsInv DEF Next

\* The inductive invariant: the types, the rows of the conversation, the prefix of the ranking
\* that is being fitted, and the snippets chosen.
THEOREM Invariance == Spec => []IInv
BY InitInv, NextKeepsInv, PTL DEF Spec

\* Every variable has its type, whatever the command and the writers do.
THEOREM TypeCorrect == Spec => []TypeOK
<1>1. IInv => TypeOK
  <2> SUFFICES ASSUME IInv PROVE TypeOK
    OBVIOUS
  <2>1. ConversationTypeOK /\ PackTypeOK
    BY ConversationShows, PackInvShows DEF IInv
  <2>2. ASSUME cli # Null
        PROVE  /\ cli.at \in {"recall", "pack", "search", "session", "messages", "repo", "render",
                              "trim"} \cup Ended
               /\ cli.length \in Nat
               /\ cli.counts \in [{"memory", "session", "search", "repo"} -> Nat]
    BY <2>2 DEF IInv, CliInv, CliOK, CliState, CliSteps, Counts
  <2> QED
    BY <2>1, <2>2 DEF TypeOK
<1> QED
  BY <1>1, Invariance, PTL

\* list_messages: no reply before the message it answers, no message left out that was stored
\* before and is as recent as one shown, and no fewer than the total promises.
THEOREM MessagesInOrder == Spec => []RecentInOrder
<1>1. IInv => RecentInOrder
  BY ConversationShows DEF IInv
<1> QED
  BY <1>1, Invariance, PTL

\* format_context_pack: the best memories, as many as fit whole, for answers of any length.
THEOREM LargestPackShown == Spec => []LargestFittingPack
<1>1. IInv => LargestFittingPack
  BY PackInvShows DEF IInv
<1> QED
  BY <1>1, Invariance, PTL

\* select_snippets: changed files first, none twice, none left out while there is room, for
\* any number of changed files and search results.
THEOREM SnippetsStayChosen == Spec => []SnippetsChosen
<1>1. IInv => SnippetsChosen
  BY DEF IInv, CliInv, CliOK, WellChosen, SnippetsChosen
<1> QED
  BY <1>1, Invariance, PTL

===============================================================================
