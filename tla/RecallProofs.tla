----------------------------- MODULE RecallProofs -----------------------------
(***************************************************************************)
(* Proofs about Recall and Search: whatever policies, memories, documents  *)
(* and vectors do between the statements of a recall, for any query.       *)
(***************************************************************************)
EXTENDS Recall, GraphProjectionProofs, FiniteSetTheorems,
        WellFoundedInduction, TLAPS

-------------------------------------------------------------------------------
(* Induction over the numbers, for sets of numbers instead of predicates. *)

LEMMA Least ==
    ASSUME NEW S, S \subseteq Nat, S # {}
    PROVE  \E x \in S : \A y \in S : x <= y
<1>1. PICK x \in S : \A y \in S : ~(<<y, x>> \in OpToRel(<, Nat))
  BY NatLessThanWellFounded, WFMin
<1>2. \A y \in S : ~(y < x)
  BY <1>1 DEF OpToRel
<1> QED
  BY <1>2

LEMMA UpTo ==
    ASSUME NEW N \in Nat, NEW S, 0 \in S, \A n \in 1 .. N : n - 1 \in S => n \in S
    PROVE  N \in S
<1> SUFFICES ASSUME N \notin S PROVE FALSE
  OBVIOUS
<1> DEFINE Rest == {k \in 0 .. N : k \notin S}
<1>1. PICK x \in Rest : \A y \in Rest : x <= y
  <2>1. Rest \subseteq Nat /\ Rest # {}
    OBVIOUS
  <2> HIDE DEF Rest
  <2> QED
    BY <2>1, Least
<1>2. x # 0 /\ x \in 1 .. N /\ x \notin S
  OBVIOUS
<1>3. x - 1 \in 0 .. N /\ x - 1 \notin Rest
  BY <1>1, <1>2
<1> QED
  BY <1>2, <1>3

\* The functions given by recursion along the numbers: step n takes the value before it.
Solutions(N, V, base, F) ==
    {f \in [0 .. N -> V] : f[0] = base /\ \A n \in 1 .. N : f[n] = F[n][f[n - 1]]}

LEMMA Recursion ==
    ASSUME NEW N \in Nat, NEW V, NEW base \in V, NEW F \in [1 .. N -> [V -> V]]
    PROVE  Solutions(N, V, base, F) # {}
<1> DEFINE S == {k \in 0 .. N : Solutions(k, V, base, F) # {}}
<1>1. 0 \in S
  <2>1. [n \in 0 .. 0 |-> base] \in Solutions(0, V, base, F)
    BY DEF Solutions
  <2> QED
    BY <2>1
<1>2. \A k \in 1 .. N : k - 1 \in S => k \in S
  <2> SUFFICES ASSUME NEW k \in 1 .. N, Solutions(k - 1, V, base, F) # {}
               PROVE  Solutions(k, V, base, F) # {}
    OBVIOUS
  <2>1. PICK f \in Solutions(k - 1, V, base, F) : TRUE
    OBVIOUS
  <2> DEFINE g == [n \in 0 .. k |-> IF n = k THEN F[k][f[k - 1]] ELSE f[n]]
  <2>2. f \in [0 .. k - 1 -> V]
    BY <2>1 DEF Solutions
  <2>3. F[k][f[k - 1]] \in V
    BY <2>2
  <2>4. g \in [0 .. k -> V]
    BY <2>2, <2>3
  <2>5. g[0] = base /\ \A n \in 1 .. k : g[n] = F[n][g[n - 1]]
    <3>1. f[0] = base /\ \A n \in 1 .. k - 1 : f[n] = F[n][f[n - 1]]
      BY <2>1 DEF Solutions
    <3>2. g[0] = base
      BY <3>1
    <3>3. ASSUME NEW n \in 1 .. k PROVE g[n] = F[n][g[n - 1]]
      <4>1. n \in 0 .. k /\ n - 1 \in 0 .. k /\ n - 1 # k
        OBVIOUS
      <4>2. g[n - 1] = f[n - 1]
        BY <4>1
      <4>3. CASE n = k
        BY <4>2, <4>3
      <4>4. CASE n # k
        <5>1. n \in 1 .. k - 1 /\ g[n] = f[n]
          BY <4>4
        <5> QED
          BY <3>1, <4>2, <5>1
      <4> QED
        BY <4>3, <4>4
    <3> QED
      BY <3>2, <3>3
  <2>6. g \in Solutions(k, V, base, F)
    BY <2>4, <2>5 DEF Solutions
  <2> QED
    BY <2>6
<1>3. N \in S
  <2> HIDE DEF S
  <2> QED
    BY <1>1, <1>2, UpTo
<1> QED
  BY <1>3

-------------------------------------------------------------------------------
(* Rows and their rankings. *)

LEMMA RowsFinite == \A rows \in SUBSET Row : IsFiniteSet(rows) /\ Cardinality(rows) \in Nat
<1> DEFINE T == ((Memories \X Grounds) \X (0 .. 200)) \X BOOLEAN
           h == [r \in Row |-> <<<<<<r.memory, r.via>>, r.score>>, r.vector>>]
<1>1. IsFiniteSet(Grounds)
  <2>1. Grounds = {"evidence"} \cup {"text"} \cup {"vector"} \cup {"chunk_vector"}
    BY DEF Grounds
  <2>2. IsFiniteSet({"evidence"} \cup {"text"})
    BY FS_Singleton, FS_Union
  <2>3. IsFiniteSet(({"evidence"} \cup {"text"}) \cup {"vector"})
    BY <2>2, FS_Singleton, FS_Union
  <2> QED
    BY <2>1, <2>3, FS_Singleton, FS_Union
<1>2. IsFiniteSet(BOOLEAN)
  <2>1. BOOLEAN = {TRUE} \cup {FALSE}
    OBVIOUS
  <2>2. IsFiniteSet({TRUE}) /\ IsFiniteSet({FALSE})
    BY FS_Singleton
  <2> QED
    BY <2>1, <2>2, FS_Union
<1>3. IsFiniteSet(T)
  <2>1. IsFiniteSet(0 .. 200)
    <3>1. 0 \in Int /\ 200 \in Int
      OBVIOUS
    <3> QED
      BY <3>1, FS_Interval
  <2>2. IsFiniteSet(Memories \X Grounds)
    BY <1>1, RecallAssumption, FS_Product
  <2>3. IsFiniteSet((Memories \X Grounds) \X (0 .. 200))
    BY <2>1, <2>2, FS_Product
  <2> QED
    BY <1>2, <2>3, FS_Product
<1>4. h \in Injection(Row, T)
  BY DEF Injection, IsInjective, Row
<1>5. IsFiniteSet(Row)
  <2> HIDE DEF h, T
  <2> QED
    BY <1>3, <1>4, FS_Injection
<1> QED
  BY <1>5, FS_Subset, FS_CardinalityType

\* The rows in an order: each once, none behind a row it is ahead of.
Ranked(q, rows, keyword) ==
    /\ q \in Seq(Row) /\ Len(q) = Cardinality(rows)
    /\ \A i \in DOMAIN q : q[i] \in rows
    /\ \A r \in rows : \E i \in DOMAIN q : q[i] = r
    /\ \A i, j \in DOMAIN q : i < j => q[i] # q[j] /\ ~Ahead(keyword, q[j], q[i])

LEMMA RankingsRank ==
    ASSUME NEW rows \in SUBSET Row, NEW keyword, NEW q \in Rankings(rows, keyword)
    PROVE  Ranked(q, rows, keyword)
<1> DEFINE n == Cardinality(rows)
<1>1. n \in Nat /\ IsFiniteSet(rows)
  BY RowsFinite
<1>2. /\ q \in [1 .. n -> rows]
      /\ \A i, j \in 1 .. n : i < j => q[i] # q[j] /\ ~Ahead(keyword, q[j], q[i])
  BY DEF Rankings
<1>3. IsFiniteSet(1 .. n) /\ Cardinality(1 .. n) = n
  <2> HIDE DEF n
  <2>1. 1 \in Int /\ n \in Int
    BY <1>1
  <2>2. IsFiniteSet(1 .. n) /\ Cardinality(1 .. n) = IF 1 > n THEN 0 ELSE n - 1 + 1
    BY <2>1, FS_Interval
  <2> QED
    BY <1>1, <2>2
<1>4. q \in Injection(1 .. n, rows)
  <2> HIDE DEF n
  <2>1. \A i, j \in 1 .. n : q[i] = q[j] => i = j
    <3> TAKE i, j \in 1 .. n
    <3>1. i < j \/ j < i \/ i = j
      BY <1>1
    <3> QED
      BY <1>2, <3>1
  <2> QED
    BY <1>2, <2>1 DEF Injection, IsInjective
<1>5. q \in Surjection(1 .. n, rows)
  BY <1>1, <1>3, <1>4, FS_Injection
<1> HIDE DEF n
<1>6. q \in Seq(Row) /\ Len(q) = n /\ DOMAIN q = 1 .. n
  BY <1>1, <1>2
<1>7. \A r \in rows : \E i \in 1 .. n : q[i] = r
  BY <1>5 DEF Surjection
<1> QED
  BY <1>2, <1>6, <1>7 DEF Ranked, n

LEMMA FirstRows ==
    ASSUME NEW q \in Seq(Row)
    PROVE  /\ FirstOf(q) \in Seq(Row)
           /\ Len(FirstOf(q)) = IF Len(q) < Limit THEN Len(q) ELSE Limit
           /\ \A i \in DOMAIN FirstOf(q) : i \in DOMAIN q /\ FirstOf(q)[i] = q[i]
           /\ Len(q) <= Limit => FirstOf(q) = q
<1> DEFINE n == IF Len(q) < Limit THEN Len(q) ELSE Limit
<1>1. n \in 0 .. Len(q) /\ Len(q) \in Nat /\ Limit \in Nat
  BY RecallAssumption
<1>2. /\ SubSeq(q, 1, n) \in Seq(Row) /\ Len(SubSeq(q, 1, n)) = n
      /\ \A i \in 1 .. n : SubSeq(q, 1, n)[i] = q[i]
  <2> HIDE DEF n
  <2> QED
    BY <1>1
<1>3. FirstOf(q) = SubSeq(q, 1, n)
  BY DEF FirstOf
<1>4. Len(q) <= Limit => n = Len(q)
  BY <1>1
<1>5. Len(q) <= Limit => FirstOf(q) = q
  <2> HIDE DEF n
  <2> QED
    BY <1>1, <1>2, <1>3, <1>4
<1> QED
  BY <1>1, <1>2, <1>3, <1>5
-------------------------------------------------------------------------------
(* FirstOfEach, of the first n rows. *)

Distinct(rows, n) == \A i, j \in 1 .. n : rows[i].memory = rows[j].memory => i = j

Firsts(q, rows, n) ==
    /\ q \in Seq(Row) /\ Len(q) <= n
    /\ Distinct(q, Len(q))
    /\ \A k \in DOMAIN q : \E i \in 1 .. n : q[k] = rows[i]
    /\ \A i \in 1 .. n : \E k \in DOMAIN q : q[k].memory = rows[i].memory
    /\ Distinct(rows, n) => Len(q) = n /\ \A i \in 1 .. n : q[i] = rows[i]
    /\ Len(q) = n => Distinct(rows, n)

Repeated(rows, i) == \E j \in 1 .. i - 1 : rows[j].memory = rows[i].memory
KeptRow(q, rows, i) == IF Repeated(rows, i) THEN q ELSE Append(q, rows[i])

LEMMA KeptRowIsFirst ==
    ASSUME NEW rows \in Seq(Row), NEW n \in 1 .. Len(rows), NEW q, Firsts(q, rows, n - 1)
    PROVE  Firsts(KeptRow(q, rows, n), rows, n)
<1> DEFINE more == Append(q, rows[n])
<1>1. q \in Seq(Row) /\ Len(q) \in Nat /\ Len(q) <= n - 1 /\ n \in Nat /\ n >= 1
  BY DEF Firsts
<1>2. CASE Repeated(rows, n)
  <2>1. PICK j \in 1 .. n - 1 : rows[j].memory = rows[n].memory
    BY <1>2 DEF Repeated
  <2>2. j \in 1 .. n /\ n \in 1 .. n /\ j # n
    BY <1>1
  <2>3. ~Distinct(rows, n)
    BY <2>1, <2>2 DEF Distinct
  <2>4. Len(q) <= n /\ Len(q) # n
    BY <1>1
  <2>5. \A k \in DOMAIN q : \E i \in 1 .. n : q[k] = rows[i]
    <3>1. 1 .. n - 1 \subseteq 1 .. n
      BY <1>1
    <3> QED
      BY <3>1 DEF Firsts
  <2>6. \A i \in 1 .. n : \E k \in DOMAIN q : q[k].memory = rows[i].memory
    <3> TAKE i \in 1 .. n
    <3>1. i \in 1 .. n - 1 \/ i = n
      BY <1>1
    <3> QED
      BY <2>1, <3>1 DEF Firsts
  <2>7. Firsts(q, rows, n)
    BY <2>3, <2>4, <2>5, <2>6 DEF Firsts
  <2> QED
    BY <1>2, <2>7 DEF KeptRow
<1>3. CASE ~Repeated(rows, n)
  <2>1. rows[n] \in Row
    OBVIOUS
  <2>2. /\ more \in Seq(Row) /\ Len(more) = Len(q) + 1 /\ more[Len(q) + 1] = rows[n]
        /\ \A k \in 1 .. Len(q) : more[k] = q[k]
    BY <1>1, <2>1
  <2>3. KeptRow(q, rows, n) = more
    BY <1>3 DEF KeptRow
  <2> HIDE DEF more
  <2>4. \A k \in DOMAIN more : k = Len(q) + 1 \/ (k \in DOMAIN q /\ more[k] = q[k])
    BY <1>1, <2>2
  <2>5. /\ Len(more) <= n /\ n \in 1 .. n /\ 1 .. n - 1 \subseteq 1 .. n
        /\ Len(q) + 1 \in DOMAIN more /\ DOMAIN q \subseteq DOMAIN more
    BY <1>1, <2>2
  <2>6. \A k \in DOMAIN q : q[k].memory # rows[n].memory
    BY <1>3 DEF Firsts, Repeated
  <2>7. Distinct(more, Len(more))
    <3> SUFFICES ASSUME NEW i \in DOMAIN more, NEW j \in DOMAIN more,
                        more[i].memory = more[j].memory
                 PROVE  i = j
      BY <2>2 DEF Distinct
    <3>1. CASE i = Len(q) + 1 /\ j = Len(q) + 1
      BY <3>1
    <3>2. CASE i = Len(q) + 1 /\ j # Len(q) + 1
      BY <2>2, <2>4, <2>6, <3>2
    <3>3. CASE i # Len(q) + 1 /\ j = Len(q) + 1
      BY <2>2, <2>4, <2>6, <3>3
    <3>4. CASE i # Len(q) + 1 /\ j # Len(q) + 1
      <4>1. i \in 1 .. Len(q) /\ j \in 1 .. Len(q) /\ q[i].memory = q[j].memory
        BY <2>4, <3>4, <1>1
      <4> QED
        BY <4>1 DEF Firsts, Distinct
    <3> QED
      BY <3>1, <3>2, <3>3, <3>4
  <2>8. \A k \in DOMAIN more : \E i \in 1 .. n : more[k] = rows[i]
    <3> TAKE k \in DOMAIN more
    <3>1. CASE k = Len(q) + 1
      BY <2>2, <2>5, <3>1
    <3>2. CASE k # Len(q) + 1
      <4>1. PICK i \in 1 .. n - 1 : q[k] = rows[i]
        BY <2>4, <3>2 DEF Firsts
      <4> QED
        BY <2>4, <2>5, <3>2, <4>1
    <3> QED
      BY <3>1, <3>2
  <2>9. \A i \in 1 .. n : \E k \in DOMAIN more : more[k].memory = rows[i].memory
    <3> TAKE i \in 1 .. n
    <3>1. i \in 1 .. n - 1 \/ i = n
      BY <1>1
    <3>2. CASE i = n
      BY <2>2, <2>5, <3>2
    <3>3. CASE i \in 1 .. n - 1
      <4>1. PICK k \in DOMAIN q : q[k].memory = rows[i].memory
        BY <3>3 DEF Firsts
      <4>2. more[k] = q[k] /\ k \in DOMAIN more
        BY <1>1, <2>2, <2>5
      <4> QED
        BY <4>1, <4>2
    <3> QED
      BY <3>1, <3>2, <3>3
  <2>10. Distinct(rows, n) => Len(more) = n /\ \A i \in 1 .. n : more[i] = rows[i]
    <3> SUFFICES ASSUME Distinct(rows, n)
                 PROVE  Len(more) = n /\ \A i \in 1 .. n : more[i] = rows[i]
      OBVIOUS
    <3>1. Distinct(rows, n - 1)
      BY <2>5 DEF Distinct
    <3>2. Len(q) = n - 1 /\ \A i \in 1 .. n - 1 : q[i] = rows[i]
      BY <3>1 DEF Firsts
    <3>3. \A i \in 1 .. n : i = n \/ i \in 1 .. n - 1
      BY <1>1
    <3> QED
      BY <1>1, <2>2, <3>2, <3>3
  <2>11. Len(more) = n => Distinct(rows, n)
    <3> SUFFICES ASSUME Len(more) = n, NEW i \in 1 .. n, NEW j \in 1 .. n,
                        rows[i].memory = rows[j].memory
                 PROVE  i = j
      BY DEF Distinct
    <3>1. Len(q) = n - 1
      BY <1>1, <2>2
    <3>2. \A a, b \in 1 .. n - 1 : rows[a].memory = rows[b].memory => a = b
      BY <3>1 DEF Firsts, Distinct
    <3>3. \A a \in 1 .. n : a = n \/ a \in 1 .. n - 1
      BY <1>1
    <3>4. \A a \in 1 .. n - 1 : rows[a].memory # rows[n].memory
      BY <1>3 DEF Repeated
    <3> QED
      BY <3>2, <3>3, <3>4
  <2> QED
    BY <2>2, <2>3, <2>5, <2>7, <2>8, <2>9, <2>10, <2>11 DEF Firsts
<1> QED
  BY <1>2, <1>3

LEMMA FirstOfEachFirsts ==
    ASSUME NEW rows \in Seq(Row)
    PROVE  Firsts(FirstOfEach(rows), rows, Len(rows))
<1> DEFINE L == Len(rows)
           V == Seq(Row)
           Step(q, n) == IF n = 0 THEN <<>>
                         ELSE IF \E j \in 1 .. n - 1 : rows[j].memory = rows[n].memory
                              THEN q[n - 1] ELSE Append(q[n - 1], rows[n])
           F == [n \in 1 .. L |-> [v \in V |-> KeptRow(v, rows, n)]]
           h == CHOOSE q : q = [n \in 0 .. L |-> Step(q, n)]
<1>1. \A n \in 1 .. L : rows[n] \in Row
  OBVIOUS
<1>2. F \in [1 .. L -> [V -> V]] /\ <<>> \in V /\ L \in Nat
  <2>1. \A n \in 1 .. L : \A v \in V : KeptRow(v, rows, n) \in V
    BY <1>1 DEF KeptRow
  <2> QED
    BY <2>1
<1>3. PICK f : f \in Solutions(L, V, <<>>, F)
  <2> HIDE DEF F, V, L
  <2>1. Solutions(L, V, <<>>, F) # {}
    BY <1>2, Recursion
  <2> QED
    BY <2>1
<1>4. f \in [0 .. L -> V] /\ f[0] = <<>> /\ \A n \in 1 .. L : f[n] = F[n][f[n - 1]]
  BY <1>3 DEF Solutions
<1>5. \A n \in 1 .. L : f[n] = KeptRow(f[n - 1], rows, n)
  <2> TAKE n \in 1 .. L
  <2>1. n - 1 \in 0 .. L
    OBVIOUS
  <2>2. f[n - 1] \in V
    <3> HIDE DEF V, F
    <3> QED
      BY <1>4, <2>1
  <2>3. F[n][f[n - 1]] = KeptRow(f[n - 1], rows, n)
    <3> HIDE DEF V
    <3> QED
      BY <2>2
  <2> HIDE DEF F
  <2> QED
    BY <1>4, <2>3
<1>6. f = [n \in 0 .. L |-> Step(f, n)]
  <2>1. \A n \in 0 .. L : f[n] = Step(f, n)
    <3> TAKE n \in 0 .. L
    <3>1. n = 0 \/ n \in 1 .. L
      OBVIOUS
    <3> HIDE DEF F
    <3> QED
      BY <1>4, <1>5, <3>1 DEF KeptRow, Repeated
  <2> HIDE DEF F, Step, V
  <2> QED
    BY <1>4, <2>1
<1>7. h = [n \in 0 .. L |-> Step(h, n)]
  <2> HIDE DEF Step
  <2> QED
    BY <1>6
<1>8. FirstOfEach(rows) = h[L]
  BY DEF FirstOfEach
<1> HIDE DEF h
<1>9. h[0] = <<>> /\ \A n \in 1 .. L : h[n] = KeptRow(h[n - 1], rows, n)
  <2>1. h[0] = Step(h, 0)
    <3>1. 0 \in 0 .. L
      OBVIOUS
    <3> HIDE DEF Step
    <3> QED
      BY <1>7, <3>1
  <2>2. \A n \in 1 .. L : h[n] = Step(h, n) /\ n # 0
    <3> TAKE n \in 1 .. L
    <3>1. n \in 0 .. L /\ n # 0
      OBVIOUS
    <3> HIDE DEF Step
    <3> QED
      BY <1>7, <3>1
  <2> QED
    BY <2>1, <2>2 DEF KeptRow, Repeated
<1> DEFINE S == {n \in Nat : n <= L => Firsts(h[n], rows, n)}
<1>10. 0 \in S
  <2>1. Firsts(<<>>, rows, 0)
    <3>1. <<>> \in Seq(Row) /\ DOMAIN <<>> = {} /\ Len(<<>>) = 0 /\ 1 .. 0 = {}
      OBVIOUS
    <3> QED
      BY <3>1 DEF Firsts, Distinct
  <2> QED
    BY <1>9, <2>1
<1>11. \A n \in 1 .. L : n - 1 \in S => n \in S
  <2> SUFFICES ASSUME NEW n \in 1 .. L, Firsts(h[n - 1], rows, n - 1)
               PROVE  Firsts(h[n], rows, n)
    OBVIOUS
  <2>1. Firsts(KeptRow(h[n - 1], rows, n), rows, n)
    BY KeptRowIsFirst
  <2> QED
    BY <1>9, <2>1
<1>12. L \in S
  <2> HIDE DEF S, L
  <2> QED
    BY <1>2, <1>10, <1>11, UpTo
<1> QED
  BY <1>8, <1>12
-------------------------------------------------------------------------------
(* An order that leaves no choice, and rows of two kinds. *)

LEMMA Increasing ==
    ASSUME NEW n \in Nat, NEW p \in [1 .. n -> 1 .. n],
           \A i, j \in 1 .. n : i < j => p[i] < p[j]
    PROVE  \A i \in 1 .. n : p[i] = i
<1> TAKE i \in 1 .. n
<1>1. p[i] >= i
  <2> DEFINE S == {k \in 0 .. n : k = 0 \/ p[k] >= k}
  <2>1. 0 \in S
    OBVIOUS
  <2>2. \A k \in 1 .. i : k - 1 \in S => k \in S
    <3> SUFFICES ASSUME NEW k \in 1 .. i, k - 1 = 0 \/ p[k - 1] >= k - 1
                 PROVE  p[k] >= k
      OBVIOUS
    <3>1. k \in 1 .. n /\ p[k] \in 1 .. n
      OBVIOUS
    <3>2. CASE k - 1 = 0
      BY <3>1, <3>2
    <3>3. CASE k - 1 # 0
      <4>1. k - 1 \in 1 .. n /\ p[k - 1] \in 1 .. n
        BY <3>3
      <4> QED
        BY <3>1, <3>3, <4>1
    <3> QED
      BY <3>2, <3>3
  <2>3. i \in S
    <3> HIDE DEF S
    <3> QED
      BY <2>1, <2>2, UpTo
  <2> QED
    BY <2>3
<1>2. p[i] <= i
  <2> DEFINE S == {k \in 0 .. n - 1 : p[n - k] <= n - k}
  <2>1. 0 \in S
    OBVIOUS
  <2>2. \A k \in 1 .. n - i : k - 1 \in S => k \in S
    <3> SUFFICES ASSUME NEW k \in 1 .. n - i, p[n - (k - 1)] <= n - (k - 1)
                 PROVE  p[n - k] <= n - k
      OBVIOUS
    <3>1. n - k \in 1 .. n /\ n - (k - 1) \in 1 .. n /\ n - k < n - (k - 1)
      OBVIOUS
    <3>2. p[n - k] \in 1 .. n /\ p[n - (k - 1)] \in 1 .. n /\ p[n - k] < p[n - (k - 1)]
      BY <3>1
    <3> QED
      BY <3>1, <3>2
  <2>3. n - i \in Nat /\ n - (n - i) = i
    OBVIOUS
  <2>4. n - i \in S
    <3> HIDE DEF S
    <3> QED
      BY <2>1, <2>2, <2>3, UpTo
  <2> QED
    BY <2>3, <2>4
<1>3. p[i] \in Nat
  OBVIOUS
<1> QED
  BY <1>1, <1>2, <1>3

Sorted(rows) ==
    \A i, j \in DOMAIN rows : i < j => rows[i] # rows[j] /\ ~Above(rows[j], rows[i])

LEMMA AboveIsStrict ==
    \A r, s \in Row : ~(Above(r, s) /\ Above(s, r))
<1> SUFFICES ASSUME NEW r \in Row, NEW s \in Row PROVE ~(Above(r, s) /\ Above(s, r))
  OBVIOUS
<1>1. /\ r.score \in Int /\ s.score \in Int
      /\ Importance[r.memory] \in Int /\ Importance[s.memory] \in Int
  BY RecallAssumption DEF Row
<1> QED
  BY <1>1 DEF Above

\* Rows of different memories are ranked by sorted() as the keyword query ranked them.
LEMMA RankedAsBefore ==
    ASSUME NEW rows \in Seq(Row), Sorted(rows), Distinct(rows, Len(rows)),
           NEW q, Ranked(q, {rows[i] : i \in DOMAIN rows}, rows)
    PROVE  q = rows
<1> DEFINE n == Len(rows)
           T == {rows[i] : i \in DOMAIN rows}
           p == [i \in 1 .. n |-> CHOOSE k \in 1 .. n : rows[k] = q[i]]
<1>1. n \in Nat /\ DOMAIN rows = 1 .. n /\ \A i \in 1 .. n : rows[i] \in Row
  OBVIOUS
<1>2. \A i, j \in 1 .. n : rows[i] = rows[j] => i = j
  BY DEF Distinct
<1>3. Cardinality(T) = n
  <2>1. rows \in Surjection(1 .. n, T) /\ rows \in Injection(1 .. n, T)
    <3>1. rows \in [1 .. n -> T] /\ \A r \in T : \E i \in 1 .. n : rows[i] = r
      BY <1>1
    <3> QED
      BY <1>2, <3>1 DEF Surjection, Injection, IsInjective
  <2>2. IsFiniteSet(1 .. n) /\ Cardinality(1 .. n) = n
    <3> HIDE DEF n
    <3>1. 1 \in Int /\ n \in Int
      BY <1>1
    <3>2. IsFiniteSet(1 .. n) /\ Cardinality(1 .. n) = IF 1 > n THEN 0 ELSE n - 1 + 1
      BY <3>1, FS_Interval
    <3> QED
      BY <1>1, <3>2
  <2> HIDE DEF n, T
  <2> QED
    BY <2>1, <2>2, FS_Surjection
<1>4. q \in Seq(Row) /\ Len(q) = n /\ DOMAIN q = 1 .. n /\ \A i \in 1 .. n : q[i] \in T
  <2>1. Ranked(q, T, rows)
    OBVIOUS
  <2> HIDE DEF T, n
  <2>2. q \in Seq(Row) /\ Len(q) = n /\ \A i \in DOMAIN q : q[i] \in T
    BY <1>3, <2>1 DEF Ranked
  <2> QED
    BY <2>2
<1>5. \A i \in 1 .. n : p[i] \in 1 .. n /\ rows[p[i]] = q[i]
  <2> TAKE i \in 1 .. n
  <2>1. \E k \in 1 .. n : rows[k] = q[i]
    BY <1>1, <1>4
  <2> QED
    BY <2>1
<1>6. \A i, j \in 1 .. n : i < j => Ahead(rows, rows[i], rows[j])
  <2> SUFFICES ASSUME NEW i \in 1 .. n, NEW j \in 1 .. n, i < j
               PROVE  Ahead(rows, rows[i], rows[j])
    OBVIOUS
  <2>1. ~Above(rows[j], rows[i])
    BY <1>1 DEF Sorted
  <2>2. Earlier(rows, rows[i], rows[j])
    <3>1. \A k \in 1 .. i : rows[k].memory # rows[j].memory
      <4> TAKE k \in 1 .. i
      <4>1. k \in 1 .. n /\ k # j
        BY <1>1
      <4> QED
        BY <4>1 DEF Distinct
    <3> QED
      BY <1>1, <3>1 DEF Earlier
  <2> QED
    BY <2>1, <2>2 DEF Ahead
<1>7. \A i, j \in 1 .. n : i < j => p[i] < p[j]
  <2> SUFFICES ASSUME NEW i \in 1 .. n, NEW j \in 1 .. n, i < j, ~(p[i] < p[j])
               PROVE  FALSE
    OBVIOUS
  <2>1. q[i] # q[j] /\ ~Ahead(rows, q[j], q[i])
    BY <1>4 DEF Ranked
  <2>2. p[i] \in 1 .. n /\ p[j] \in 1 .. n /\ rows[p[i]] = q[i] /\ rows[p[j]] = q[j]
    BY <1>5
  <2> HIDE DEF p
  <2>3. p[i] # p[j]
    BY <2>1, <2>2
  <2>4. p[j] < p[i]
    BY <1>1, <2>2, <2>3
  <2> QED
    BY <1>6, <2>1, <2>2, <2>4
<1>8. p \in [1 .. n -> 1 .. n]
  BY <1>5
<1>9. \A i \in 1 .. n : p[i] = i
  <2> HIDE DEF p, n
  <2> QED
    BY <1>1, <1>7, <1>8, Increasing
<1>10. \A i \in 1 .. n : q[i] = rows[i]
  BY <1>5, <1>9
<1> HIDE DEF n
<1> QED
  BY <1>1, <1>4, <1>10 DEF n

\* A keyword query finds a memory twice at most.
LEMMA HalfOfRows ==
    ASSUME NEW rows \in Seq(Row), NEW q, Firsts(q, rows, Len(rows)),
           \A i \in DOMAIN rows : rows[i].via \in {"evidence", "text"},
           \A i, j \in DOMAIN rows :
              rows[i].memory = rows[j].memory /\ rows[i].via = rows[j].via => i = j
    PROVE  Len(rows) <= 2 * Len(q)
<1> DEFINE n == Len(rows)
           m == Len(q)
           T == (1 .. m) \X {"evidence", "text"}
           at(i) == CHOOSE k \in 1 .. m : q[k].memory = rows[i].memory
           h == [i \in 1 .. n |-> <<at(i), rows[i].via>>]
<1>1. n \in Nat /\ m \in Nat /\ DOMAIN rows = 1 .. n /\ DOMAIN q = 1 .. m
  BY DEF Firsts
<1>2. \A i \in 1 .. n : at(i) \in 1 .. m /\ q[at(i)].memory = rows[i].memory
  <2> TAKE i \in 1 .. n
  <2>1. \E k \in 1 .. m : q[k].memory = rows[i].memory
    BY <1>1 DEF Firsts
  <2> QED
    BY <2>1
<1> HIDE DEF at
<1>3. h \in Injection(1 .. n, T)
  <2>1. h \in [1 .. n -> T]
    BY <1>1, <1>2
  <2>2. \A i, j \in 1 .. n : h[i] = h[j] => i = j
    <3> SUFFICES ASSUME NEW i \in 1 .. n, NEW j \in 1 .. n, h[i] = h[j] PROVE i = j
      OBVIOUS
    <3>1. at(i) = at(j) /\ rows[i].via = rows[j].via
      OBVIOUS
    <3>2. rows[i].memory = rows[j].memory
      BY <1>2, <3>1
    <3> QED
      BY <1>1, <3>1, <3>2
  <2> HIDE DEF h, T
  <2> QED
    BY <2>1, <2>2 DEF Injection, IsInjective
<1> HIDE DEF h, n, m
<1>4. \A k \in Nat : IsFiniteSet(1 .. k) /\ Cardinality(1 .. k) = k
  <2> TAKE k \in Nat
  <2>1. 1 \in Int /\ k \in Int
    OBVIOUS
  <2>2. IsFiniteSet(1 .. k) /\ Cardinality(1 .. k) = IF 1 > k THEN 0 ELSE k - 1 + 1
    BY <2>1, FS_Interval
  <2> QED
    BY <2>2
<1>5. IsFiniteSet({"evidence", "text"}) /\ Cardinality({"evidence", "text"}) = 2
  <2>1. IsFiniteSet({"evidence"}) /\ Cardinality({"evidence"}) = 1
    BY FS_Singleton
  <2>2. IsFiniteSet({"evidence"} \cup {"text"}) /\ Cardinality({"evidence"} \cup {"text"}) = 1 + 1
    <3>1. "text" \notin {"evidence"}
      OBVIOUS
    <3> HIDE DEF T
    <3> QED
      BY ONLY <2>1, <3>1, FS_AddElement
  <2>3. {"evidence", "text"} = {"evidence"} \cup {"text"}
    OBVIOUS
  <2> QED
    BY <2>2, <2>3
<1>6. IsFiniteSet(T) /\ Cardinality(T) = m * 2
  <2> DEFINE K == {"evidence", "text"}
  <2>1. IsFiniteSet(1 .. m) /\ Cardinality(1 .. m) = m
    BY <1>1, <1>4
  <2> HIDE DEF K
  <2>2. /\ IsFiniteSet((1 .. m) \X K)
        /\ Cardinality((1 .. m) \X K) = Cardinality(1 .. m) * Cardinality(K)
    BY <1>5, <2>1, FS_Product DEF K
  <2> QED
    BY <1>5, <2>1, <2>2 DEF K
<1>7. Cardinality(1 .. n) <= Cardinality(T)
  <2> HIDE DEF T
  <2> QED
    BY <1>3, <1>6, FS_Injection
<1>8. n <= m * 2
  BY <1>1, <1>4, <1>6, <1>7
<1> QED
  BY <1>1, <1>8 DEF n, m
-------------------------------------------------------------------------------
(* The inductive invariant. *)

\* What a row rests on could be seen during the recall.
RowSeen(m) ==
    IF recall.agent # Null THEN <<recall.agent, m>> \in seen.agents
    ELSE recall.status = "active" => m \in seen.anyone

RowGrounded(r) ==
    r.via \in {"evidence", "chunk_vector"} => EvidenceOf(r.memory) \cap seen.chunks # {}

Good(r) == RowSeen(r.memory) /\ RowGrounded(r)

RowsGood ==
    recall # Null =>
        /\ \A i \in DOMAIN recall.rows : Good(recall.rows[i])
        /\ \A r \in recall.merged : Good(r)

\* The keyword rows are ranked, and none of them has a vector.
KeywordRanked ==
    recall # Null =>
        /\ Len(recall.keyword) <= Limit
        /\ Sorted(recall.keyword)
        /\ \A i \in DOMAIN recall.keyword : ~recall.keyword[i].vector

\* Without a row with a vector the rows are the keyword rows, merged.
NoVectorsYet ==
    recall # Null /\ recall.at \in {"memory_vectors", "chunk_vectors"} =>
        /\ recall.mode # "keyword"
        /\ (\A r \in recall.merged : ~r.vector) => recall.merged = LastOfEach(recall.keyword)

\* What the rows of an answer are before those of one memory are merged.
KeywordReady ==
    /\ \/ Len(recall.rows) = Limit
       \/ recall.matches \subseteq {recall.rows[i].memory : i \in DOMAIN recall.rows}
    /\ \A i \in DOMAIN recall.rows : recall.rows[i].via \in {"evidence", "text"}
    /\ \A i, j \in DOMAIN recall.rows :
          recall.rows[i].memory = recall.rows[j].memory /\ recall.rows[i].via = recall.rows[j].via
              => i = j

FallbackReady == Ranked(recall.rows, LastOfEach(recall.keyword), recall.keyword)

AnswerReady ==
    recall # Null /\ recall.at = "answer" =>
        /\ Len(recall.rows) <= Limit
        /\ recall.mode = "keyword" => KeywordReady
        /\ recall.mode = "hybrid" /\ recall.effective = "keyword" => FallbackReady

\* What a search answers.
FoundSeen ==
    found # Null => \A i \in DOMAIN found.items :
        CASE found.items[i][1] = "memory" ->
                IF found.agent # Null THEN MaySee(found.agent, found.items[i][2])
                ELSE AdmittedWithoutAgent(found.items[i][2])
          [] found.items[i][1] = "chunk" -> found.items[i][2] \in ActiveChunks
          [] found.items[i][1] = "source" -> document[found.items[i][2]] = "active"

FoundType ==
    found # Null => found.agent \in Agents \cup {Null} /\ found.items \in Seq(Items)

RecallInv ==
    /\ VisibilityInv
    /\ TypeOK
    /\ RowsGood
    /\ KeywordRanked
    /\ NoVectorsYet
    /\ AnswerReady
    /\ FoundSeen
    /\ AnswersHalfTheLimit
    /\ FallbackRanksAsKeyword

\* The parts about the recall in flight.
FlightInv ==
    /\ recall \in RecallRow \cup {Null}
    /\ recallLog \in LogRow \cup {Null}
    /\ seen \in SeenRow
    /\ RowsGood
    /\ KeywordRanked
    /\ NoVectorsYet
    /\ AnswerReady
    /\ AnswersHalfTheLimit
    /\ FallbackRanksAsKeyword

-------------------------------------------------------------------------------
(* What is remembered of what could be seen. *)

LEMMA SeenType == Seen \in SeenRow
BY DEF Seen, SeenRow, ActiveChunks

LEMMA SeenTypeNext == Seen' \in SeenRow
BY DEF Seen, SeenRow, ActiveChunks

LEMMA ObserveType ==
    ASSUME seen \in SeenRow, Observe
    PROVE  seen' \in SeenRow
<1>1. CASE recall' = Null \/ Answered
  BY <1>1 DEF Observe, NothingSeen, SeenRow
<1>2. CASE recall' # Null /\ ~Answered
  <2> DEFINE all(f) == seen[f] \cup Seen[f] \cup Seen'[f]
             new == [f \in DOMAIN seen |-> all(f)]
  <2>1. seen' = new
    BY <1>2 DEF Observe
  <2>2. DOMAIN seen = {"agents", "anyone", "chunks"}
    BY DEF SeenRow
  <2>3. new = [agents |-> new.agents, anyone |-> new.anyone, chunks |-> new.chunks]
    <3> HIDE DEF all
    <3> QED
      BY <2>2
  <2>4. /\ new.agents = seen.agents \cup Seen.agents \cup Seen'.agents
        /\ new.anyone = seen.anyone \cup Seen.anyone \cup Seen'.anyone
        /\ new.chunks = seen.chunks \cup Seen.chunks \cup Seen'.chunks
    BY <2>2
  <2> HIDE DEF new
  <2>5. new \in SeenRow
    BY <2>3, <2>4, SeenType, SeenTypeNext DEF SeenRow
  <2> QED
    BY <2>1, <2>5
<1> QED
  BY <1>1, <1>2

\* While a recall runs nothing that was seen is forgotten, and what a statement sees is added.
LEMMA ObserveGrows ==
    ASSUME seen \in SeenRow, Observe, recall' # Null
    PROVE  /\ seen.agents \subseteq seen'.agents
           /\ seen.anyone \subseteq seen'.anyone
           /\ seen.chunks \subseteq seen'.chunks
           /\ ~Answered => /\ Seen.agents \subseteq seen'.agents
                           /\ Seen.anyone \subseteq seen'.anyone
                           /\ Seen.chunks \subseteq seen'.chunks
<1>1. CASE Answered
  BY <1>1 DEF Observe
<1>2. CASE ~Answered
  <2>1. seen' = [f \in DOMAIN seen |-> seen[f] \cup Seen[f] \cup Seen'[f]]
    BY <1>2 DEF Observe
  <2>2. DOMAIN seen = {"agents", "anyone", "chunks"}
    BY DEF SeenRow
  <2> QED
    BY <2>1, <2>2
<1> QED
  BY <1>1, <1>2

\* A row stays good as long as its recall runs, and a row a statement finds is good.
LEMMA GoodStays ==
    ASSUME seen \in SeenRow, Observe, recall # Null, recall' # Null,
           recall'.agent = recall.agent, recall'.status = recall.status
    PROVE  \A r : Good(r) => Good(r)'
<1> TAKE r
<1> QED
  BY ObserveGrows DEF Good, RowSeen, RowGrounded

LEMMA WhereIsSeen ==
    ASSUME recall \in RecallRow, NEW m \in Memories, Where(m)
    PROVE  IF recall.agent # Null THEN <<recall.agent, m>> \in Seen.agents
           ELSE recall.status = "active" => m \in Seen.anyone
<1>1. CASE recall.agent # Null
  <2>1. recall.agent \in Agents /\ AgentVisible(recall.agent, m)
    BY <1>1 DEF RecallRow, Where
  <2>2. MaySee(recall.agent, m)
    BY <2>1, VisibleIsPermitted
  <2> QED
    BY <1>1, <2>1, <2>2 DEF Seen
<1>2. CASE recall.agent = Null
  BY <1>2 DEF Where, Seen, AdmittedWithoutAgent
<1> QED
  BY <1>1, <1>2

LEMMA FoundIsGood ==
    ASSUME recall \in RecallRow, seen \in SeenRow, Observe, ~Answered, recall' # Null,
           recall'.agent = recall.agent, recall'.status = recall.status,
           NEW r, r.memory \in Found,
           r.via \in {"evidence", "chunk_vector"} => EvidenceOf(r.memory) \cap ActiveChunks # {}
    PROVE  Good(r)'
<1>1. r.memory \in Memories /\ Where(r.memory)
  BY DEF Found
<1>2. IF recall.agent # Null THEN <<recall.agent, r.memory>> \in Seen.agents
      ELSE recall.status = "active" => r.memory \in Seen.anyone
  BY <1>1, WhereIsSeen
<1>3. RowSeen(r.memory)'
  BY <1>2, ObserveGrows DEF RowSeen
<1>4. Seen.chunks = ActiveChunks
  BY DEF Seen
<1>5. RowGrounded(r)'
  BY <1>4, ObserveGrows DEF RowGrounded
<1> QED
  BY <1>3, <1>5 DEF Good
-------------------------------------------------------------------------------
(* The rows the statements find. *)

LEMMA MatchRowsFacts ==
    /\ MatchRows \in SUBSET Row
    /\ \A r \in MatchRows :
          /\ ~r.vector /\ r.via \in {"evidence", "text"} /\ r.memory \in Found
          /\ r.via \in {"evidence", "chunk_vector"}
                => EvidenceOf(r.memory) \cap ActiveChunks # {}
    /\ \A r, s \in MatchRows : r.memory = s.memory /\ r.via = s.via => r = s
<1>1. \A m \in Memories : Importance[m] \in 1 .. 5
  BY RecallAssumption
<1> DEFINE E(m) == [memory |-> m, via |-> "evidence", score |-> 25 + 20 + 10 * Importance[m],
                    vector |-> FALSE]
           T(m) == [memory |-> m, via |-> "text", score |-> 15 + 10 * Importance[m],
                    vector |-> FALSE]
<1>2. \A r \in MatchRows : \E m \in Found :
         r = T(m) \/ (r = E(m) /\ EvidenceOf(m) \cap MatchedChunks # {})
  BY DEF MatchRows, EvidenceRows, TextRows
<1>3. Found \subseteq Memories
  BY DEF Found
<1>4. \A r \in MatchRows : r \in Row
  <2> SUFFICES ASSUME NEW m \in Memories PROVE T(m) \in Row /\ E(m) \in Row
    BY <1>2, <1>3
  <2>1. 25 + 20 + 10 * Importance[m] \in 0 .. 200 /\ 15 + 10 * Importance[m] \in 0 .. 200
    BY <1>1
  <2> QED
    BY <2>1 DEF Row, Grounds
<1>5. \A r \in MatchRows : ~r.vector /\ r.via \in {"evidence", "text"} /\ r.memory \in Found
  BY <1>2
<1>6. \A r \in MatchRows : r.via \in {"evidence", "chunk_vector"}
                              => EvidenceOf(r.memory) \cap ActiveChunks # {}
  BY <1>2 DEF MatchedChunks
<1>7. \A r, s \in MatchRows : r.memory = s.memory /\ r.via = s.via => r = s
  <2> SUFFICES ASSUME NEW r \in MatchRows, NEW s \in MatchRows, r.memory = s.memory, r.via = s.via
               PROVE  r = s
    OBVIOUS
  <2>1. PICK m \in Found, n \in Found : r \in {T(m), E(m)} /\ s \in {T(n), E(n)}
    BY <1>2
  <2>2. \A k : T(k).memory = k /\ E(k).memory = k /\ T(k).via = "text" /\ E(k).via = "evidence"
    OBVIOUS
  <2>3. m = n
    <3> HIDE DEF T, E
    <3> QED
      BY <2>1, <2>2
  <2> HIDE DEF T, E
  <2> QED
    BY <2>1, <2>2, <2>3
<1> QED
  BY <1>4, <1>5, <1>6, <1>7

\* What a vector query may add to the merged rows.
Candidates(candidates) ==
    \A c \in candidates :
        /\ c \in Row /\ c.vector /\ c.memory \in Found
        /\ c.via \in {"evidence", "chunk_vector"}
              => EvidenceOf(c.memory) \cap ActiveChunks # {}

LEMMA CandidateTyped ==
    ASSUME NEW m \in Memories, NEW via \in {"vector", "chunk_vector"}, NEW bonus \in {0, 20}
    PROVE  /\ Candidate(m, via, bonus) \in Row
           /\ Candidate(m, via, bonus).memory = m
           /\ Candidate(m, via, bonus).via = via
           /\ Candidate(m, via, bonus).vector
<1>1. Importance[m] \in 1 .. 5 /\ TextKeywordScore(m) \in {0, 15}
  BY RecallAssumption DEF TextKeywordScore
<1>2. TextKeywordScore(m) + 45 + 10 + bonus + 10 * Importance[m] \in 0 .. 200
  BY <1>1
<1> QED
  BY <1>2 DEF Candidate, Row, Grounds

LEMMA MemoryCandidatesFacts ==
    ASSUME NEW vectors \in SUBSET FoundMemoryVectors
    PROVE  Candidates(MemoryCandidates(vectors))
<1> SUFFICES ASSUME NEW v \in vectors,
                    NEW c, c = Candidate(v.memory, "vector",
                                         IF EvidenceOf(v.memory) = {} THEN 0 ELSE 20)
             PROVE  /\ c \in Row /\ c.vector /\ c.memory \in Found /\ c.via = "vector"
  BY DEF Candidates, MemoryCandidates
<1>1. v.memory \in Found /\ v.memory \in Memories
  BY DEF FoundMemoryVectors, Found
<1> DEFINE bonus == IF EvidenceOf(v.memory) = {} THEN 0 ELSE 20
<1>2. bonus \in {0, 20} /\ c = Candidate(v.memory, "vector", bonus)
  OBVIOUS
<1> HIDE DEF bonus
<1> QED
  BY <1>1, <1>2, CandidateTyped

LEMMA ChunkCandidatesFacts ==
    ASSUME NEW vectors \in SUBSET FoundChunkVectors
    PROVE  Candidates(ChunkCandidates(vectors))
<1> SUFFICES ASSUME NEW e \in vectors, NEW c, c = Candidate(e[1], "chunk_vector", 20)
             PROVE  /\ c \in Row /\ c.vector /\ c.memory \in Found
                    /\ EvidenceOf(c.memory) \cap ActiveChunks # {}
  BY DEF Candidates, ChunkCandidates
<1>1. /\ e \in Evidence /\ e[1] \in Found /\ e[1] \in Memories
      /\ e[2] \in ActiveChunks /\ e[2] \in Chunks /\ e = <<e[1], e[2]>>
  BY RecallAssumption DEF FoundChunkVectors, Found
<1>2. e[2] \in EvidenceOf(e[1])
  BY <1>1 DEF EvidenceOf
<1> QED
  BY <1>1, <1>2, CandidateTyped

\* A merge keeps memories and grounds, and a candidate always leaves a row with a vector.
LEMMA MergedFacts ==
    ASSUME NEW rows \in SUBSET Row, NEW candidates, Candidates(candidates)
    PROVE  /\ Merged(rows, candidates) \in SUBSET Row
           /\ \A r \in Merged(rows, candidates) :
                 \E s \in rows \cup candidates : r.memory = s.memory /\ r.via = s.via
           /\ (\A r \in Merged(rows, candidates) : ~r.vector)
                 => Merged(rows, candidates) = rows /\ \A r \in rows : ~r.vector
<1> DEFINE better == {c \in candidates : \A r \in rows : r.memory = c.memory => r.score < c.score}
           kept == {r \in rows : \A c \in better : c.memory # r.memory}
           Near(r) == \E c \in candidates : c.memory = r.memory
           Marked(r) == [r EXCEPT !.vector = @ \/ Near(r)]
<1>1. Merged(rows, candidates) = better \cup {Marked(r) : r \in kept}
  BY DEF Merged
<1>2. \A c \in candidates : c \in Row /\ c.vector
  BY DEF Candidates
<1> HIDE DEF Near
<1>3. ASSUME NEW r \in Row
      PROVE  /\ Marked(r) \in Row /\ Marked(r).memory = r.memory /\ Marked(r).via = r.via
             /\ Marked(r).vector = (r.vector \/ Near(r))
             /\ ~Near(r) => Marked(r) = r
  <2>1. r = [memory |-> r.memory, via |-> r.via, score |-> r.score, vector |-> r.vector]
    BY DEF Row
  <2>2. r.vector \in BOOLEAN /\ r.memory \in Memories /\ r.via \in Grounds /\ r.score \in 0 .. 200
    BY DEF Row
  <2>3. (r.vector \/ Near(r)) \in BOOLEAN
    OBVIOUS
  <2>4. Marked(r) = [memory |-> r.memory, via |-> r.via, score |-> r.score,
                     vector |-> r.vector \/ Near(r)]
    BY <2>1
  <2>5. ~Near(r) => (r.vector \/ Near(r)) = r.vector
    BY <2>2
  <2> DEFINE v == r.vector \/ Near(r)
  <2> HIDE DEF Marked, v
  <2>6. Marked(r) = [memory |-> r.memory, via |-> r.via, score |-> r.score, vector |-> v]
        /\ v \in BOOLEAN /\ (~Near(r) => v = r.vector)
    BY <2>3, <2>4, <2>5 DEF v
  <2>7. Marked(r) \in Row /\ Marked(r).vector = v
        /\ Marked(r).memory = r.memory /\ Marked(r).via = r.via
    BY <2>2, <2>6 DEF Row
  <2>8. ~Near(r) => Marked(r) = r
    BY <2>1, <2>6
  <2> QED
    BY <2>7, <2>8 DEF v
<1> HIDE DEF Marked
<1>4. Merged(rows, candidates) \in SUBSET Row
  BY <1>1, <1>2, <1>3
<1>5. \A r \in Merged(rows, candidates) :
         \E s \in rows \cup candidates : r.memory = s.memory /\ r.via = s.via
  BY <1>1, <1>3
<1>6. ASSUME \A r \in Merged(rows, candidates) : ~r.vector
      PROVE  Merged(rows, candidates) = rows /\ \A r \in rows : ~r.vector
  <2>1. better = {}
    BY <1>1, <1>2, <1>6
  <2>2. kept = rows
    BY <2>1
  <2>3. candidates = {}
    <3> SUFFICES ASSUME NEW c \in candidates PROVE FALSE
      OBVIOUS
    <3>1. PICK r \in rows : r.memory = c.memory
      BY <2>1
    <3>2. Near(r)
      BY <3>1 DEF Near
    <3>3. Marked(r).vector /\ Marked(r) \in Merged(rows, candidates)
      BY <1>1, <1>3, <2>2, <3>2
    <3> QED
      BY <1>6, <3>3
  <2>4. \A r \in rows : Marked(r) = r
    BY <1>3, <2>3 DEF Near
  <2>5. Merged(rows, candidates) = rows
    BY <1>1, <2>1, <2>2, <2>4
  <2> QED
    BY <1>6, <2>5
<1> QED
  BY <1>4, <1>5, <1>6

\* LastOfEach keeps one row of every memory.
LEMMA LastOfEachFacts ==
    ASSUME NEW rows \in Seq(Row)
    PROVE  /\ LastOfEach(rows) \in SUBSET Row
           /\ \A r \in LastOfEach(rows) : \E i \in DOMAIN rows : r = rows[i]
           /\ \A r, s \in LastOfEach(rows) : r.memory = s.memory => r = s
           /\ \A i \in DOMAIN rows : \E r \in LastOfEach(rows) : r.memory = rows[i].memory
           /\ Distinct(rows, Len(rows)) => LastOfEach(rows) = {rows[i] : i \in DOMAIN rows}
           /\ Cardinality(LastOfEach(rows)) <= Len(rows)
<1> DEFINE n == Len(rows)
           last == {j \in 1 .. n : \A k \in 1 .. n : k > j => rows[k].memory # rows[j].memory}
<1>1. n \in Nat /\ DOMAIN rows = 1 .. n /\ \A i \in 1 .. n : rows[i] \in Row
  OBVIOUS
<1>2. LastOfEach(rows) = {rows[j] : j \in last}
  BY DEF LastOfEach
<1>3. last \subseteq 1 .. n
  OBVIOUS
<1>4. \A r, s \in LastOfEach(rows) : r.memory = s.memory => r = s
  <2> SUFFICES ASSUME NEW i \in last, NEW j \in last, rows[i].memory = rows[j].memory
               PROVE  i = j
    BY <1>2
  <2>1. ~(i > j) /\ ~(j > i) /\ i \in Nat /\ j \in Nat
    BY <1>1
  <2> QED
    BY <2>1
<1>5. \A i \in 1 .. n : \E r \in LastOfEach(rows) : r.memory = rows[i].memory
  <2> TAKE i \in 1 .. n
  <2> DEFINE S == {k \in Nat : k <= n /\ \E j \in 1 .. n : j = n - k /\ rows[j].memory = rows[i].memory}
  <2>1. S \subseteq Nat /\ n - i \in S
    BY <1>1
  <2>2. PICK k \in S : \A l \in S : k <= l
    <3> HIDE DEF S
    <3> QED
      BY <2>1, Least
  <2>3. n - k \in 1 .. n /\ rows[n - k].memory = rows[i].memory
    OBVIOUS
  <2>4. \A j \in 1 .. n : j > n - k => rows[j].memory # rows[i].memory
    <3> SUFFICES ASSUME NEW j \in 1 .. n, j > n - k, rows[j].memory = rows[i].memory
                 PROVE  FALSE
      OBVIOUS
    <3> HIDE DEF n
    <3>1. n - j \in Nat /\ n - j <= n /\ j = n - (n - j)
      BY <1>1
    <3>2. n - j \in S
      BY <3>1
    <3>3. k \in Nat
      OBVIOUS
    <3>4. n - j < k
      BY <1>1, <3>3
    <3> HIDE DEF S
    <3> QED
      BY <2>2, <3>1, <3>2, <3>3, <3>4
  <2>5. n - k \in last
    BY <2>3, <2>4
  <2> QED
    BY <1>2, <2>3, <2>5
<1>6. Distinct(rows, n) => LastOfEach(rows) = {rows[i] : i \in DOMAIN rows}
  <2> SUFFICES ASSUME Distinct(rows, n) PROVE last = 1 .. n
    BY <1>1, <1>2
  <2> QED
    BY <1>1 DEF Distinct
<1>7. Cardinality(LastOfEach(rows)) <= n
  <2>1. IsFiniteSet(1 .. n) /\ Cardinality(1 .. n) = n
    <3> HIDE DEF n
    <3>1. 1 \in Int /\ n \in Int
      BY <1>1
    <3>2. IsFiniteSet(1 .. n) /\ Cardinality(1 .. n) = IF 1 > n THEN 0 ELSE n - 1 + 1
      BY <3>1, FS_Interval
    <3> QED
      BY <1>1, <3>2
  <2>2. IsFiniteSet(last) /\ Cardinality(last) <= n /\ Cardinality(last) \in Nat
    <3> HIDE DEF last, n
    <3> QED
      BY <1>3, <2>1, FS_Subset, FS_CardinalityType
  <2> DEFINE f == [j \in last |-> rows[j]]
  <2>3. f \in Surjection(last, LastOfEach(rows))
    <3>1. f \in [last -> LastOfEach(rows)] /\ \A r \in LastOfEach(rows) : \E j \in last : f[j] = r
      BY <1>2
    <3> HIDE DEF f, last
    <3> QED
      BY <3>1 DEF Surjection
  <2>4. /\ IsFiniteSet(LastOfEach(rows))
        /\ Cardinality(LastOfEach(rows)) <= Cardinality(last)
    <3> HIDE DEF f, last
    <3> QED
      BY <2>2, <2>3, FS_Surjection
  <2>5. Cardinality(LastOfEach(rows)) \in Nat
    BY <2>4, FS_CardinalityType
  <2> HIDE DEF last, n
  <2> QED
    BY <1>1, <2>2, <2>4, <2>5
<1>8. /\ \A r \in LastOfEach(rows) : \E i \in DOMAIN rows : r = rows[i]
      /\ LastOfEach(rows) \in SUBSET Row
  BY <1>1, <1>2, <1>3
<1> HIDE DEF n, last
<1> QED
  BY <1>1, <1>4, <1>5, <1>6, <1>7, <1>8 DEF n
-------------------------------------------------------------------------------
(* The statements of a recall, one lemma each. *)

\* The columns of a recall.
LEMMA RecallFields ==
    ASSUME NEW r \in RecallRow
    PROVE  /\ r = [at |-> r.at, agent |-> r.agent, status |-> r.status, mode |-> r.mode,
                   effective |-> r.effective, keyword |-> r.keyword, rows |-> r.rows,
                   merged |-> r.merged, matches |-> r.matches]
           /\ r.at \in {"keyword", "memory_vectors", "chunk_vectors", "answer", "answered"}
           /\ r.agent \in Agents \cup {Null} /\ r.status \in {"active", Null}
           /\ r.mode \in Modes /\ r.effective \in Modes
           /\ r.keyword \in Seq(Row) /\ r.rows \in Seq(Row)
           /\ r.merged \in SUBSET Row /\ r.matches \in SUBSET Memories
           /\ r # Null
BY RecallNullAssumption DEF RecallRow

\* What the statements write to the columns of a recall.
KeywordQueriedRow(r, at, rows, merged, matches) ==
    [r EXCEPT !.at = at, !.rows = rows, !.keyword = rows,
                                !.merged = merged, !.matches = matches]
VectorsMergedRow(r, merged) ==
    [r EXCEPT !.at = "chunk_vectors", !.merged = merged]
RowsRankedRow(r, merged, rows, effective) ==
    [r EXCEPT !.at = "answer", !.merged = merged, !.rows = rows,
                                !.effective = effective]
RecallAnsweredRow(r, rows) ==
    [r EXCEPT !.at = "answered", !.rows = rows]

LEMMA KeywordColumns ==
    ASSUME NEW r \in RecallRow, NEW at \in {"answer", "memory_vectors"}, NEW rows \in Seq(Row),
           NEW merged \in SUBSET Row, NEW matches \in SUBSET Memories
    PROVE  LET new == KeywordQueriedRow(r, at, rows, merged, matches) IN
           /\ new \in RecallRow /\ new # Null
           /\ new.agent = r.agent /\ new.status = r.status /\ new.mode = r.mode
           /\ new.at = at /\ new.rows = rows /\ new.keyword = rows /\ new.merged = merged
           /\ new.matches = matches /\ new.effective = r.effective
<1> DEFINE Stages == {"keyword", "memory_vectors", "chunk_vectors", "answer", "answered"}
           Callers == Agents \cup {Null}
           Asked == {"active", Null}
           Lists == Seq(Row)
           Sets == SUBSET Row
           Ids == SUBSET Memories
           new == KeywordQueriedRow(r, at, rows, merged, matches)
<1>1. RecallRow = [at: Stages, agent: Callers, status: Asked, mode: Modes, effective: Modes,
                   keyword: Lists, rows: Lists, merged: Sets, matches: Ids]
  BY DEF RecallRow
<1>2. "answer" \in Stages /\ "answered" \in Stages /\ "chunk_vectors" \in Stages /\ "memory_vectors" \in Stages
  OBVIOUS
<1> HIDE DEF Stages, Callers, Asked, Lists, Sets, Ids
<1>3. new \in RecallRow
  BY <1>1, <1>2 DEF Lists, Sets, Ids, KeywordQueriedRow
<1>4. new # Null
  BY <1>3, RecallNullAssumption
<1> QED
  BY <1>1, <1>3, <1>4 DEF KeywordQueriedRow

LEMMA MergedColumns ==
    ASSUME NEW r \in RecallRow, NEW merged \in SUBSET Row
    PROVE  LET new == VectorsMergedRow(r, merged) IN
           /\ new \in RecallRow /\ new # Null
           /\ new.agent = r.agent /\ new.status = r.status /\ new.mode = r.mode
           /\ new.at = "chunk_vectors" /\ new.rows = r.rows /\ new.keyword = r.keyword
           /\ new.merged = merged
<1> DEFINE Stages == {"keyword", "memory_vectors", "chunk_vectors", "answer", "answered"}
           Callers == Agents \cup {Null}
           Asked == {"active", Null}
           Lists == Seq(Row)
           Sets == SUBSET Row
           Ids == SUBSET Memories
           new == VectorsMergedRow(r, merged)
<1>1. RecallRow = [at: Stages, agent: Callers, status: Asked, mode: Modes, effective: Modes,
                   keyword: Lists, rows: Lists, merged: Sets, matches: Ids]
  BY DEF RecallRow
<1>2. "answer" \in Stages /\ "answered" \in Stages /\ "chunk_vectors" \in Stages /\ "memory_vectors" \in Stages
  OBVIOUS
<1> HIDE DEF Stages, Callers, Asked, Lists, Sets, Ids
<1>3. new \in RecallRow
  BY <1>1, <1>2 DEF Lists, Sets, Ids, VectorsMergedRow
<1>4. new # Null
  BY <1>3, RecallNullAssumption
<1> QED
  BY <1>1, <1>3, <1>4 DEF VectorsMergedRow

LEMMA RankedColumns ==
    ASSUME NEW r \in RecallRow, NEW merged \in SUBSET Row, NEW rows \in Seq(Row),
           NEW effective \in Modes
    PROVE  LET new == RowsRankedRow(r, merged, rows, effective) IN
           /\ new \in RecallRow /\ new # Null
           /\ new.agent = r.agent /\ new.status = r.status /\ new.mode = r.mode
           /\ new.at = "answer" /\ new.rows = rows /\ new.keyword = r.keyword
           /\ new.merged = merged /\ new.effective = effective
<1> DEFINE Stages == {"keyword", "memory_vectors", "chunk_vectors", "answer", "answered"}
           Callers == Agents \cup {Null}
           Asked == {"active", Null}
           Lists == Seq(Row)
           Sets == SUBSET Row
           Ids == SUBSET Memories
           new == RowsRankedRow(r, merged, rows, effective)
<1>1. RecallRow = [at: Stages, agent: Callers, status: Asked, mode: Modes, effective: Modes,
                   keyword: Lists, rows: Lists, merged: Sets, matches: Ids]
  BY DEF RecallRow
<1>2. "answer" \in Stages /\ "answered" \in Stages /\ "chunk_vectors" \in Stages /\ "memory_vectors" \in Stages
  OBVIOUS
<1> HIDE DEF Stages, Callers, Asked, Lists, Sets, Ids
<1>3. new \in RecallRow
  BY <1>1, <1>2 DEF Lists, Sets, Ids, RowsRankedRow
<1>4. new # Null
  BY <1>3, RecallNullAssumption
<1> QED
  BY <1>1, <1>3, <1>4 DEF RowsRankedRow

LEMMA AnsweredColumns ==
    ASSUME NEW r \in RecallRow, NEW rows \in Seq(Row)
    PROVE  LET new == RecallAnsweredRow(r, rows) IN
           /\ new \in RecallRow /\ new # Null
           /\ new.agent = r.agent /\ new.status = r.status /\ new.mode = r.mode
           /\ new.at = "answered" /\ new.rows = rows /\ new.keyword = r.keyword
           /\ new.merged = r.merged /\ new.matches = r.matches /\ new.effective = r.effective
<1> DEFINE Stages == {"keyword", "memory_vectors", "chunk_vectors", "answer", "answered"}
           Callers == Agents \cup {Null}
           Asked == {"active", Null}
           Lists == Seq(Row)
           Sets == SUBSET Row
           Ids == SUBSET Memories
           new == RecallAnsweredRow(r, rows)
<1>1. RecallRow = [at: Stages, agent: Callers, status: Asked, mode: Modes, effective: Modes,
                   keyword: Lists, rows: Lists, merged: Sets, matches: Ids]
  BY DEF RecallRow
<1>2. "answer" \in Stages /\ "answered" \in Stages /\ "chunk_vectors" \in Stages /\ "memory_vectors" \in Stages
  OBVIOUS
<1> HIDE DEF Stages, Callers, Asked, Lists, Sets, Ids
<1>3. new \in RecallRow
  BY <1>1, <1>2 DEF Lists, Sets, Ids, RecallAnsweredRow
<1>4. new # Null
  BY <1>3, RecallNullAssumption
<1> QED
  BY <1>1, <1>3, <1>4 DEF RecallAnsweredRow

\* Only the good rows of a recall may be among its rows.
LEMMA RowsGoodNext ==
    ASSUME recall' # Null, recall'.rows \in Seq(Row),
           \A i \in DOMAIN recall'.rows : \E r : Good(r)' /\ r = recall'.rows[i],
           \A s \in recall'.merged : \E r : Good(r)' /\ r = s
    PROVE  RowsGood'
BY DEF RowsGood, Good, RowSeen, RowGrounded

LEMMA BeginRecallKeeps ==
    ASSUME FlightInv, Observe, NEW agent \in Agents \cup {Null}, NEW status \in {"active", Null},
           NEW mode \in Modes, BeginRecall(agent, status, mode)
    PROVE  FlightInv'
<1> DEFINE at == IF mode = "vector" THEN "memory_vectors" ELSE "keyword"
           row == [at |-> at, agent |-> agent, status |-> status, mode |-> mode, effective |-> mode,
                   keyword |-> <<>>, rows |-> <<>>, merged |-> {}, matches |-> {}]
<1>1. recall' = row /\ recallLog' = recallLog
  BY DEF BeginRecall
<1>2. row \in RecallRow
  <2>1. at \in {"keyword", "memory_vectors", "chunk_vectors", "answer", "answered"}
    OBVIOUS
  <2>2. <<>> \in Seq(Row) /\ {} \in SUBSET Row /\ {} \in SUBSET Memories
    OBVIOUS
  <2> HIDE DEF at
  <2> QED
    BY <2>1, <2>2 DEF RecallRow
<1>3. recall' # Null /\ row # Null
  BY <1>1, <1>2, RecallFields
<1>4. /\ row.at \in {"keyword", "memory_vectors"} /\ (row.at = "memory_vectors" => mode = "vector")
      /\ row.mode = mode /\ row.keyword = <<>> /\ row.rows = <<>> /\ row.merged = {}
  OBVIOUS
<1>5. seen' \in SeenRow
  BY ObserveType DEF FlightInv
<1>6. DOMAIN <<>> = {} /\ Len(<<>>) = 0 /\ LastOfEach(<<>>) = {}
  BY DEF LastOfEach
<1> HIDE DEF row
<1>7. RowsGood'
  BY <1>1, <1>3, <1>4, <1>6 DEF RowsGood
<1>8. KeywordRanked' /\ NoVectorsYet'
  BY <1>1, <1>3, <1>4, <1>6, RecallAssumption DEF KeywordRanked, NoVectorsYet, Sorted
<1>9. AnswerReady' /\ AnswersHalfTheLimit' /\ FallbackRanksAsKeyword'
  BY <1>1, <1>4 DEF AnswerReady, AnswersHalfTheLimit, FallbackRanksAsKeyword, Answered
<1> QED
  BY <1>1, <1>2, <1>5, <1>7, <1>8, <1>9 DEF FlightInv

LEMMA KeywordQueryKeeps ==
    ASSUME FlightInv, Observe, KeywordQuery
    PROVE  FlightInv'
<1>1. recall \in RecallRow /\ recall # Null /\ recall.at = "keyword" /\ seen \in SeenRow /\ ~Answered
  BY DEF FlightInv, KeywordQuery, Answered
<1>2. PICK ranking \in Rankings(MatchRows, <<>>) :
        recall' = [recall EXCEPT
                     !.at = IF recall.mode = "keyword" THEN "answer" ELSE "memory_vectors",
                     !.rows = FirstOf(ranking), !.keyword = FirstOf(ranking),
                     !.merged = LastOfEach(FirstOf(ranking)),
                     !.matches = {r.memory : r \in EvidenceRows \cup TextRows}]
  BY DEF KeywordQuery
<1> DEFINE rows == FirstOf(ranking)
           at == IF recall.mode = "keyword" THEN "answer" ELSE "memory_vectors"
           matches == {r.memory : r \in EvidenceRows \cup TextRows}
<1>3. Ranked(ranking, MatchRows, <<>>)
  BY MatchRowsFacts, RankingsRank
<1>4. /\ rows \in Seq(Row) /\ Len(rows) <= Limit
      /\ \A i \in DOMAIN rows : i \in DOMAIN ranking /\ rows[i] = ranking[i] /\ rows[i] \in MatchRows
      /\ Len(rows) = Limit \/ rows = ranking
  <2>1. ranking \in Seq(Row)
    BY <1>3 DEF Ranked
  <2> HIDE DEF rows
  <2>2. /\ rows \in Seq(Row) /\ Len(rows) = IF Len(ranking) < Limit THEN Len(ranking) ELSE Limit
        /\ \A i \in DOMAIN rows : i \in DOMAIN ranking /\ rows[i] = ranking[i]
        /\ Len(ranking) <= Limit => rows = ranking
    BY <2>1, FirstRows DEF rows
  <2>3. Len(ranking) \in Nat /\ Limit \in Nat
    BY <2>1, RecallAssumption
  <2> QED
    BY <1>3, <2>2, <2>3 DEF Ranked
<1>5. LastOfEach(rows) \in SUBSET Row /\ \A r \in LastOfEach(rows) : \E i \in DOMAIN rows : r = rows[i]
  BY <1>4, LastOfEachFacts
<1>6. matches \in SUBSET Memories /\ matches = {r.memory : r \in MatchRows}
  BY MatchRowsFacts DEF MatchRows, Found
<1>7. /\ recall' \in RecallRow /\ recall' # Null
      /\ recall'.at = at /\ recall'.rows = rows /\ recall'.keyword = rows
      /\ recall'.merged = LastOfEach(rows) /\ recall'.matches = matches
      /\ recall'.agent = recall.agent /\ recall'.status = recall.status /\ recall'.mode = recall.mode
      /\ recall'.effective = recall.effective
  <2> DEFINE last == LastOfEach(rows)
  <2>1. recall' = KeywordQueriedRow(recall, at, rows, last, matches)
    BY <1>2 DEF KeywordQueriedRow
  <2>2. at \in {"answer", "memory_vectors"}
    OBVIOUS
  <2> HIDE DEF at, rows, last, matches
  <2>3. /\ recall \in RecallRow /\ rows \in Seq(Row) /\ last \in SUBSET Row
        /\ matches \in SUBSET Memories
    BY <1>1, <1>4, <1>5, <1>6 DEF last
  <2> QED
    BY <2>1, <2>2, <2>3, KeywordColumns DEF last
<1> HIDE DEF rows
<1>8. seen' \in SeenRow /\ recallLog' = recallLog
  BY ObserveType DEF FlightInv, KeywordQuery
<1>9. \A r : r \in MatchRows => Good(r)'
  BY <1>1, <1>7, MatchRowsFacts, FoundIsGood
<1>10. RowsGood'
  BY <1>4, <1>5, <1>7, <1>9, RowsGoodNext
<1>11. Sorted(rows)
  <2> SUFFICES ASSUME NEW i \in DOMAIN rows, NEW j \in DOMAIN rows, i < j
               PROVE  rows[i] # rows[j] /\ ~Above(rows[j], rows[i])
    BY DEF Sorted
  <2>1. rows[i] # rows[j] /\ ~Ahead(<<>>, rows[j], rows[i])
    BY <1>3, <1>4 DEF Ranked
  <2> QED
    BY <2>1 DEF Ahead
<1>12. KeywordRanked'
  BY <1>4, <1>7, <1>11, MatchRowsFacts DEF KeywordRanked
<1>13. NoVectorsYet'
  BY <1>7 DEF NoVectorsYet
<1>14. recall.mode = "keyword" => KeywordReady'
  <2>1. Len(rows) = Limit \/ matches \subseteq {rows[i].memory : i \in DOMAIN rows}
    <3> SUFFICES ASSUME rows = ranking PROVE matches \subseteq {rows[i].memory : i \in DOMAIN rows}
      BY <1>4
    <3>1. \A r \in MatchRows : \E i \in DOMAIN rows : rows[i] = r
      BY <1>3 DEF Ranked
    <3> HIDE DEF matches
    <3> QED
      BY <1>6, <3>1
  <2>2. \A i \in DOMAIN rows : rows[i].via \in {"evidence", "text"}
    BY <1>4, MatchRowsFacts
  <2>3. \A i, j \in DOMAIN rows : rows[i].memory = rows[j].memory /\ rows[i].via = rows[j].via => i = j
    <3> SUFFICES ASSUME NEW i \in DOMAIN rows, NEW j \in DOMAIN rows,
                        rows[i].memory = rows[j].memory, rows[i].via = rows[j].via
                 PROVE  i = j
      OBVIOUS
    <3>1. rows[i] = rows[j]
      BY <1>4, MatchRowsFacts
    <3>2. ~(i < j) /\ ~(j < i) /\ i \in Nat /\ j \in Nat
      BY <1>4, <1>11, <3>1 DEF Sorted
    <3> QED
      BY <3>2
  <2> QED
    <3> HIDE DEF matches, at
    <3> QED
      BY <1>7, <2>1, <2>2, <2>3 DEF KeywordReady
<1>15. AnswerReady'
  BY <1>4, <1>7, <1>14 DEF AnswerReady
<1>16. AnswersHalfTheLimit' /\ FallbackRanksAsKeyword'
  BY <1>7 DEF AnswersHalfTheLimit, FallbackRanksAsKeyword, Answered
<1> QED
  BY <1>7, <1>8, <1>10, <1>12, <1>13, <1>15, <1>16 DEF FlightInv

LEMMA MemoryVectorQueryKeeps ==
    ASSUME FlightInv, Observe, MemoryVectorQuery
    PROVE  FlightInv'
<1>1. recall \in RecallRow /\ recall # Null /\ recall.at = "memory_vectors" /\ seen \in SeenRow /\ ~Answered
  BY DEF FlightInv, MemoryVectorQuery, Answered
<1>2. PICK vectors \in Limited(FoundMemoryVectors, VectorLimit) :
        recall' = [recall EXCEPT !.at = "chunk_vectors",
                                 !.merged = Merged(@, MemoryCandidates(vectors))]
  BY DEF MemoryVectorQuery
<1> DEFINE new == MemoryCandidates(vectors)
           merged == Merged(recall.merged, new)
<1>3. Candidates(new)
  BY MemoryCandidatesFacts DEF Limited
<1>4. /\ merged \in SUBSET Row
      /\ \A r \in merged : \E s \in recall.merged \cup new : r.memory = s.memory /\ r.via = s.via
      /\ (\A r \in merged : ~r.vector) => merged = recall.merged /\ \A r \in recall.merged : ~r.vector
  BY <1>1, <1>3, MergedFacts, RecallFields
<1>5. /\ recall' \in RecallRow /\ recall' # Null
      /\ recall'.at = "chunk_vectors" /\ recall'.merged = merged
      /\ recall'.rows = recall.rows /\ recall'.keyword = recall.keyword
      /\ recall'.agent = recall.agent /\ recall'.status = recall.status /\ recall'.mode = recall.mode
  <2>1. recall' = VectorsMergedRow(recall, merged)
    BY <1>2 DEF VectorsMergedRow
  <2> HIDE DEF merged
  <2> QED
    BY <1>1, <1>4, <2>1, MergedColumns
<1> HIDE DEF new, merged
<1>6. seen' \in SeenRow /\ recallLog' = recallLog
  BY ObserveType DEF FlightInv, MemoryVectorQuery
<1>7. \A r : r \in new => Good(r)'
  BY <1>1, <1>3, <1>5, FoundIsGood DEF Candidates
<1>8. \A r : Good(r) => Good(r)'
  BY <1>1, <1>5, GoodStays
<1>9. \A r \in recall.merged : Good(r)
  BY <1>1 DEF FlightInv, RowsGood
<1>10. \A i \in DOMAIN recall.rows : Good(recall.rows[i])
  BY <1>1 DEF FlightInv, RowsGood
<1>11. RowsGood'
  <2>1. \A s \in recall'.merged : \E r : Good(r)' /\ r = s
    <3> SUFFICES ASSUME NEW s \in merged PROVE \E r : Good(r)' /\ r = s
      BY <1>5
    <3>1. PICK t \in recall.merged \cup new : s.memory = t.memory /\ s.via = t.via
      BY <1>4
    <3>2. Good(t)'
      BY <1>7, <1>8, <1>9
    <3>3. Good(s)'
      BY <3>1, <3>2 DEF Good, RowSeen, RowGrounded
    <3> QED
      BY <3>3
  <2>2. \A i \in DOMAIN recall'.rows : \E r : Good(r)' /\ r = recall'.rows[i]
    BY <1>5, <1>8, <1>10
  <2>3. recall'.rows \in Seq(Row)
    BY <1>1, <1>5, RecallFields
  <2> QED
    BY <1>5, <2>1, <2>2, <2>3, RowsGoodNext
<1>12. KeywordRanked'
  BY <1>1, <1>5 DEF FlightInv, KeywordRanked
<1>13. NoVectorsYet'
  BY <1>1, <1>4, <1>5 DEF FlightInv, NoVectorsYet
<1>14. AnswerReady' /\ AnswersHalfTheLimit' /\ FallbackRanksAsKeyword'
  BY <1>5 DEF AnswerReady, AnswersHalfTheLimit, FallbackRanksAsKeyword, Answered
<1> QED
  BY <1>5, <1>6, <1>11, <1>12, <1>13, <1>14 DEF FlightInv
LEMMA ChunkVectorQueryKeeps ==
    ASSUME FlightInv, Observe, ChunkVectorQuery
    PROVE  FlightInv'
<1>1. recall \in RecallRow /\ recall # Null /\ recall.at = "chunk_vectors" /\ seen \in SeenRow /\ ~Answered
  BY DEF FlightInv, ChunkVectorQuery, Answered
<1>2. PICK vectors \in Limited(FoundChunkVectors, VectorLimit) :
        \E ranking \in Rankings(Merged(recall.merged, ChunkCandidates(vectors)), recall.keyword) :
           recall' = [recall EXCEPT !.at = "answer",
                                    !.merged = Merged(recall.merged, ChunkCandidates(vectors)),
                                    !.rows = FirstOf(ranking),
                                    !.effective = Effective(Merged(recall.merged, ChunkCandidates(vectors)))]
  BY DEF ChunkVectorQuery
<1> DEFINE new == ChunkCandidates(vectors)
           merged == Merged(recall.merged, new)
           keyword == recall.keyword
<1>3. Candidates(new)
  BY ChunkCandidatesFacts DEF Limited
<1>4. /\ merged \in SUBSET Row
      /\ \A r \in merged : \E s \in recall.merged \cup new : r.memory = s.memory /\ r.via = s.via
      /\ (\A r \in merged : ~r.vector) => merged = recall.merged /\ \A r \in recall.merged : ~r.vector
  BY <1>1, <1>3, MergedFacts, RecallFields
<1>5. PICK ranking \in Rankings(merged, keyword) :
        recall' = RowsRankedRow(recall, merged, FirstOf(ranking), Effective(merged))
  BY <1>2 DEF RowsRankedRow
<1> DEFINE rows == FirstOf(ranking)
<1> HIDE DEF new, merged
<1>6. Ranked(ranking, merged, keyword)
  BY <1>4, <1>5, RankingsRank
<1>7. /\ rows \in Seq(Row) /\ Len(rows) <= Limit
      /\ \A i \in DOMAIN rows : rows[i] \in merged
      /\ Len(ranking) <= Limit => rows = ranking
  <2>1. ranking \in Seq(Row)
    BY <1>6 DEF Ranked
  <2> HIDE DEF rows
  <2>2. /\ rows \in Seq(Row) /\ Len(rows) = IF Len(ranking) < Limit THEN Len(ranking) ELSE Limit
        /\ \A i \in DOMAIN rows : i \in DOMAIN ranking /\ rows[i] = ranking[i]
        /\ Len(ranking) <= Limit => rows = ranking
    BY <2>1, FirstRows DEF rows
  <2>3. Len(ranking) \in Nat /\ Limit \in Nat
    BY <2>1, RecallAssumption
  <2> QED
    BY <1>6, <2>2, <2>3 DEF Ranked
<1> HIDE DEF rows
<1>8. Effective(merged) \in Modes
  BY <1>1, RecallFields DEF Effective, Modes
<1>9. /\ recall' \in RecallRow /\ recall' # Null
      /\ recall'.at = "answer" /\ recall'.merged = merged /\ recall'.effective = Effective(merged)
      /\ recall'.rows = rows /\ recall'.keyword = keyword
      /\ recall'.agent = recall.agent /\ recall'.status = recall.status /\ recall'.mode = recall.mode
  <2>1. recall' = RowsRankedRow(recall, merged, rows, Effective(merged))
    BY <1>5 DEF rows
  <2> QED
    BY <1>1, <1>4, <1>7, <1>8, <2>1, RankedColumns
<1>10. seen' \in SeenRow /\ recallLog' = recallLog
  BY ObserveType DEF FlightInv, ChunkVectorQuery
<1>11. \A r : r \in new => Good(r)'
  BY <1>1, <1>3, <1>9, FoundIsGood DEF Candidates
<1>12. \A r : Good(r) => Good(r)'
  BY <1>1, <1>9, GoodStays
<1>13. \A r \in recall.merged : Good(r)
  BY <1>1 DEF FlightInv, RowsGood
<1>14. \A s : s \in merged => Good(s)'
  <2> SUFFICES ASSUME NEW s, s \in merged PROVE Good(s)'
    OBVIOUS
  <2>1. PICK t \in recall.merged \cup new : s.memory = t.memory /\ s.via = t.via
    BY <1>4
  <2>2. Good(t)'
    BY <1>11, <1>12, <1>13
  <2> QED
    BY <2>1, <2>2 DEF Good, RowSeen, RowGrounded
<1>15. RowsGood'
  BY <1>7, <1>9, <1>14, RowsGoodNext
<1>16. KeywordRanked'
  BY <1>1, <1>9 DEF FlightInv, KeywordRanked
<1>17. NoVectorsYet'
  BY <1>9 DEF NoVectorsYet
<1>18. AnswerReady'
  <2>1. recall.mode # "keyword"
    BY <1>1 DEF FlightInv, NoVectorsYet
  <2>2. ASSUME recall.mode = "hybrid", Effective(merged) = "keyword"
        PROVE  Ranked(rows, LastOfEach(keyword), keyword)
    <3>1. \A r \in merged : ~r.vector
      BY <2>2 DEF Effective
    <3>2. merged = LastOfEach(keyword)
      BY <1>1, <1>4, <3>1 DEF FlightInv, NoVectorsYet
    <3>3. keyword \in Seq(Row) /\ Len(keyword) <= Limit /\ Len(keyword) \in Nat
      BY <1>1, RecallFields DEF FlightInv, KeywordRanked
    <3>4. Cardinality(merged) <= Len(keyword)
      BY <3>2, <3>3, LastOfEachFacts
    <3>5. Cardinality(merged) \in Nat /\ Limit \in Nat
      BY <1>4, RowsFinite, RecallAssumption
    <3> HIDE DEF keyword
    <3>6. Len(ranking) = Cardinality(merged)
      BY <1>6 DEF Ranked
    <3>7. Len(ranking) <= Limit
      BY <3>3, <3>4, <3>5, <3>6
    <3>8. rows = ranking
      BY <1>7, <3>7
    <3> QED
      BY <1>6, <3>2, <3>8
  <2> HIDE DEF keyword
  <2> QED
    BY <1>7, <1>9, <2>1, <2>2 DEF AnswerReady, FallbackReady
<1>19. AnswersHalfTheLimit' /\ FallbackRanksAsKeyword'
  BY <1>9 DEF AnswersHalfTheLimit, FallbackRanksAsKeyword, Answered
<1> QED
  BY <1>9, <1>10, <1>15, <1>16, <1>17, <1>18, <1>19 DEF FlightInv

\* A fallback answers as the keyword rows would be answered.
SameAnswers(rows, keyword) ==
    LET answer == FirstOfEach(rows)
        first == FirstOfEach(keyword) IN
    /\ {first[i].memory : i \in DOMAIN first} = {answer[i].memory : i \in DOMAIN answer}
    /\ Len(first) = Len(keyword) => answer = first

LEMMA FallbackAnswers ==
    ASSUME NEW keyword \in Seq(Row), Sorted(keyword),
           NEW rows \in Seq(Row), Ranked(rows, LastOfEach(keyword), keyword)
    PROVE  SameAnswers(rows, keyword)
<1> DEFINE answer == FirstOfEach(rows)
           first == FirstOfEach(keyword)
<1>1. Firsts(answer, rows, Len(rows)) /\ Firsts(first, keyword, Len(keyword))
  BY FirstOfEachFirsts
<1> HIDE DEF answer, first
<1>2. /\ Len(rows) \in Nat /\ DOMAIN rows = 1 .. Len(rows)
      /\ Len(keyword) \in Nat /\ DOMAIN keyword = 1 .. Len(keyword)
      /\ answer \in Seq(Row) /\ first \in Seq(Row)
  BY <1>1 DEF Firsts
<1>3. /\ \A k \in DOMAIN answer : \E i \in DOMAIN rows : answer[k] = rows[i]
      /\ \A i \in DOMAIN rows : \E k \in DOMAIN answer : answer[k].memory = rows[i].memory
      /\ \A k \in DOMAIN first : \E i \in DOMAIN keyword : first[k] = keyword[i]
      /\ \A i \in DOMAIN keyword : \E k \in DOMAIN first : first[k].memory = keyword[i].memory
  BY <1>1, <1>2 DEF Firsts
<1>4. /\ \A i \in DOMAIN rows : \E j \in DOMAIN keyword : rows[i] = keyword[j]
      /\ \A j \in DOMAIN keyword : \E i \in DOMAIN rows : rows[i].memory = keyword[j].memory
  <2>1. /\ \A r \in LastOfEach(keyword) : \E j \in DOMAIN keyword : r = keyword[j]
        /\ \A j \in DOMAIN keyword : \E r \in LastOfEach(keyword) : r.memory = keyword[j].memory
    BY LastOfEachFacts
  <2>2. /\ \A i \in DOMAIN rows : rows[i] \in LastOfEach(keyword)
        /\ \A r \in LastOfEach(keyword) : \E i \in DOMAIN rows : rows[i] = r
    BY DEF Ranked
  <2> QED
    BY <2>1, <2>2
<1>5. \A k \in DOMAIN answer : \E i \in DOMAIN first : first[i].memory = answer[k].memory
  <2> TAKE k \in DOMAIN answer
  <2>1. PICK i \in DOMAIN rows : answer[k] = rows[i]
    BY <1>3
  <2>2. PICK j \in DOMAIN keyword : rows[i] = keyword[j]
    BY <1>4
  <2>3. \E l \in DOMAIN first : first[l].memory = keyword[j].memory
    BY <1>3
  <2> QED
    BY <2>1, <2>2, <2>3
<1>6. \A k \in DOMAIN first : \E i \in DOMAIN answer : answer[i].memory = first[k].memory
  <2> TAKE k \in DOMAIN first
  <2>1. PICK j \in DOMAIN keyword : first[k] = keyword[j]
    BY <1>3
  <2>2. PICK i \in DOMAIN rows : rows[i].memory = keyword[j].memory
    BY <1>4
  <2>3. \E l \in DOMAIN answer : answer[l].memory = rows[i].memory
    BY <1>3
  <2> QED
    BY <2>1, <2>2, <2>3
<1>7. ASSUME Len(first) = Len(keyword) PROVE answer = first
  <2>1. Distinct(keyword, Len(keyword))
    BY <1>1, <1>7 DEF Firsts
  <2>2. Ranked(rows, {keyword[i] : i \in DOMAIN keyword}, keyword)
    <3>1. LastOfEach(keyword) = {keyword[i] : i \in DOMAIN keyword}
      BY <2>1, LastOfEachFacts
    <3> QED
      BY <3>1
  <2>3. rows = keyword
    BY <2>1, <2>2, RankedAsBefore
  <2>4. \A q : Firsts(q, keyword, Len(keyword)) => q = keyword
    <3> SUFFICES ASSUME NEW q, Firsts(q, keyword, Len(keyword)) PROVE q = keyword
      OBVIOUS
    <3>1. q \in Seq(Row) /\ Len(q) = Len(keyword) /\ \A i \in 1 .. Len(keyword) : q[i] = keyword[i]
      BY <2>1 DEF Firsts
    <3> QED
      BY <1>2, <3>1
  <2> QED
    BY <1>1, <2>3, <2>4
<1>8. {first[i].memory : i \in DOMAIN first} = {answer[i].memory : i \in DOMAIN answer}
  BY <1>5, <1>6
<1> QED
  BY <1>7, <1>8 DEF SameAnswers, answer, first

LEMMA AnswerRecallKeeps ==
    ASSUME FlightInv, Observe, AnswerRecall
    PROVE  FlightInv'
<1> DEFINE rows == recall.rows
           answer == FirstOfEach(rows)
<1>1. recall \in RecallRow /\ recall # Null /\ recall.at = "answer" /\ seen \in SeenRow /\ ~Answered
  BY DEF FlightInv, AnswerRecall, Answered
<1>2. rows \in Seq(Row)
  BY <1>1, RecallFields
<1>3. Firsts(answer, rows, Len(rows))
  BY <1>2, FirstOfEachFirsts
<1>4. recall' = RecallAnsweredRow(recall, answer)
  BY DEF AnswerRecall, RecallAnsweredRow
<1>5. recallLog' = [agent |-> recall.agent, result_count |-> Len(answer),
                    top_memory_ids |-> MemoriesOf(answer),
                    matched_chunks |-> UNION {EvidenceOf(answer[i].memory) : i \in DOMAIN answer}]
  BY DEF AnswerRecall
<1> HIDE DEF answer
<1>6. answer \in Seq(Row) /\ Len(answer) \in Nat /\ DOMAIN answer = 1 .. Len(answer)
  BY <1>3 DEF Firsts
<1>17. /\ DOMAIN rows = 1 .. Len(rows)
       /\ \A k \in DOMAIN answer : \E i \in DOMAIN rows : answer[k] = rows[i]
       /\ \A i \in DOMAIN rows : \E k \in DOMAIN answer : answer[k].memory = rows[i].memory
  <2>1. DOMAIN rows = 1 .. Len(rows)
    BY <1>2
  <2> HIDE DEF rows
  <2> QED
    BY <1>3, <2>1 DEF Firsts
<1>7. /\ recall' \in RecallRow /\ recall' # Null
      /\ recall'.at = "answered" /\ recall'.rows = answer /\ recall'.keyword = recall.keyword
      /\ recall'.merged = recall.merged /\ recall'.matches = recall.matches
      /\ recall'.effective = recall.effective
      /\ recall'.agent = recall.agent /\ recall'.status = recall.status /\ recall'.mode = recall.mode
  BY <1>1, <1>4, <1>6, AnsweredColumns
<1>8. recallLog' \in LogRow
  <2>1. \A i \in DOMAIN answer : answer[i].memory \in Memories
    <3>1. \A i \in DOMAIN answer : answer[i] \in Row
      BY <1>6
    <3> QED
      BY <3>1 DEF Row
  <2>2. MemoriesOf(answer) \in Seq(Memories)
    BY <1>6, <2>1 DEF MemoriesOf
  <2>3. UNION {EvidenceOf(answer[i].memory) : i \in DOMAIN answer} \in SUBSET Chunks
    BY DEF EvidenceOf
  <2>4. recall.agent \in Agents \cup {Null}
    BY <1>1, RecallFields
  <2> DEFINE ids == MemoriesOf(answer)
             chunks == UNION {EvidenceOf(answer[i].memory) : i \in DOMAIN answer}
  <2> HIDE DEF ids, chunks
  <2>5. recallLog' = [agent |-> recall.agent, result_count |-> Len(answer),
                      top_memory_ids |-> ids, matched_chunks |-> chunks]
    BY <1>5 DEF ids, chunks
  <2>6. ids \in Seq(Memories) /\ chunks \in SUBSET Chunks
    BY <2>2, <2>3 DEF ids, chunks
  <2> QED
    BY <1>6, <2>4, <2>5, <2>6 DEF LogRow
<1>9. seen' \in SeenRow
  BY ObserveType DEF FlightInv
<1>10. \A r : Good(r) => Good(r)'
  BY <1>1, <1>7, GoodStays
<1>11. RowsGood'
  <2>1. \A i \in DOMAIN rows : Good(rows[i])
    BY <1>1 DEF FlightInv, RowsGood
  <2>2. \A r \in recall.merged : Good(r)
    BY <1>1 DEF FlightInv, RowsGood
  <2>3. \A k \in DOMAIN answer : \E i \in DOMAIN rows : answer[k] = rows[i]
    BY <1>17
  <2>4. \A k \in DOMAIN answer : \E r : Good(r)' /\ r = answer[k]
    <3> TAKE k \in DOMAIN answer
    <3>1. PICK i \in DOMAIN rows : answer[k] = rows[i]
      BY <2>3
    <3>2. PICK r : r = rows[i]
      OBVIOUS
    <3>3. Good(r)
      BY <2>1, <3>2
    <3> QED
      BY <1>10, <3>1, <3>2, <3>3
  <2> HIDE DEF rows
  <2> QED
    BY <1>6, <1>7, <1>10, <2>2, <2>4, RowsGoodNext
<1>12. KeywordRanked'
  BY <1>1, <1>7 DEF FlightInv, KeywordRanked
<1>13. NoVectorsYet' /\ AnswerReady'
  BY <1>7 DEF NoVectorsYet, AnswerReady
<1>14. Len(rows) <= Limit /\ (recall.mode = "keyword" => KeywordReady)
  BY <1>1 DEF FlightInv, AnswerReady
<1>15. AnswersHalfTheLimit'
  <2>1. Len(answer) <= Limit /\ Distinct(answer, Len(answer))
    <3>1. Len(answer) <= Len(rows) /\ Len(rows) \in Nat /\ Limit \in Nat
      BY <1>2, <1>3, RecallAssumption DEF Firsts
    <3> QED
      BY <1>3, <1>6, <1>14, <3>1 DEF Firsts
  <2>2. ASSUME recall.mode = "keyword"
        PROVE  \/ recall.matches \subseteq {answer[i].memory : i \in DOMAIN answer}
               \/ 2 * Len(answer) >= Limit
    <3>1. KeywordReady
      BY <1>14, <2>2
    <3>2. CASE Len(rows) = Limit
      <4>1. Len(rows) <= 2 * Len(answer)
        BY <1>2, <1>3, <3>1, HalfOfRows DEF KeywordReady
      <4> QED
        BY <1>2, <1>6, <3>2, <4>1
    <3>3. CASE recall.matches \subseteq {rows[i].memory : i \in DOMAIN rows}
      <4>1. \A i \in DOMAIN rows : \E k \in DOMAIN answer : answer[k].memory = rows[i].memory
        BY <1>17
      <4> QED
        BY <3>3, <4>1
    <3> QED
      BY <3>1, <3>2, <3>3 DEF KeywordReady
  <2> QED
    BY <1>6, <1>7, <2>1, <2>2 DEF AnswersHalfTheLimit, Answer, Distinct
<1>16. FallbackRanksAsKeyword'
  <2> SUFFICES ASSUME recall.mode = "hybrid", recall.effective = "keyword"
               PROVE  FallbackRanksAsKeyword'
    BY <1>7 DEF FallbackRanksAsKeyword
  <2>1. Ranked(rows, LastOfEach(recall.keyword), recall.keyword)
    BY <1>1 DEF FlightInv, AnswerReady, FallbackReady
  <2>2. recall.keyword \in Seq(Row) /\ Sorted(recall.keyword)
    BY <1>1, RecallFields DEF FlightInv, KeywordRanked
  <2> DEFINE first == FirstOfEach(recall.keyword)
  <2>3. /\ {first[i].memory : i \in DOMAIN first} = {answer[i].memory : i \in DOMAIN answer}
        /\ Len(first) = Len(recall.keyword) => answer = first
    <3>1. SameAnswers(rows, recall.keyword)
      <4> HIDE DEF rows
      <4> QED
        BY <1>2, <2>1, <2>2, FallbackAnswers
    <3> QED
      BY <3>1 DEF SameAnswers, answer
  <2>4. first = FirstOfEach(recall'.keyword)
    BY <1>7
  <2> HIDE DEF first
  <2> QED
    BY <1>7, <2>3, <2>4 DEF FallbackRanksAsKeyword, Answer
<1> QED
  BY <1>7, <1>8, <1>9, <1>11, <1>12, <1>13, <1>15, <1>16 DEF FlightInv

LEMMA FailRecallKeeps ==
    ASSUME FlightInv, Observe, FailRecall
    PROVE  FlightInv'
BY ObserveType DEF FlightInv, FailRecall, RowsGood, KeywordRanked, NoVectorsYet, AnswerReady,
   AnswersHalfTheLimit, FallbackRanksAsKeyword, Answered

\* What the rest of the system does leaves a recall as it is.
LEMMA OthersKeep ==
    ASSUME FlightInv, Observe, recall' = recall, recallLog' = recallLog
    PROVE  FlightInv'
<1>1. seen' \in SeenRow
  BY ObserveType DEF FlightInv
<1>2. RowsGood'
  <2> SUFFICES ASSUME recall # Null PROVE RowsGood'
    BY DEF RowsGood
  <2>1. recall \in RecallRow /\ seen \in SeenRow
    BY DEF FlightInv
  <2>2. \A r : Good(r) => Good(r)'
    BY <2>1, GoodStays
  <2>3. \A i \in DOMAIN recall.rows : Good(recall.rows[i])
    BY DEF FlightInv, RowsGood
  <2>4. \A r \in recall.merged : Good(r)
    BY DEF FlightInv, RowsGood
  <2>5. \A i \in DOMAIN recall.rows : \E r : Good(r)' /\ r = recall.rows[i]
    <3> TAKE i \in DOMAIN recall.rows
    <3>1. PICK r : r = recall.rows[i]
      OBVIOUS
    <3>2. Good(r)
      BY <2>3, <3>1
    <3> QED
      BY <2>2, <3>1, <3>2
  <2>6. recall.rows \in Seq(Row)
    BY <2>1, RecallFields
  <2> QED
    BY <2>2, <2>4, <2>5, <2>6, RowsGoodNext
<1>3. KeywordRanked' /\ NoVectorsYet'
  BY DEF FlightInv, KeywordRanked, NoVectorsYet
<1>4. AnswerReady'
  BY DEF FlightInv, AnswerReady, KeywordReady, FallbackReady
<1>5. AnswersHalfTheLimit'
  BY DEF FlightInv, AnswersHalfTheLimit, Answered, Answer
<1>6. FallbackRanksAsKeyword'
  <2> DEFINE P(r) == (r # Null /\ r.at = "answered") /\ r.mode = "hybrid" /\ r.effective = "keyword" =>
                         LET keyword == FirstOfEach(r.keyword) IN
                         /\ {keyword[i].memory : i \in DOMAIN keyword}
                               = {r.rows[i].memory : i \in DOMAIN r.rows}
                         /\ Len(keyword) = Len(r.keyword) => r.rows = keyword
  <2>1. FallbackRanksAsKeyword <=> P(recall)
    BY DEF FallbackRanksAsKeyword, Answered, Answer
  <2>2. FallbackRanksAsKeyword' <=> P(recall')
    BY DEF FallbackRanksAsKeyword, Answered, Answer
  <2> HIDE DEF P
  <2> QED
    BY <2>1, <2>2 DEF FlightInv
<1> QED
  BY <1>1, <1>2, <1>3, <1>4, <1>5, <1>6 DEF FlightInv

LEMMA RecallKeeps ==
    ASSUME FlightInv, Observe, RecallNext
    PROVE  FlightInv'
BY BeginRecallKeeps, KeywordQueryKeeps, MemoryVectorQueryKeeps, ChunkVectorQueryKeeps,
   AnswerRecallKeeps, FailRecallKeeps DEF RecallNext

-------------------------------------------------------------------------------
(* Searches. *)

\* What a search finds may be seen.
MayBeFound(agent, x) ==
    CASE x[1] = "memory" -> IF agent # Null THEN MaySee(agent, x[2]) ELSE AdmittedWithoutAgent(x[2])
      [] x[1] = "chunk" -> x[2] \in ActiveChunks
      [] x[1] = "source" -> document[x[2]] = "active"

Numbered(items, place) ==
    /\ place \in [items -> 1 .. Cardinality(items)]
    /\ \A x, y \in items : x # y => place[x] # place[y]

FoundItems(agent, scope, items, place) ==
    LET n == IF Cardinality(items) < SearchLimit THEN Cardinality(items) ELSE SearchLimit IN
    [agent |-> agent, scope |-> scope,
     items |-> [i \in 1 .. n |-> CHOOSE x \in items : place[x] = i]]

LEMMA FoundNext ==
    ASSUME NEW agent, found'.agent = agent,
           \A i \in DOMAIN found'.items : \E x : x = found'.items[i] /\ MayBeFound(agent, x)'
    PROVE  FoundSeen'
BY DEF FoundSeen, MayBeFound

LEMMA RoutesFacts ==
    ASSUME NEW agent, NEW scope, NEW s \in Strategies, NEW x \in Routes(agent, scope)[s]
    PROVE  x \in Items /\ MayBeFound(agent, x)
<1>1. x \in ChunksFound(scope) \cup MemoriesFound(agent, scope) \cup SourcesFound(scope)
  BY DEF Routes, Strategies
<1>2. CASE x \in ChunksFound(scope)
  <2>1. x \in {"chunk"} \X ActiveChunks
    BY <1>2 DEF ChunksFound
  <2>2. x \in Items /\ x[1] = "chunk" /\ x[2] \in ActiveChunks
    BY <2>1 DEF Items, ActiveChunks
  <2> QED
    BY <2>2 DEF MayBeFound
<1>3. CASE x \in MemoriesFound(agent, scope)
  <2>1. x \in {"memory"} \X {m \in Memories : MemoryFound(agent, m)}
    BY <1>3 DEF MemoriesFound
  <2>2. x \in Items /\ x[1] = "memory" /\ x[2] \in Memories /\ MemoryFound(agent, x[2])
    BY <2>1 DEF Items
  <2>3. IF agent # Null THEN MaySee(agent, x[2]) ELSE AdmittedWithoutAgent(x[2])
    BY <2>2, VisibleIsPermitted DEF MemoryFound, AdmittedWithoutAgent
  <2> QED
    BY <2>2, <2>3 DEF MayBeFound
<1>4. CASE x \in SourcesFound(scope)
  <2>1. x \in {"source"} \X {d \in Documents : document[d] = "active"}
    BY <1>4 DEF SourcesFound
  <2>2. x \in Items /\ x[1] = "source" /\ document[x[2]] = "active"
    BY <2>1 DEF Items
  <2> QED
    BY <2>2 DEF MayBeFound
<1> QED
  BY <1>1, <1>2, <1>3, <1>4

LEMMA ItemsFinite == \A items \in SUBSET Items : IsFiniteSet(items) /\ Cardinality(items) \in Nat
<1>1. IsFiniteSet({"chunk"}) /\ IsFiniteSet({"memory"}) /\ IsFiniteSet({"source"})
  BY FS_Singleton
<1>2. IsFiniteSet({"chunk"} \X Chunks)
  BY <1>1, RecallAssumption, FS_Product
<1>3. IsFiniteSet({"memory"} \X Memories)
  BY <1>1, RecallAssumption, FS_Product
<1>4. IsFiniteSet({"source"} \X Documents)
  BY <1>1, RecallAssumption, FS_Product
<1>5. IsFiniteSet(({"chunk"} \X Chunks) \cup ({"memory"} \X Memories))
  BY <1>2, <1>3, FS_Union
<1>6. IsFiniteSet(Items)
  BY <1>4, <1>5, FS_Union DEF Items
<1> QED
  BY <1>6, FS_Subset, FS_CardinalityType

\* Every place of a numbering is taken.
LEMMA EveryPlaceTaken ==
    ASSUME NEW items \in SUBSET Items, NEW place \in [items -> 1 .. Cardinality(items)],
           \A x, y \in items : x # y => place[x] # place[y]
    PROVE  \A i \in 1 .. Cardinality(items) : \E x \in items : place[x] = i
<1> DEFINE n == Cardinality(items)
<1>1. IsFiniteSet(items) /\ n \in Nat
  BY ItemsFinite
<1> HIDE DEF n
<1>2. IsFiniteSet(1 .. n) /\ Cardinality(1 .. n) = n
  <2>1. 1 \in Int /\ n \in Int
    BY <1>1
  <2>2. IsFiniteSet(1 .. n) /\ Cardinality(1 .. n) = IF 1 > n THEN 0 ELSE n - 1 + 1
    BY <2>1, FS_Interval
  <2> QED
    BY <1>1, <2>2
<1>3. place \in Injection(items, 1 .. n)
  BY DEF Injection, IsInjective, n
<1>4. place \in Surjection(items, 1 .. n)
  BY <1>1, <1>2, <1>3, FS_Injection DEF n
<1> QED
  BY <1>4 DEF Surjection, n

LEMMA SearchFinds ==
    ASSUME NEW agent \in Agents \cup {Null}, NEW scope \in SearchScopes, Search(agent, scope)
    PROVE  FoundSeen' /\ FoundType'
<1>1. PICK items, place : /\ items = UNION {Routes(agent, scope)[s] : s \in Strategies}
                          /\ Numbered(items, place)
                          /\ found' = FoundItems(agent, scope, items, place)
  <2>1. PICK r \in {Routes(agent, scope)} :
          \E ranks \in RouteRanks(r), u \in {UNION {r[s] : s \in Strategies}} :
          \E place \in {rank \in [u -> 1 .. Cardinality(u)] :
                \A x, y \in u : x # y => rank[x] # rank[y]
                                    /\ (RrfScore(r, ranks, x) > RrfScore(r, ranks, y) => rank[x] < rank[y])} :
            LET n == IF Cardinality(u) < SearchLimit THEN Cardinality(u) ELSE SearchLimit IN
            found' = [agent |-> agent, scope |-> scope,
                      items |-> [i \in 1 .. n |-> CHOOSE x \in u : place[x] = i]]
    BY Zenon DEF Search, Numberings
  <2>2. PICK ranks \in RouteRanks(r), u \in {UNION {r[s] : s \in Strategies}} :
          \E place \in {rank \in [u -> 1 .. Cardinality(u)] :
                \A x, y \in u : x # y => rank[x] # rank[y]
                                    /\ (RrfScore(r, ranks, x) > RrfScore(r, ranks, y) => rank[x] < rank[y])} :
            LET n == IF Cardinality(u) < SearchLimit THEN Cardinality(u) ELSE SearchLimit IN
            found' = [agent |-> agent, scope |-> scope,
                      items |-> [i \in 1 .. n |-> CHOOSE x \in u : place[x] = i]]
    BY <2>1, Zenon
  <2>3. u = UNION {Routes(agent, scope)[s] : s \in Strategies}
    BY <2>1, <2>2
  <2>4. PICK place \in [u -> 1 .. Cardinality(u)] :
          /\ \A x, y \in u : x # y => place[x] # place[y]
          /\ LET n == IF Cardinality(u) < SearchLimit THEN Cardinality(u) ELSE SearchLimit IN
             found' = [agent |-> agent, scope |-> scope,
                       items |-> [i \in 1 .. n |-> CHOOSE x \in u : place[x] = i]]
    BY <2>2, Zenon
  <2>5. Numbered(u, place)
    BY <2>4 DEF Numbered
  <2>6. found' = FoundItems(agent, scope, u, place)
    BY <2>4 DEF FoundItems
  <2> QED
    BY <2>3, <2>5, <2>6
<1>2. \A x \in items : x \in Items /\ MayBeFound(agent, x)
  BY <1>1, RoutesFacts
<1> DEFINE number == IF Cardinality(items) < SearchLimit THEN Cardinality(items) ELSE SearchLimit
<1>3. Cardinality(items) \in Nat /\ \A i \in 1 .. Cardinality(items) : \E x \in items : place[x] = i
  <2>1. items \in SUBSET Items
    BY <1>2
  <2>2. /\ place \in [items -> 1 .. Cardinality(items)]
        /\ \A x, y \in items : x # y => place[x] # place[y]
    BY <1>1 DEF Numbered
  <2> HIDE DEF number
  <2> QED
    BY <2>1, <2>2, ItemsFinite, EveryPlaceTaken
<1>4. number \in Nat /\ \A i \in 1 .. number : i \in 1 .. Cardinality(items)
  BY <1>3, SearchAssumption
<1> DEFINE at(i) == CHOOSE x \in items : place[x] = i
           answer == [i \in 1 .. number |-> at(i)]
<1>5. found'.agent = agent /\ found'.items = answer
  BY <1>1 DEF FoundItems
<1> HIDE DEF number
<1>6. \A i \in 1 .. number : at(i) \in items
  BY <1>3, <1>4
<1> HIDE DEF at
<1>7. answer \in Seq(Items) /\ DOMAIN answer = 1 .. number
  BY <1>2, <1>4, <1>6
<1>8. \A i \in DOMAIN answer : MayBeFound(agent, answer[i])
  BY <1>2, <1>6, <1>7
<1> HIDE DEF answer
<1>9. UNCHANGED <<visibilityVars, indexVars>>
  BY DEF Search
<1>10. FoundType'
  BY <1>5, <1>7 DEF FoundType
<1>11. \A x : MayBeFound(agent, x) => MayBeFound(agent, x)'
  BY <1>9 DEF MayBeFound, MaySee, AdmittedWithoutAgent, Matching, Live, ActiveChunks, visibilityVars,
     policyVars, indexVars
<1>12. \A i \in DOMAIN answer : \E x : x = answer[i] /\ MayBeFound(agent, x)'
  BY <1>8, <1>11
<1> QED
  BY <1>5, <1>10, <1>12, FoundNext

-------------------------------------------------------------------------------
(* Embedding requests. *)

LEMMA JobFields ==
    ASSUME NEW j \in JobRow
    PROVE  /\ j.target \in {"memories", "chunks", "all"} /\ j.reading \in {"memories", "chunks"}
           /\ j.left \in Vectors /\ j.done \in Vectors /\ j.failures \in 0 .. MaxAttempts - 1
           /\ j # Null
BY IndexNullAssumption DEF JobRow

LEMMA NewJobTyped ==
    ASSUME NEW target \in {"memories", "chunks", "all"}, NEW reading \in {"memories", "chunks"},
           NEW left \in Vectors
    PROVE  NewJob(target, reading, left) \in JobRow
<1>1. 0 \in 0 .. MaxAttempts - 1 /\ NoVectors \in Vectors
  BY IndexAssumption DEF NoVectors, Vectors
<1> QED
  BY <1>1 DEF NewJob, JobRow

LEMMA LeftTyped ==
    /\ \A rows \in SUBSET MemoryVectors : [NoVectors EXCEPT !.memories = rows] \in Vectors
    /\ \A rows \in SUBSET Chunks : [NoVectors EXCEPT !.chunks = rows] \in Vectors
BY DEF NoVectors, Vectors

LEMMA EmbeddableTyped ==
    ASSUME VisibilityInv
    PROVE  EmbeddableMemories \subseteq MemoryVectors /\ ActiveChunks \subseteq Chunks
<1>1. \A m \in Memories : memory[m].text \in Texts
  BY DEF VisibilityInv, VisibilityTypeOK, MemoryRow
<1>2. \A m \in Memories : [memory |-> m, text |-> memory[m].text] \in MemoryVectors
  BY <1>1 DEF MemoryVectors
<1> QED
  BY <1>2 DEF EmbeddableMemories, ActiveChunks

LEMMA JobStarts ==
    ASSUME VisibilityInv, IndexTypeOK,
           \/ \E v \in MemoryVectors : EmbedMemory(v)
           \/ \E c \in Chunks : EmbedChunk(c)
           \/ \E target \in {"memories", "chunks", "all"} : Backfill(target)
    PROVE  IndexTypeOK'
<1>1. job' \in JobRow
  <2>1. ASSUME NEW v \in MemoryVectors, EmbedMemory(v) PROVE job' \in JobRow
    BY <2>1, NewJobTyped, LeftTyped DEF EmbedMemory
  <2>2. ASSUME NEW c \in Chunks, EmbedChunk(c) PROVE job' \in JobRow
    BY <2>2, NewJobTyped, LeftTyped DEF EmbedChunk
  <2>3. ASSUME NEW target \in {"memories", "chunks", "all"}, Backfill(target) PROVE job' \in JobRow
    <3>1. CASE target \in {"memories", "all"} /\ \E rows \in Limited(EmbeddableMemories, BackfillLimit) :
                  job' = NewJob(target, "memories", [NoVectors EXCEPT !.memories = rows])
      <4>1. PICK rows \in Limited(EmbeddableMemories, BackfillLimit) :
                job' = NewJob(target, "memories", [NoVectors EXCEPT !.memories = rows])
        BY <3>1
      <4>2. rows \in SUBSET MemoryVectors
        BY EmbeddableTyped DEF Limited
      <4> QED
        BY <4>1, <4>2, NewJobTyped, LeftTyped
    <3>2. CASE target = "chunks" /\ \E rows \in Limited(ActiveChunks, BackfillLimit) :
                  job' = NewJob(target, "chunks", [NoVectors EXCEPT !.chunks = rows])
      <4>1. PICK rows \in Limited(ActiveChunks, BackfillLimit) :
                job' = NewJob(target, "chunks", [NoVectors EXCEPT !.chunks = rows])
        BY <3>2
      <4>2. rows \in SUBSET Chunks
        BY EmbeddableTyped DEF Limited
      <4> QED
        BY <4>1, <4>2, NewJobTyped, LeftTyped
    <3> QED
      BY <2>3, <3>1, <3>2 DEF Backfill
  <2> QED
    BY <2>1, <2>2, <2>3
<1>2. UNCHANGED <<document, memoryVectors, chunkVectors>>
  BY DEF EmbedMemory, EmbedChunk, Backfill
<1> QED
  BY <1>1, <1>2 DEF IndexTypeOK

LEMMA JobRuns ==
    ASSUME VisibilityInv, IndexTypeOK, JobStep
    PROVE  IndexTypeOK'
<1>1. job \in JobRow
  BY DEF IndexTypeOK, JobStep, ReadChunks, ProviderAnswers, ProviderFails, ProviderRefuses, StoreVectors
<1>2. job.left.memories \subseteq MemoryVectors /\ job.left.chunks \subseteq Chunks
      /\ job.done.memories \subseteq MemoryVectors /\ job.done.chunks \subseteq Chunks
  BY <1>1, JobFields DEF Vectors
<1>3. CASE ReadChunks
  <2>1. PICK rows \in Limited(ActiveChunks, BackfillLimit) :
            job' = [job EXCEPT !.reading = "chunks", !.left.chunks = rows]
    BY <1>3 DEF ReadChunks
  <2>2. rows \in SUBSET Chunks
    BY EmbeddableTyped DEF Limited
  <2>3. [job.left EXCEPT !.chunks = rows] \in Vectors
    BY <1>1, <2>2, JobFields DEF Vectors
  <2> DEFINE left == [job.left EXCEPT !.chunks = rows]
  <2>4. job' = [job EXCEPT !.reading = "chunks", !.left = left]
    BY <1>1, <2>1 DEF JobRow
  <2> HIDE DEF left
  <2>5. job' \in JobRow
    BY <1>1, <2>3, <2>4 DEF JobRow, left
  <2> QED
    BY <1>3, <2>5 DEF ReadChunks, IndexTypeOK
<1>4. CASE ProviderAnswers
  <2>1. \E left, done \in Vectors : job' = [job EXCEPT !.left = left, !.done = done, !.failures = 0]
    <3>1. ASSUME NEW v \in job.left.memories,
                 job' = [job EXCEPT !.left.memories = @ \ {v}, !.done.memories = @ \cup {v},
                                    !.failures = 0]
          PROVE  \E left, done \in Vectors : job' = [job EXCEPT !.left = left, !.done = done, !.failures = 0]
      <4> DEFINE left == [job.left EXCEPT !.memories = @ \ {v}]
                 done == [job.done EXCEPT !.memories = @ \cup {v}]
      <4>1. left \in Vectors /\ done \in Vectors
        BY <1>1, <1>2, JobFields DEF Vectors
      <4>2. job' = [job EXCEPT !.left = left, !.done = done, !.failures = 0]
        BY <1>1, <3>1 DEF JobRow
      <4> HIDE DEF left, done
      <4> QED
        BY <4>1, <4>2
    <3>2. ASSUME NEW c \in job.left.chunks,
                 job' = [job EXCEPT !.left.chunks = @ \ {c}, !.done.chunks = @ \cup {c},
                                    !.failures = 0]
          PROVE  \E left, done \in Vectors : job' = [job EXCEPT !.left = left, !.done = done, !.failures = 0]
      <4> DEFINE left == [job.left EXCEPT !.chunks = @ \ {c}]
                 done == [job.done EXCEPT !.chunks = @ \cup {c}]
      <4>1. left \in Vectors /\ done \in Vectors
        BY <1>1, <1>2, JobFields DEF Vectors
      <4>2. job' = [job EXCEPT !.left = left, !.done = done, !.failures = 0]
        BY <1>1, <3>2 DEF JobRow
      <4> HIDE DEF left, done
      <4> QED
        BY <4>1, <4>2
    <3> QED
      BY <1>4, <3>1, <3>2 DEF ProviderAnswers
  <2>2. 0 \in 0 .. MaxAttempts - 1
    BY IndexAssumption
  <2>3. job' \in JobRow
    <3>1. PICK left \in Vectors, done \in Vectors :
              job' = [job EXCEPT !.left = left, !.done = done, !.failures = 0]
      BY <2>1
    <3> QED
      BY <1>1, <2>2, <3>1 DEF JobRow
  <2> QED
    BY <1>4, <2>3 DEF ProviderAnswers, IndexTypeOK
<1>5. CASE ProviderFails
  <2>1. job' \in JobRow \cup {Null}
    <3>1. job' = Null \/ (job' = [job EXCEPT !.failures = @ + 1] /\ job.failures + 1 # MaxAttempts)
      BY <1>5 DEF ProviderFails, Retried
    <3>2. job.failures + 1 # MaxAttempts => job.failures + 1 \in 0 .. MaxAttempts - 1
      BY <1>1, JobFields, IndexAssumption
    <3> DEFINE more == job.failures + 1
    <3>3. job' = [job EXCEPT !.failures = more] \/ job' = Null
      BY <3>1
    <3> HIDE DEF more
    <3> QED
      BY <1>1, <3>1, <3>2, <3>3 DEF JobRow, more
  <2> QED
    BY <1>5, <2>1 DEF ProviderFails, IndexTypeOK
<1>6. CASE ProviderRefuses
  BY <1>6 DEF ProviderRefuses, IndexTypeOK
<1>7. CASE StoreVectors
  BY <1>2, <1>7 DEF StoreVectors, IndexTypeOK
<1> QED
  BY <1>3, <1>4, <1>5, <1>6, <1>7 DEF JobStep

LEMMA IndexKeeps ==
    ASSUME VisibilityInv, IndexTypeOK, IndexNext
    PROVE  VisibilityInv' /\ IndexTypeOK'
<1>1. IndexTypeOK'
  <2>1. ASSUME NEW d \in Documents, ForgetDocument(d) PROVE IndexTypeOK'
    BY <2>1 DEF ForgetDocument, IndexTypeOK
  <2> QED
    BY <2>1, JobStarts, JobRuns DEF IndexNext
<1>2. \/ UNCHANGED visibilityVars
      \/ Change /\ UNCHANGED <<memory, policyVars>>
  BY DEF IndexNext, JobStep, ForgetDocument, EmbedMemory, EmbedChunk, Backfill, ReadChunks,
     ProviderAnswers, ProviderFails, ProviderRefuses, StoreVectors
<1>3. CASE UNCHANGED visibilityVars
  BY <1>1, <1>3, NextKeepsVisibility
<1>4. CASE Change /\ UNCHANGED <<memory, policyVars>>
  <2>1. changes' \in 0 .. MaxChanges
    BY <1>4, ChangesAssumption DEF Change, VisibilityInv, VisibilityTypeOK
  <2>2. memory' = memory /\ policy' = policy /\ policyRequest' = policyRequest /\ policyAudit' = policyAudit
    BY <1>4 DEF policyVars
  <2> QED
    BY <1>1, <2>1, <2>2 DEF VisibilityInv, VisibilityTypeOK, AuditShowsPolicy, CreatedBeforeAudited
<1> QED
  BY <1>2, <1>3, <1>4
-------------------------------------------------------------------------------
(* Every step. *)

LEMMA InitRecallInv ==
    ASSUME Init
    PROVE  RecallInv
<1>1. VisibilityInv
  BY InitVisibility DEF Init
<1>2. IndexTypeOK
  BY DEF Init, IndexInit, IndexTypeOK
<1>3. recall = Null /\ recallLog = Null /\ found = Null /\ seen \in SeenRow
  BY DEF Init, NothingSeen, SeenRow
<1>4. TypeOK
  BY <1>1, <1>2, <1>3 DEF TypeOK, VisibilityInv
<1>5. RowsGood /\ KeywordRanked /\ NoVectorsYet /\ AnswerReady /\ FoundSeen
  BY <1>3 DEF RowsGood, KeywordRanked, NoVectorsYet, AnswerReady, FoundSeen
<1>6. AnswersHalfTheLimit /\ FallbackRanksAsKeyword
  BY <1>3 DEF AnswersHalfTheLimit, FallbackRanksAsKeyword, Answered
<1> QED
  BY <1>1, <1>4, <1>5, <1>6 DEF RecallInv

LEMMA RecallInvNext ==
    ASSUME VisibilityInv', IndexTypeOK', FlightInv', FoundSeen', FoundType'
    PROVE  RecallInv'
<1>1. VisibilityTypeOK'
  BY DEF VisibilityInv
<1> QED
  BY <1>1 DEF RecallInv, FlightInv, TypeOK, FoundType

LEMMA NothingFound ==
    ASSUME found' = Null
    PROVE  FoundSeen' /\ FoundType'
BY DEF FoundSeen, FoundType

LEMMA NextKeepsRecallInv ==
    ASSUME RecallInv, [Next]_vars
    PROVE  RecallInv'
<1>1. FlightInv /\ VisibilityInv /\ IndexTypeOK
  BY DEF RecallInv, FlightInv, TypeOK
<1>2. CASE UNCHANGED vars
  <2>1. RecallInv' = RecallInv
    BY <1>2 DEF vars, visibilityVars, policyVars, indexVars, recallVars, RecallInv, TypeOK,
       VisibilityInv, VisibilityTypeOK, AuditShowsPolicy, CreatedBeforeAudited, IndexTypeOK, RowsGood,
       Good, RowSeen, RowGrounded, KeywordRanked, NoVectorsYet, AnswerReady, KeywordReady,
       FallbackReady, FoundSeen, MaySee, AdmittedWithoutAgent, Matching, Live, ActiveChunks,
       AnswersHalfTheLimit, FallbackRanksAsKeyword, Answered, Answer
  <2> QED
    BY <2>1
<1>3. CASE Next
  <2>1. Observe
    BY <1>3 DEF Next
  <2>2. CASE VisibilityNext /\ UNCHANGED <<indexVars, recallVars>> /\ found' = Null
    <3>1. VisibilityInv'
      BY <1>1, <2>2, NextKeepsVisibility
    <3>2. IndexTypeOK'
      BY <1>1, <2>2 DEF IndexTypeOK, indexVars
    <3>3. FlightInv'
      BY <1>1, <2>1, <2>2, OthersKeep DEF recallVars
    <3> QED
      BY <2>2, <3>1, <3>2, <3>3, NothingFound, RecallInvNext
  <2>3. CASE IndexNext /\ UNCHANGED recallVars /\ found' = Null
    <3>1. VisibilityInv' /\ IndexTypeOK'
      BY <1>1, <2>3, IndexKeeps
    <3>2. FlightInv'
      BY <1>1, <2>1, <2>3, OthersKeep DEF recallVars
    <3> QED
      BY <2>3, <3>1, <3>2, NothingFound, RecallInvNext
  <2>4. CASE RecallNext /\ found' = Null
    <3>1. UNCHANGED visibilityVars /\ UNCHANGED indexVars
      BY <2>4 DEF RecallNext, BeginRecall, KeywordQuery, MemoryVectorQuery, ChunkVectorQuery,
         AnswerRecall, FailRecall
    <3>2. VisibilityInv'
      BY <1>1, <3>1, NextKeepsVisibility
    <3>3. IndexTypeOK'
      BY <1>1, <3>1 DEF IndexTypeOK, indexVars
    <3>4. FlightInv'
      BY <1>1, <2>1, <2>4, RecallKeeps
    <3> QED
      BY <2>4, <3>2, <3>3, <3>4, NothingFound, RecallInvNext
  <2>5. CASE /\ \E agent \in Agents \cup {Null}, scope \in SearchScopes : Search(agent, scope)
             /\ UNCHANGED recallVars
    <3>1. FoundSeen' /\ FoundType'
      BY <2>5, SearchFinds
    <3>2. UNCHANGED visibilityVars /\ UNCHANGED indexVars
      BY <2>5 DEF Search
    <3>3. VisibilityInv'
      BY <1>1, <3>2, NextKeepsVisibility
    <3>4. IndexTypeOK'
      BY <1>1, <3>2 DEF IndexTypeOK, indexVars
    <3>5. FlightInv'
      BY <1>1, <2>1, <2>5, OthersKeep DEF recallVars
    <3> QED
      BY <3>1, <3>3, <3>4, <3>5, RecallInvNext
  <2> QED
    BY <1>3, <2>2, <2>3, <2>4, <2>5 DEF Next
<1> QED
  BY <1>2, <1>3

-------------------------------------------------------------------------------
(* The theorems. *)

\* However policies, memories, documents and vectors change between the statements of a recall,
\* what it has gathered could be seen and rests on what was active (execute_recall).
THEOREM RecallInvariance == Spec => []RecallInv
BY InitRecallInv, NextKeepsRecallInv, PTL DEF Spec

\* The state of recalls, searches, vectors, embedding requests and policies is well typed.
THEOREM RecallTypeCorrect == Spec => []TypeOK
<1>1. RecallInv => TypeOK
  BY DEF RecallInv
<1> QED
  BY <1>1, RecallInvariance, PTL

\* A memory is answered to an agent only if its policies, status and window let the agent see it
\* at some moment of the request, and to a caller without an agent only if its access level was
\* public or project then, whatever its window; what a search finds is admitted at that moment.
THEOREM AnswersWereVisible == Spec => []EveryAnswerWasVisible
<1>1. RecallInv => EveryAnswerWasVisible
  BY DEF RecallInv, EveryAnswerWasVisible, RowsGood, Good, RowSeen, FoundSeen, Answered, Answer
<1> QED
  BY <1>1, RecallInvariance, PTL

\* No answer rests on a chunk whose document was forgotten before the request began.
THEOREM AnswersAreGrounded == Spec => []EveryAnswerGrounded
<1>1. RecallInv => EveryAnswerGrounded
  BY DEF RecallInv, EveryAnswerGrounded, RowsGood, Good, RowGrounded, Answered, Answer
<1> QED
  BY <1>1, RecallInvariance, PTL

\* An answer has each memory once, keeps to the limit, and a keyword answer has half of what was
\* asked for when so many memories match.
THEOREM AnswersKeepToLimit == Spec => []AnswersHalfTheLimit
<1>1. RecallInv => AnswersHalfTheLimit
  BY DEF RecallInv
<1> QED
  BY <1>1, RecallInvariance, PTL

\* Without vectors a hybrid answer is the keyword answer.
THEOREM FallbackIsKeyword == Spec => []FallbackRanksAsKeyword
<1>1. RecallInv => FallbackRanksAsKeyword
  BY DEF RecallInv
<1> QED
  BY <1>1, RecallInvariance, PTL


===============================================================================
