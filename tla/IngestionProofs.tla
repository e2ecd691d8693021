--------------------------- MODULE IngestionProofs ---------------------------
(***************************************************************************)
(* Proofs about Chunking, for every text, and about Ingestion, for any     *)
(* number of imports, notes and extraction runs, whatever a model replies. *)
(***************************************************************************)
EXTENDS Ingestion, FiniteSetTheorems, WellFoundedInduction, TLAPS

-------------------------------------------------------------------------------
(* Induction over the numbers, for sets of numbers instead of predicates. *)

LEMMA Least ==
    ASSUME NEW S, S \subseteq Nat, S # {}
    PROVE  \E x \in S : \A y \in S : x <= y
<1>1. PICK x \in S : \A y \in S : ~(<<y, x>> \in OpToRel(<, Nat))
  BY NatLessThanWellFounded, WFMin
<1>2. \A y \in S : ~(y < x)
  BY <1>1 DEF OpToRel
<1> QED
  BY <1>2

LEMMA UpTo ==
    ASSUME NEW N \in Nat, NEW S, 0 \in S, \A n \in 1 .. N : n - 1 \in S => n \in S
    PROVE  N \in S
<1> SUFFICES ASSUME N \notin S PROVE FALSE
  OBVIOUS
<1> DEFINE Rest == {k \in 0 .. N : k \notin S}
<1>1. PICK x \in Rest : \A y \in Rest : x <= y
  <2>1. Rest \subseteq Nat /\ Rest # {}
    OBVIOUS
  <2> HIDE DEF Rest
  <2> QED
    BY <2>1, Least
<1>2. x # 0 /\ x \in 1 .. N /\ x \notin S
  OBVIOUS
<1>3. x - 1 \in 0 .. N /\ x - 1 \notin Rest
  BY <1>1, <1>2
<1> QED
  BY <1>2, <1>3

\* The functions given by recursion along the numbers: step n takes the value before it.
Solutions(N, V, base, F) ==
    {f \in [0 .. N -> V] : f[0] = base /\ \A n \in 1 .. N : f[n] = F[n][f[n - 1]]}

LEMMA Recursion ==
    ASSUME NEW N \in Nat, NEW V, NEW base \in V, NEW F \in [1 .. N -> [V -> V]]
    PROVE  Solutions(N, V, base, F) # {}
<1> DEFINE S == {k \in 0 .. N : Solutions(k, V, base, F) # {}}
<1>1. 0 \in S
  <2>1. [n \in 0 .. 0 |-> base] \in Solutions(0, V, base, F)
    BY DEF Solutions
  <2> QED
    BY <2>1
<1>2. \A k \in 1 .. N : k - 1 \in S => k \in S
  <2> SUFFICES ASSUME NEW k \in 1 .. N, Solutions(k - 1, V, base, F) # {}
               PROVE  Solutions(k, V, base, F) # {}
    OBVIOUS
  <2>1. PICK f \in Solutions(k - 1, V, base, F) : TRUE
    OBVIOUS
  <2> DEFINE g == [n \in 0 .. k |-> IF n = k THEN F[k][f[k - 1]] ELSE f[n]]
  <2>2. f \in [0 .. k - 1 -> V]
    BY <2>1 DEF Solutions
  <2>3. F[k][f[k - 1]] \in V
    BY <2>2
  <2>4. g \in [0 .. k -> V]
    BY <2>2, <2>3
  <2>5. g[0] = base /\ \A n \in 1 .. k : g[n] = F[n][g[n - 1]]
    <3>1. f[0] = base /\ \A n \in 1 .. k - 1 : f[n] = F[n][f[n - 1]]
      BY <2>1 DEF Solutions
    <3>2. g[0] = base
      BY <3>1
    <3>3. ASSUME NEW n \in 1 .. k PROVE g[n] = F[n][g[n - 1]]
      <4>1. n \in 0 .. k /\ n - 1 \in 0 .. k /\ n - 1 # k
        OBVIOUS
      <4>2. g[n - 1] = f[n - 1]
        BY <4>1
      <4>3. CASE n = k
        BY <4>2, <4>3
      <4>4. CASE n # k
        <5>1. n \in 1 .. k - 1 /\ g[n] = f[n]
          BY <4>4
        <5> QED
          BY <3>1, <4>2, <5>1
      <4> QED
        BY <4>3, <4>4
    <3> QED
      BY <3>2, <3>3
  <2>6. g \in Solutions(k, V, base, F)
    BY <2>4, <2>5 DEF Solutions
  <2> QED
    BY <2>6
<1>3. N \in S
  <2> HIDE DEF S
  <2> QED
    BY <1>1, <1>2, UpTo
<1> QED
  BY <1>3

-------------------------------------------------------------------------------
(* The length of lines first .. last. *)

\* JoinedLength adds line by line.
LEMMA JoinedSums ==
    ASSUME NEW text \in Seq(Nat), NEW first \in 1 .. Len(text)
    PROVE  \E f \in [0 .. Len(text) - first -> Nat] :
              /\ f[0] = text[first]
              /\ \A n \in 1 .. Len(text) - first : f[n] = f[n - 1] + 1 + text[first + n]
              /\ \A last \in first .. Len(text) : JoinedLength(text, first, last) = f[last - first]
<1> DEFINE N == Len(text) - first
           Sums == Nat
           start == text[first]
           F == [n \in 1 .. N |-> [sum \in Sums |-> sum + 1 + text[first + n]]]
<1>1. N \in Nat /\ text[first] \in Nat /\ \A n \in 1 .. N : text[first + n] \in Nat
  OBVIOUS
<1>2. start \in Sums /\ F \in [1 .. N -> [Sums -> Sums]]
  BY <1>1
<1>3. PICK f \in [0 .. N -> Sums] :
            f[0] = start /\ \A n \in 1 .. N : f[n] = F[n][f[n - 1]]
  <2>1. N \in Nat
    BY <1>1
  <2>2. Solutions(N, Sums, start, F) # {}
    <3> HIDE DEF N, F, Sums, start
    <3> QED
      BY <2>1, <1>2, Recursion
  <2>3. PICK f : f \in Solutions(N, Sums, start, F)
    BY <2>2
  <2> HIDE DEF N, F, Sums, start
  <2> QED
    BY <2>3 DEF Solutions
<1>4. \A n \in 1 .. N : f[n] = f[n - 1] + 1 + text[first + n]
  <2> TAKE n \in 1 .. N
  <2>1. n \in 0 .. N /\ n # 0 /\ n - 1 \in 0 .. N
    BY <1>1
  <2>2. f[n] = F[n][f[n - 1]] /\ f[n - 1] \in Nat
    <3> HIDE DEF F
    <3> QED
      BY <1>3, <2>1
  <2> QED
    BY <2>2
<1>5. f[0] = text[first]
  <2> HIDE DEF F
  <2> QED
    BY <1>1, <1>3
<1>6. ASSUME NEW last \in first .. Len(text)
      PROVE  JoinedLength(text, first, last) = f[last - first]
  <2> DEFINE g == [l \in first .. last |-> f[l - first]]
             Body(h, l) == IF l = first THEN text[l] ELSE h[l - 1] + 1 + text[l]
             h == CHOOSE q : q = [l \in first .. last |-> Body(q, l)]
  <2>1. g = [l \in first .. last |-> Body(g, l)]
    <3> SUFFICES ASSUME NEW l \in first .. last PROVE g[l] = Body(g, l)
      OBVIOUS
    <3>1. CASE l = first
      BY <3>1, <1>5
    <3>2. CASE l # first
      <4>1. l - first \in 1 .. N /\ first + (l - first) = l /\ l - 1 \in first .. last
            /\ (l - first) - 1 = (l - 1) - first
        BY <3>2
      <4>2. g[l] = f[l - first] /\ g[l - 1] = f[(l - first) - 1]
        BY <4>1
      <4>3. f[l - first] = f[(l - first) - 1] + 1 + text[first + (l - first)]
        BY <4>1, <1>4
      <4> QED
        BY <3>2, <4>1, <4>2, <4>3
    <3> QED
      BY <3>1, <3>2
  <2>2. h = [l \in first .. last |-> Body(h, l)]
    <3> HIDE DEF g, Body
    <3> QED
      BY <2>1
  <2> HIDE DEF h
  <2> DEFINE S == {k \in Nat : k <= last - first => h[first + k] = f[k]}
             M == last - first
  <2>3. 0 \in S
    BY <2>2, <1>5
  <2>4. \A k \in 1 .. M : k - 1 \in S => k \in S
    <3> SUFFICES ASSUME NEW k \in 1 .. M, h[first + (k - 1)] = f[k - 1]
                 PROVE  h[first + k] = f[k]
      OBVIOUS
    <3>1. first + k \in first .. last /\ first + k # first /\ (first + k) - 1 = first + (k - 1)
          /\ k \in 1 .. N
      OBVIOUS
    <3>2. h[first + k] = h[(first + k) - 1] + 1 + text[first + k]
      BY <2>2, <3>1
    <3> QED
      BY <3>1, <3>2, <1>4
  <2>5. M \in S
    <3>1. M \in Nat /\ M \in 0 .. M
      OBVIOUS
    <3> HIDE DEF S, M
    <3> QED
      BY <2>3, <2>4, <3>1, UpTo
  <2>6. h[last] = f[last - first]
    BY <2>5
  <2>7. JoinedLength(text, first, last) = h[last]
    BY DEF JoinedLength, h, Body
  <2> QED
    BY <2>6, <2>7
<1> QED
  BY <1>4, <1>5, <1>6

LEMMA JoinedSteps ==
    ASSUME NEW text \in Seq(Nat), NEW first \in 1 .. Len(text)
    PROVE  /\ JoinedLength(text, first, first) = text[first]
           /\ \A last \in first .. Len(text) : JoinedLength(text, first, last) \in Nat
           /\ \A last \in first .. Len(text) : last # Len(text) =>
                 JoinedLength(text, first, last + 1)
                    = JoinedLength(text, first, last) + 1 + text[last + 1]
<1>1. PICK f \in [0 .. Len(text) - first -> Nat] :
              /\ f[0] = text[first]
              /\ \A n \in 1 .. Len(text) - first : f[n] = f[n - 1] + 1 + text[first + n]
              /\ \A last \in first .. Len(text) : JoinedLength(text, first, last) = f[last - first]
  BY JoinedSums
<1>2. first \in first .. Len(text) /\ first - first = 0
  OBVIOUS
<1>3. \A last \in first .. Len(text) :
          /\ last - first \in 0 .. Len(text) - first
          /\ last # Len(text) =>
                /\ last + 1 \in first .. Len(text)
                /\ (last + 1) - first \in 1 .. Len(text) - first
                /\ ((last + 1) - first) - 1 = last - first
                /\ first + ((last + 1) - first) = last + 1
  OBVIOUS
<1>4. \A last \in first .. Len(text) : f[last - first] \in Nat
  BY <1>1, <1>3
<1>5. ASSUME NEW last \in first .. Len(text), last # Len(text)
      PROVE  JoinedLength(text, first, last + 1)
                    = JoinedLength(text, first, last) + 1 + text[last + 1]
  <2>1. f[(last + 1) - first] = f[last - first] + 1 + text[last + 1]
    BY <1>1, <1>3, <1>5
  <2> QED
    BY <1>1, <1>3, <1>5, <2>1
<1> QED
  BY <1>1, <1>2, <1>4, <1>5

\* More lines are longer, whether they are added at the end or at the beginning.
LEMMA JoinedGrows ==
    ASSUME NEW text \in Seq(Nat), NEW first \in 1 .. Len(text), NEW last \in first .. Len(text)
    PROVE  /\ \A mid \in first .. last :
                 JoinedLength(text, first, mid) <= JoinedLength(text, first, last)
           /\ \A mid \in first .. last :
                 JoinedLength(text, mid, last) <= JoinedLength(text, first, last)
<1> DEFINE J(a, b) == JoinedLength(text, a, b)
           lines(a) == a .. Len(text)
<1>1. \A a \in 1 .. Len(text) :
          /\ \A b \in lines(a) : J(a, b) \in Nat
          /\ \A b \in lines(a) : b # Len(text) => J(a, b + 1) = J(a, b) + 1 + text[b + 1]
          /\ J(a, a) = text[a]
  BY JoinedSteps
<1>2. \A i \in 1 .. Len(text) : text[i] \in Nat
  OBVIOUS
<1> HIDE DEF J
<1>3. ASSUME NEW mid \in first .. last PROVE J(first, mid) <= J(first, last)
  <2> DEFINE S == {k \in Nat : mid + k <= last => J(first, mid) <= J(first, mid + k)}
             N == last - mid
  <2>1. 0 \in S
    <3>1. mid \in lines(first) /\ mid + 0 = mid
      OBVIOUS
    <3>2. J(first, mid) \in Nat
      BY <1>1, <3>1
    <3> QED
      BY <3>1, <3>2
  <2>2. \A k \in 1 .. N : k - 1 \in S => k \in S
    <3> SUFFICES ASSUME NEW k \in 1 .. N, J(first, mid) <= J(first, mid + (k - 1))
                 PROVE  J(first, mid) <= J(first, mid + k)
      OBVIOUS
    <3>1. mid + (k - 1) \in lines(first) /\ mid + (k - 1) # Len(text)
          /\ (mid + (k - 1)) + 1 = mid + k /\ mid + k \in 1 .. Len(text) /\ mid \in lines(first)
          /\ mid + k \in lines(first)
      OBVIOUS
    <3>2. J(first, mid + k) = J(first, mid + (k - 1)) + 1 + text[mid + k]
      BY <1>1, <3>1
    <3>3. J(first, mid) \in Nat /\ J(first, mid + (k - 1)) \in Nat /\ text[mid + k] \in Nat
      BY <1>1, <1>2, <3>1
    <3> QED
      BY <3>2, <3>3
  <2>3. N \in S
    <3>1. N \in Nat
      OBVIOUS
    <3> HIDE DEF S, N
    <3> QED
      BY <2>1, <2>2, <3>1, UpTo
  <2> QED
    BY <2>3
<1>4. ASSUME NEW a \in 1 .. Len(text), NEW b \in a .. Len(text), a # b
      PROVE  J(a, b) = text[a] + 1 + J(a + 1, b)
  <2> DEFINE S == {k \in Nat : a + 1 + k <= b => J(a, a + 1 + k) = text[a] + 1 + J(a + 1, a + 1 + k)}
             N == b - (a + 1)
  <2>1. 0 \in S
    <3>1. a \in lines(a) /\ a # Len(text) /\ a + 1 \in 1 .. Len(text) /\ a + 1 + 0 = a + 1
      BY <1>4
    <3>2. J(a, a + 1) = text[a] + 1 + text[a + 1] /\ J(a + 1, a + 1) = text[a + 1]
      BY <1>1, <3>1
    <3> QED
      BY <3>1, <3>2
  <2>2. \A k \in 1 .. N : k - 1 \in S => k \in S
    <3> SUFFICES ASSUME NEW k \in 1 .. N,
                        J(a, a + 1 + (k - 1)) = text[a] + 1 + J(a + 1, a + 1 + (k - 1))
                 PROVE  J(a, a + 1 + k) = text[a] + 1 + J(a + 1, a + 1 + k)
      OBVIOUS
    <3>1. /\ a + 1 + (k - 1) \in lines(a) /\ a + 1 + (k - 1) \in lines(a + 1)
          /\ a + 1 + (k - 1) # Len(text) /\ (a + 1 + (k - 1)) + 1 = a + 1 + k
          /\ a + 1 \in 1 .. Len(text) /\ a + 1 + k \in 1 .. Len(text)
      OBVIOUS
    <3>2. /\ J(a, a + 1 + k) = J(a, a + 1 + (k - 1)) + 1 + text[a + 1 + k]
          /\ J(a + 1, a + 1 + k) = J(a + 1, a + 1 + (k - 1)) + 1 + text[a + 1 + k]
      BY <1>1, <3>1
    <3>3. /\ J(a + 1, a + 1 + (k - 1)) \in Nat /\ text[a] \in Nat /\ text[a + 1 + k] \in Nat
      BY <1>1, <1>2, <3>1
    <3> DEFINE p == J(a + 1, a + 1 + (k - 1))
               q == text[a + 1 + k]
               x == text[a]
               y == J(a, a + 1 + (k - 1))
    <3>4. p \in Nat /\ q \in Nat /\ x \in Nat /\ y = x + 1 + p
      BY <3>3
    <3>5. J(a, a + 1 + k) = y + 1 + q /\ J(a + 1, a + 1 + k) = p + 1 + q
      BY <3>2
    <3> HIDE DEF p, q, x, y
    <3>6. y + 1 + q = x + 1 + (p + 1 + q)
      BY <3>4
    <3>7. J(a, a + 1 + k) = x + 1 + J(a + 1, a + 1 + k)
      BY ONLY <3>5, <3>6
    <3> QED
      BY <3>7 DEF x
  <2>3. N \in S
    <3>1. N \in Nat
      BY <1>4
    <3> HIDE DEF S, N
    <3> QED
      BY <2>1, <2>2, <3>1, UpTo
  <2>4. a + 1 + N = b /\ N \in Nat
    BY <1>4
  <2> QED
    BY <2>3, <2>4
<1>5. ASSUME NEW mid \in first .. last PROVE J(mid, last) <= J(first, last)
  <2> DEFINE S == {k \in Nat : first + k <= last => J(first + k, last) <= J(first, last)}
             N == mid - first
  <2>1. 0 \in S
    BY <1>1
  <2>2. \A k \in 1 .. N : k - 1 \in S => k \in S
    <3> SUFFICES ASSUME NEW k \in 1 .. N, J(first + (k - 1), last) <= J(first, last)
                 PROVE  J(first + k, last) <= J(first, last)
      OBVIOUS
    <3>1. first + (k - 1) \in 1 .. Len(text) /\ last \in lines(first + (k - 1))
          /\ first + (k - 1) # last /\ (first + (k - 1)) + 1 = first + k
          /\ first + k \in 1 .. Len(text) /\ last \in lines(first + k) /\ last \in lines(first)
      OBVIOUS
    <3>2. J(first + (k - 1), last) = text[first + (k - 1)] + 1 + J(first + k, last)
      BY <1>4, <3>1
    <3>3. J(first + k, last) \in Nat /\ J(first, last) \in Nat /\ text[first + (k - 1)] \in Nat
          /\ J(first + (k - 1), last) \in Nat
      BY <1>1, <1>2, <3>1
    <3> QED
      BY <3>2, <3>3
  <2>3. N \in S
    <3>1. N \in Nat
      OBVIOUS
    <3> HIDE DEF S, N
    <3> QED
      BY <2>1, <2>2, <3>1, UpTo
  <2>4. first + N = mid /\ N \in Nat
    OBVIOUS
  <2> QED
    BY <2>3, <2>4
<1> QED
  BY <1>3, <1>5 DEF J

-------------------------------------------------------------------------------
(* The windows of a text. *)

\* There is a last line for every window.
LEMMA WindowEndFits ==
    ASSUME NEW text \in Seq(Nat), NEW first \in 1 .. Len(text)
    PROVE  LET last == WindowEnd(text, first) IN
           /\ last \in first .. Len(text)
           /\ last = first \/ JoinedLength(text, first, last) <= MaxChars
           /\ last = Len(text) \/ JoinedLength(text, first, last + 1) > MaxChars
<1> DEFINE J(l) == JoinedLength(text, first, l)
           Full == {l \in first .. Len(text) : l = Len(text) \/ J(l + 1) > MaxChars}
<1>1. \A l \in first .. Len(text) : J(l) \in Nat
  BY JoinedSteps
<1> HIDE DEF J
<1>2. PICK l \in Full : \A k \in Full : l <= k
  <2>1. Full \subseteq Nat /\ Len(text) \in Full
    OBVIOUS
  <2> HIDE DEF Full
  <2> QED
    BY <2>1, Least
<1>3. l = first \/ J(l) <= MaxChars
  <2> SUFFICES ASSUME l # first PROVE J(l) <= MaxChars
    OBVIOUS
  <2>1. l - 1 \in first .. Len(text) /\ l - 1 # Len(text) /\ (l - 1) + 1 = l /\ l \in first .. Len(text)
    BY <1>2
  <2>2. l - 1 \notin Full
    <3> HIDE DEF Full
    <3>1. ~(l <= l - 1)
      BY <2>1
    <3> QED
      BY <1>2, <3>1
  <2>3. ~(J(l) > MaxChars)
    BY <2>1, <2>2
  <2> QED
    BY <1>1, <2>1, <2>3, ChunkingAssumption
<1>4. \E last \in first .. Len(text) :
        /\ last = first \/ J(last) <= MaxChars
        /\ last = Len(text) \/ J(last + 1) > MaxChars
  BY <1>2, <1>3
<1> QED
  BY <1>4 DEF WindowEnd, J

\* The next window starts after this one does, and before or right after its end.
LEMMA WindowsAdvance ==
    ASSUME NEW first \in Nat, NEW last \in Nat, first <= last
    PROVE  NextWindow(first, last) \in first + 1 .. last + 1
BY ChunkingAssumption DEF NextWindow

\* A window reaches at least as far as one that starts before it and not after its end.
LEMMA WindowsReach ==
    ASSUME NEW text \in Seq(Nat), NEW first \in 1 .. Len(text),
           NEW next \in 1 .. Len(text), first < next, next <= WindowEnd(text, first) + 1
    PROVE  WindowEnd(text, first) <= WindowEnd(text, next)
<1> DEFINE last == WindowEnd(text, first)
           end == WindowEnd(text, next)
           J(a, b) == JoinedLength(text, a, b)
<1>1. /\ last \in first .. Len(text)
      /\ last = first \/ J(first, last) <= MaxChars
  BY WindowEndFits
<1>2. /\ end \in next .. Len(text)
      /\ end = Len(text) \/ J(next, end + 1) > MaxChars
  BY WindowEndFits
<1>3. next <= last + 1
  OBVIOUS
<1> SUFFICES ASSUME end < last PROVE FALSE
  BY <1>1, <1>2
<1>4. /\ next \in first .. last /\ last \in next .. Len(text) /\ end + 1 \in next .. last
      /\ last # first /\ end # Len(text)
  <2> HIDE DEF last, end
  <2> QED
    BY <1>1, <1>2, <1>3
<1>5. J(next, end + 1) <= J(next, last)
  <2> HIDE DEF last, end
  <2> QED
    BY <1>4, JoinedGrows
<1>6. J(next, last) <= J(first, last)
  <2> HIDE DEF last, end
  <2> QED
    BY <1>1, <1>4, JoinedGrows
<1>7. J(next, end + 1) \in Nat /\ J(next, last) \in Nat /\ J(first, last) \in Nat
  <2>1. end + 1 \in next .. Len(text)
    BY <1>2, <1>4
  <2> HIDE DEF last, end
  <2> QED
    BY <1>1, <1>4, <2>1, JoinedSteps
<1> HIDE DEF last, end, J
<1> QED
  BY <1>1, <1>2, <1>4, <1>5, <1>6, <1>7, ChunkingAssumption

\* Windows that cover the lines from first to the end of a text.
CoverFrom(windows, text, first) ==
    /\ windows \in Seq(Chunks) /\ windows # <<>>
    /\ windows[1].start_line = first
    /\ \A k \in DOMAIN windows :
          LET c == windows[k] IN
          /\ c.start_line \in 1 .. Len(text) /\ c.end_line = WindowEnd(text, c.start_line)
          /\ k > 1 => /\ c.start_line > windows[k - 1].start_line
                      /\ c.end_line >= windows[k - 1].end_line
    /\ \A i \in first .. Len(text) :
          \E k \in DOMAIN windows : i \in windows[k].start_line .. windows[k].end_line

\* A window before those that cover what it leaves.
LEMMA WindowBefore ==
    ASSUME NEW text \in Seq(Nat), NEW first \in 1 .. Len(text), NEW rest,
           LET last == WindowEnd(text, first) IN
           IF last = Len(text) THEN rest = <<>>
           ELSE CoverFrom(rest, text, NextWindow(first, last))
    PROVE  CoverFrom(<<ChunkOf(first, WindowEnd(text, first))>> \o rest, text, first)
<1> DEFINE last == WindowEnd(text, first)
           next == NextWindow(first, last)
           c == ChunkOf(first, last)
           windows == <<c>> \o rest
<1>1. last \in first .. Len(text)
  BY WindowEndFits
<1>2. c \in Chunks /\ c.start_line = first /\ c.end_line = last
  BY <1>1 DEF ChunkOf, Chunks
<1>3. CASE last = Len(text)
  <2>1. windows = <<c>>
    BY <1>3
  <2>2. windows \in Seq(Chunks) /\ Len(windows) = 1 /\ windows[1] = c /\ DOMAIN windows = {1}
    <3> HIDE DEF c, windows
    <3> QED
      BY <2>1, <1>2
  <2>5. \A i \in first .. Len(text) :
            \E k \in DOMAIN windows : i \in windows[k].start_line .. windows[k].end_line
    <3>1. windows[1].start_line = first /\ windows[1].end_line = Len(text) /\ 1 \in DOMAIN windows
      <4> HIDE DEF c, windows, last
      <4> QED
        BY <1>2, <1>3, <2>2
    <3> HIDE DEF windows
    <3> QED
      BY <3>1
  <2>6. windows # <<>>
    BY <2>1
  <2> HIDE DEF c, windows
  <2>3. CoverFrom(windows, text, first)
    <3>1. \A k \in DOMAIN windows : k = 1 /\ windows[k] = c
      BY <2>2
    <3>2. \A k \in DOMAIN windows :
              /\ windows[k].start_line = first /\ windows[k].end_line = last /\ ~(k > 1)
      <4> HIDE DEF last
      <4> QED
        BY <3>1, <1>2
    <3>3. \A k \in DOMAIN windows :
              LET d == windows[k] IN
              /\ d.start_line \in 1 .. Len(text) /\ d.end_line = WindowEnd(text, d.start_line)
              /\ k > 1 => /\ d.start_line > windows[k - 1].start_line
                          /\ d.end_line >= windows[k - 1].end_line
      BY <3>2
    <3>4. windows[1].start_line = first
      BY <1>2, <2>2
    <3> QED
      BY <2>2, <2>5, <2>6, <3>3, <3>4 DEF CoverFrom
  <2> QED
    BY <2>3 DEF windows, c
<1>4. CASE last # Len(text)
  <2>1. next \in first + 1 .. last + 1
    <3>1. first \in Nat /\ last \in Nat /\ first <= last
      <4> HIDE DEF last
      <4> QED
        BY <1>1
    <3> HIDE DEF last
    <3> QED
      BY <3>1, WindowsAdvance
  <2>2. next \in 1 .. Len(text) /\ first < next /\ next <= last + 1
    <3> HIDE DEF next, last
    <3> QED
      BY <1>1, <1>4, <2>1
  <2>3. CoverFrom(rest, text, next)
    BY <1>4
  <2>4. last <= WindowEnd(text, next)
    BY <2>2, WindowsReach
  <2> HIDE DEF c, last, next
  <2>5. rest \in Seq(Chunks) /\ rest # <<>> /\ Len(rest) \in Nat
    BY <2>3 DEF CoverFrom
  <2>6. /\ windows \in Seq(Chunks) /\ Len(windows) = Len(rest) + 1
        /\ windows[1] = c /\ \A k \in 2 .. Len(rest) + 1 : windows[k] = rest[k - 1]
    BY <1>2, <2>5
  <2> HIDE DEF windows
  <2>7. \A k \in DOMAIN windows : k = 1 \/ (k \in 2 .. Len(rest) + 1 /\ k - 1 \in DOMAIN rest)
    BY <2>5, <2>6
  <2>8. ASSUME NEW k \in DOMAIN windows
        PROVE  LET d == windows[k] IN
               /\ d.start_line \in 1 .. Len(text) /\ d.end_line = WindowEnd(text, d.start_line)
               /\ k > 1 => /\ d.start_line > windows[k - 1].start_line
                           /\ d.end_line >= windows[k - 1].end_line
    <3>1. CASE k = 1
      BY <3>1, <1>2, <2>6 DEF last
    <3>2. CASE k = 2
      <4>1. windows[k] = rest[1] /\ windows[k - 1] = c /\ 1 \in DOMAIN rest
        BY <3>2, <2>5, <2>6
      <4>2. rest[1].start_line = next /\ rest[1].end_line = WindowEnd(text, next)
        BY <2>3, <4>1 DEF CoverFrom
      <4> QED
        BY <1>1, <1>2, <2>2, <2>4, <4>1, <4>2
    <3>3. CASE k > 2
      <4>1. /\ k - 1 \in DOMAIN rest /\ k - 1 > 1 /\ windows[k] = rest[k - 1]
            /\ windows[k - 1] = rest[(k - 1) - 1]
        BY <3>3, <2>5, <2>6, <2>7
      <4> QED
        BY <2>3, <4>1 DEF CoverFrom
    <3> QED
      BY <3>1, <3>2, <3>3, <2>5, <2>6
  <2>9. ASSUME NEW i \in first .. Len(text)
        PROVE  \E k \in DOMAIN windows : i \in windows[k].start_line .. windows[k].end_line
    <3>1. CASE i <= last
      <4>1. 1 \in DOMAIN windows
        BY <2>5, <2>6
      <4>2. windows[1].start_line = first /\ windows[1].end_line = last
        BY <1>2, <2>6
      <4>3. i \in first .. last
        BY <1>1, <3>1
      <4> QED
        BY <4>1, <4>2, <4>3
    <3>2. CASE i > last
      <4>1. i \in next .. Len(text)
        BY <1>1, <2>2, <3>2
      <4>2. PICK k \in DOMAIN rest : i \in rest[k].start_line .. rest[k].end_line
        BY <2>3, <4>1 DEF CoverFrom
      <4>3. k + 1 \in DOMAIN windows /\ windows[k + 1] = rest[k]
        BY <2>5, <2>6
      <4> QED
        BY <4>2, <4>3
    <3> QED
      BY <1>1, <3>1, <3>2
  <2>10. windows # <<>> /\ windows[1].start_line = first
    BY <1>2, <2>5, <2>6
  <2>11. CoverFrom(windows, text, first)
    BY <2>6, <2>8, <2>9, <2>10 DEF CoverFrom
  <2> QED
    BY <2>11 DEF windows, c, last
<1> QED
  BY <1>3, <1>4

\* What from[first] is in Windows.
WindowsStep(text, from, first) ==
    IF first > Len(text) THEN <<>>
    ELSE LET last == WindowEnd(text, first) IN
         <<ChunkOf(first, last)>>
            \o IF last = Len(text) THEN <<>> ELSE from[NextWindow(first, last)]

WindowsFrom(text, first) ==
    {f \in [first .. Len(text) + 1 -> Seq(Chunks)] :
        \A i \in first .. Len(text) + 1 : f[i] = WindowsStep(text, f, i)}

LEMMA NextWindowInText ==
    ASSUME NEW text \in Seq(Nat), NEW first \in 1 .. Len(text),
           WindowEnd(text, first) # Len(text)
    PROVE  NextWindow(first, WindowEnd(text, first)) \in first + 1 .. Len(text)
<1> DEFINE last == WindowEnd(text, first)
           next == NextWindow(first, last)
<1>1. last \in first .. Len(text)
  BY WindowEndFits
<1> HIDE DEF last
<1>2. first \in Nat /\ last \in Nat /\ first <= last /\ last # Len(text)
  BY <1>1 DEF last
<1>3. next \in first + 1 .. last + 1
  BY <1>2, WindowsAdvance
<1> HIDE DEF next
<1>4. next \in first + 1 .. Len(text)
  BY <1>1, <1>2, <1>3
<1> QED
  BY <1>4 DEF next, last

\* The recursion over the windows ends, and gives windows that cover the text.
LEMMA WindowsExist ==
    ASSUME NEW text \in Seq(Nat)
    PROVE  \E f \in WindowsFrom(text, 1) : TRUE
<1> DEFINE L == Len(text)
           S == {k \in Nat : k <= L => WindowsFrom(text, L + 1 - k) # {}}
<1>1. 0 \in S
  <2> DEFINE f == [i \in L + 1 - 0 .. L + 1 |-> <<>>]
  <2>1. f \in [L + 1 - 0 .. L + 1 -> Seq(Chunks)]
    OBVIOUS
  <2>2. \A i \in L + 1 - 0 .. L + 1 : f[i] = WindowsStep(text, f, i)
    BY DEF WindowsStep
  <2>3. f \in WindowsFrom(text, L + 1 - 0)
    <3> HIDE DEF f
    <3> QED
      BY <2>1, <2>2 DEF WindowsFrom
  <2> QED
    BY <2>3
<1>2. \A k \in 1 .. L : k - 1 \in S => k \in S
  <2> SUFFICES ASSUME NEW k \in 1 .. L, WindowsFrom(text, L + 1 - (k - 1)) # {}
               PROVE  WindowsFrom(text, L + 1 - k) # {}
    OBVIOUS
  <2> DEFINE a == L + 1 - k
  <2>1. a \in 1 .. L /\ L + 1 - (k - 1) = a + 1
    OBVIOUS
  <2>2. PICK f \in WindowsFrom(text, a + 1) : TRUE
    BY <2>1
  <2>3. /\ f \in [a + 1 .. L + 1 -> Seq(Chunks)]
        /\ \A i \in a + 1 .. L + 1 : f[i] = WindowsStep(text, f, i)
    BY <2>2 DEF WindowsFrom
  <2> DEFINE g == [i \in a .. L + 1 |-> IF i = a THEN WindowsStep(text, f, a) ELSE f[i]]
  <2> HIDE DEF a
  <2>4. \A i \in a .. L + 1 : WindowsStep(text, g, i) = WindowsStep(text, f, i)
    <3> TAKE i \in a .. L + 1
    <3>1. CASE i > L
      BY <3>1 DEF WindowsStep
    <3>2. CASE i <= L /\ WindowEnd(text, i) = L
      BY <3>2, <2>1 DEF WindowsStep
    <3>3. CASE i <= L /\ WindowEnd(text, i) # L
      <4> DEFINE next == NextWindow(i, WindowEnd(text, i))
      <4>1. i \in 1 .. Len(text)
        BY <2>1, <3>3
      <4>2. next \in i + 1 .. L
        BY <3>3, <4>1, NextWindowInText
      <4> HIDE DEF next
      <4>3. next \in a .. L + 1 /\ next # a
        BY <2>1, <4>1, <4>2
      <4>4. g[next] = f[next]
        BY <4>3
      <4> HIDE DEF g
      <4> QED
        BY <3>3, <4>4 DEF WindowsStep, next
    <3> QED
      BY <2>1, <3>1, <3>2, <3>3
  <2>5. WindowsStep(text, f, a) \in Seq(Chunks)
    <3> DEFINE last == WindowEnd(text, a)
               next == NextWindow(a, last)
    <3>1. last \in a .. L
      BY <2>1, WindowEndFits
    <3>2. <<ChunkOf(a, last)>> \in Seq(Chunks)
      BY <2>1, <3>1 DEF ChunkOf, Chunks
    <3>3. last # L => f[next] \in Seq(Chunks)
      <4> SUFFICES ASSUME last # L PROVE f[next] \in Seq(Chunks)
        OBVIOUS
      <4>1. next \in a + 1 .. L
        BY <2>1, NextWindowInText
      <4> HIDE DEF next
      <4>2. next \in a + 1 .. L + 1
        BY <2>1, <4>1
      <4> QED
        BY <2>3, <4>2
    <3>4. ~(a > Len(text))
      BY <2>1
    <3> DEFINE rest == IF last = Len(text) THEN <<>> ELSE f[next]
    <3>5. rest \in Seq(Chunks)
      <4> HIDE DEF last, next
      <4> QED
        BY <3>3
    <3>6. WindowsStep(text, f, a) = <<ChunkOf(a, last)>> \o rest
      BY <3>4 DEF WindowsStep
    <3> HIDE DEF rest
    <3> QED
      BY <3>2, <3>5, <3>6
  <2>6. g \in [a .. L + 1 -> Seq(Chunks)]
    <3>1. \A i \in a .. L + 1 : i # a => f[i] \in Seq(Chunks)
      <4> TAKE i \in a .. L + 1
      <4>1. i # a => i \in a + 1 .. L + 1
        BY <2>1
      <4> QED
        BY <2>3, <4>1
    <3> QED
      BY <2>5, <3>1
  <2>7. \A i \in a .. L + 1 : g[i] = WindowsStep(text, g, i)
    <3> TAKE i \in a .. L + 1
    <3>1. i # a => i \in a + 1 .. L + 1
      BY <2>1
    <3>2. g[i] = WindowsStep(text, f, i)
      BY <2>3, <3>1
    <3> HIDE DEF g
    <3> QED
      BY <2>4, <3>2
  <2>8. g \in WindowsFrom(text, a)
    <3> HIDE DEF g
    <3> QED
      BY <2>6, <2>7 DEF WindowsFrom
  <2> HIDE DEF g
  <2> QED
    BY <2>8 DEF a
<1>3. L \in S
  <2>1. L \in Nat
    OBVIOUS
  <2> HIDE DEF S, L
  <2> QED
    BY <1>1, <1>2, <2>1, UpTo
<1>4. L \in Nat /\ L + 1 - L = 1
  OBVIOUS
<1> QED
  BY <1>3, <1>4

LEMMA WindowsCover ==
    ASSUME NEW text \in Seq(Nat), text # <<>>
    PROVE  CoverFrom(Windows(text), text, 1)
<1> DEFINE L == Len(text)
           h == CHOOSE q : q = [i \in 1 .. L + 1 |-> WindowsStep(text, q, i)]
<1>1. h = [i \in 1 .. L + 1 |-> WindowsStep(text, h, i)]
  <2>1. PICK f \in WindowsFrom(text, 1) : TRUE
    BY WindowsExist
  <2>2. f = [i \in 1 .. L + 1 |-> WindowsStep(text, f, i)]
    BY <2>1 DEF WindowsFrom
  <2> QED
    BY <2>2
<1>2. Windows(text) = h[1]
  BY DEF Windows, WindowsStep
<1> HIDE DEF h
<1> DEFINE Covered(k) == \A i \in 1 .. L : i >= L + 1 - k => CoverFrom(h[i], text, i)
           S == {k \in Nat : Covered(k)}
<1>3. 0 \in S
  OBVIOUS
<1>4. \A k \in 1 .. L : k - 1 \in S => k \in S
  <2> SUFFICES ASSUME NEW k \in 1 .. L, Covered(k - 1)
               PROVE  Covered(k)
    <3> HIDE DEF Covered
    <3> QED
      OBVIOUS
  <2> SUFFICES ASSUME NEW i \in 1 .. L, i >= L + 1 - k
               PROVE  CoverFrom(h[i], text, i)
    OBVIOUS
  <2>1. \A j \in 1 .. L : j >= L + 1 - (k - 1) => CoverFrom(h[j], text, j)
    OBVIOUS
  <2> DEFINE last == WindowEnd(text, i)
             next == NextWindow(i, last)
             rest == IF last = L THEN <<>> ELSE h[next]
  <2>2. last # L => CoverFrom(h[next], text, next)
    <3> SUFFICES ASSUME last # L PROVE CoverFrom(h[next], text, next)
      OBVIOUS
    <3>1. next \in i + 1 .. L
      BY NextWindowInText
    <3> HIDE DEF next
    <3>2. next \in 1 .. L /\ next >= L + 1 - (k - 1)
      BY <3>1
    <3> QED
      BY <2>1, <3>2
  <2>3. h[i] = <<ChunkOf(i, last)>> \o rest
    <3>1. i \in 1 .. L + 1 /\ ~(i > Len(text))
      OBVIOUS
    <3>2. h[i] = WindowsStep(text, h, i)
      BY <1>1, <3>1
    <3> QED
      BY <3>1, <3>2 DEF WindowsStep
  <2>4. IF last = L THEN rest = <<>> ELSE CoverFrom(rest, text, next)
    <3> HIDE DEF last, next
    <3> QED
      BY <2>2
  <2> HIDE DEF rest
  <2>5. CoverFrom(<<ChunkOf(i, last)>> \o rest, text, i)
    BY <2>4, WindowBefore
  <2> QED
    BY <2>3, <2>5
<1>5. L \in S
  <2>1. L \in Nat
    OBVIOUS
  <2> HIDE DEF S, L
  <2> QED
    BY <1>3, <1>4, <2>1, UpTo
<1>6. 1 \in 1 .. L /\ 1 >= L + 1 - L
  OBVIOUS
<1> QED
  BY <1>2, <1>5, <1>6

-------------------------------------------------------------------------------
(* The lines of a text. *)

\* Chunks of a line each, of the lines before the n-th and of the n-th that are not blank.
LineCover(chunks, text, n) ==
    /\ chunks \in Seq(Chunks)
    /\ \A k \in DOMAIN chunks :
          LET c == chunks[k] IN
          /\ c.start_line \in 1 .. n /\ c.end_line = c.start_line
          /\ k > 1 => c.start_line > chunks[k - 1].start_line
    /\ \A i \in 1 .. n : text[i] > 0 => \E k \in DOMAIN chunks : chunks[k].start_line = i

LEMMA LineCoverNext ==
    ASSUME NEW text \in Seq(Nat), NEW n \in 1 .. Len(text), NEW chunks,
           LineCover(chunks, text, n - 1)
    PROVE  LineCover(chunks \o IF text[n] > 0 THEN <<ChunkOf(n, n)>> ELSE <<>>, text, n)
<1>1. /\ chunks \in Seq(Chunks)
      /\ \A k \in DOMAIN chunks :
          LET c == chunks[k] IN
          /\ c.start_line \in 1 .. n - 1 /\ c.end_line = c.start_line
          /\ k > 1 => c.start_line > chunks[k - 1].start_line
      /\ \A i \in 1 .. n - 1 : text[i] > 0 => \E k \in DOMAIN chunks : chunks[k].start_line = i
  BY DEF LineCover
<1>2. CASE ~(text[n] > 0)
  <2>1. LineCover(chunks, text, n)
    <3>1. \A k \in DOMAIN chunks :
            LET c == chunks[k] IN
            /\ c.start_line \in 1 .. n /\ c.end_line = c.start_line
            /\ k > 1 => c.start_line > chunks[k - 1].start_line
      BY <1>1
    <3>2. \A i \in 1 .. n : i = n \/ i \in 1 .. n - 1
      OBVIOUS
    <3> QED
      BY <1>1, <1>2, <3>1, <3>2 DEF LineCover
  <2>2. chunks \o <<>> = chunks
    BY <1>1
  <2> QED
    BY <1>2, <2>1, <2>2
<1>3. CASE text[n] > 0
  <2> DEFINE c == ChunkOf(n, n)
             more == chunks \o <<c>>
  <2>1. c \in Chunks /\ c.start_line = n /\ c.end_line = n
    BY DEF ChunkOf, Chunks
  <2> HIDE DEF c
  <2>2. /\ more \in Seq(Chunks) /\ Len(more) = Len(chunks) + 1 /\ Len(chunks) \in Nat
        /\ more[Len(chunks) + 1] = c /\ \A k \in 1 .. Len(chunks) : more[k] = chunks[k]
    BY <1>1, <2>1
  <2> HIDE DEF more
  <2>3. ASSUME NEW k \in DOMAIN more
        PROVE  /\ more[k].start_line \in 1 .. n /\ more[k].end_line = more[k].start_line
               /\ k > 1 => more[k].start_line > more[k - 1].start_line
    <3>1. CASE k \in 1 .. Len(chunks)
      <4>1. k \in DOMAIN chunks /\ more[k] = chunks[k]
        BY <1>1, <2>2, <3>1
      <4>2. k > 1 => more[k - 1] = chunks[k - 1]
        BY <2>2, <3>1
      <4> QED
        BY <1>1, <4>1, <4>2
    <3>2. CASE k = Len(chunks) + 1
      <4>1. more[k] = c
        BY <2>2, <3>2
      <4>2. k > 1 => k - 1 \in DOMAIN chunks /\ more[k - 1] = chunks[k - 1]
        BY <1>1, <2>2, <3>2
      <4>3. k > 1 => more[k - 1].start_line \in 1 .. n - 1
        BY <1>1, <4>2
      <4> QED
        BY <2>1, <4>1, <4>3
    <3> QED
      BY <2>2, <3>1, <3>2
  <2>4. ASSUME NEW i \in 1 .. n, text[i] > 0
        PROVE  \E k \in DOMAIN more : more[k].start_line = i
    <3>1. CASE i = n
      <4>1. Len(chunks) + 1 \in DOMAIN more
        BY <2>2
      <4> QED
        BY <2>1, <2>2, <3>1, <4>1
    <3>2. CASE i # n
      <4>1. i \in 1 .. n - 1
        BY <3>2
      <4>2. PICK k \in DOMAIN chunks : chunks[k].start_line = i
        BY <1>1, <2>4, <4>1
      <4>3. k \in DOMAIN more /\ more[k] = chunks[k]
        BY <1>1, <2>2
      <4> QED
        BY <4>2, <4>3
    <3> QED
      BY <3>1, <3>2
  <2>5. LineCover(more, text, n)
    BY <2>2, <2>3, <2>4 DEF LineCover
  <2> QED
    BY <1>3, <2>5 DEF more, c
<1> QED
  BY <1>2, <1>3

LEMMA LinesCover ==
    ASSUME NEW text \in Seq(Nat)
    PROVE  LineChunks(text) = <<>> \/ LineCover(LineChunks(text), text, Len(text))
<1> DEFINE L == Len(text)
           V == Seq(Chunks)
           Line(n) == IF text[n] > 0 THEN <<ChunkOf(n, n)>> ELSE <<>>
           Step(q, n) == IF n = 0 THEN <<>> ELSE q[n - 1] \o Line(n)
           F == [n \in 1 .. L |-> [v \in V |-> v \o Line(n)]]
           h == CHOOSE q : q = [n \in 0 .. L |-> Step(q, n)]
<1>1. \A n \in 1 .. L : Line(n) \in V
  <2> TAKE n \in 1 .. L
  <2>1. ChunkOf(n, n) \in Chunks
    BY DEF ChunkOf, Chunks
  <2> QED
    BY <2>1
<1> HIDE DEF Line
<1>2. F \in [1 .. L -> [V -> V]] /\ <<>> \in V /\ L \in Nat
  BY <1>1
<1>3. PICK f : f \in Solutions(L, V, <<>>, F)
  <2> HIDE DEF F, V, L
  <2>1. Solutions(L, V, <<>>, F) # {}
    BY <1>2, Recursion
  <2> QED
    BY <2>1
<1>4. f \in [0 .. L -> V] /\ f[0] = <<>> /\ \A n \in 1 .. L : f[n] = F[n][f[n - 1]]
  BY <1>3 DEF Solutions
<1>5. \A n \in 1 .. L : f[n] = f[n - 1] \o Line(n)
  <2> TAKE n \in 1 .. L
  <2>1. n - 1 \in 0 .. L
    OBVIOUS
  <2>2. f[n - 1] \in V
    <3> HIDE DEF V, F
    <3> QED
      BY <1>4, <2>1
  <2>3. F[n][f[n - 1]] = f[n - 1] \o Line(n)
    <3> HIDE DEF V
    <3> QED
      BY <2>2
  <2> HIDE DEF F
  <2> QED
    BY <1>4, <2>3
<1>6. f = [n \in 0 .. L |-> Step(f, n)]
  <2>1. \A n \in 0 .. L : f[n] = Step(f, n)
    <3> TAKE n \in 0 .. L
    <3>1. n = 0 \/ n \in 1 .. L
      OBVIOUS
    <3> HIDE DEF F
    <3> QED
      BY <1>4, <1>5, <3>1
  <2> HIDE DEF F, Step, V
  <2> QED
    BY <1>4, <2>1
<1>7. h = [n \in 0 .. L |-> Step(h, n)]
  <2> HIDE DEF Step
  <2> QED
    BY <1>6
<1>8. LineChunks(text) = IF \E i \in DOMAIN text : text[i] > MaxChars THEN <<>> ELSE h[L]
  BY DEF LineChunks, Line
<1> HIDE DEF h
<1>9. h[0] = <<>> /\ \A n \in 1 .. L : h[n] = h[n - 1] \o Line(n)
  <2>1. h[0] = Step(h, 0)
    <3>1. 0 \in 0 .. L
      OBVIOUS
    <3> HIDE DEF Step
    <3> QED
      BY <1>7, <3>1
  <2>2. \A n \in 1 .. L : h[n] = Step(h, n) /\ n # 0
    <3> TAKE n \in 1 .. L
    <3>1. n \in 0 .. L /\ n # 0
      OBVIOUS
    <3> HIDE DEF Step
    <3> QED
      BY <1>7, <3>1
  <2> QED
    BY <2>1, <2>2
<1> DEFINE S == {n \in Nat : n <= L => LineCover(h[n], text, n)}
<1>10. 0 \in S
  <2>1. LineCover(<<>>, text, 0)
    <3>1. <<>> \in Seq(Chunks) /\ DOMAIN <<>> = {} /\ 1 .. 0 = {}
      OBVIOUS
    <3> QED
      BY <3>1 DEF LineCover
  <2> QED
    BY <1>9, <2>1
<1>11. \A n \in 1 .. L : n - 1 \in S => n \in S
  <2> SUFFICES ASSUME NEW n \in 1 .. L, LineCover(h[n - 1], text, n - 1)
               PROVE  LineCover(h[n], text, n)
    OBVIOUS
  <2>1. LineCover(h[n - 1] \o Line(n), text, n)
    BY LineCoverNext DEF Line
  <2> QED
    BY <1>9, <2>1
<1>12. L \in S
  <2> HIDE DEF S, L
  <2> QED
    BY <1>2, <1>10, <1>11, UpTo
<1> QED
  BY <1>8, <1>12

-------------------------------------------------------------------------------
(* Chunking, for every text. *)

\* build_chunks gives every text chunks that cover the lines that are not blank, go forward, and
\* keep to chunk_max_chars unless they are a single line.
THEOREM EveryTextIsCovered ==
    ASSUME NEW text \in Seq(Nat), text # <<>>
    PROVE  BuildChunks(text) \in Seq(Chunks) /\ BuildChunks(text) # <<>>
           /\ Covers(BuildChunks(text), text)
<1>1. CASE LineChunks(text) # <<>>
  <2> DEFINE chunks == LineChunks(text)
  <2>1. LineCover(chunks, text, Len(text))
    BY <1>1, LinesCover
  <2>2. BuildChunks(text) = chunks
    BY <1>1 DEF BuildChunks
  <2> HIDE DEF chunks
  <2>3. \A i \in DOMAIN text : text[i] > 0 =>
            \E k \in DOMAIN chunks : i \in chunks[k].start_line .. chunks[k].end_line
    <3> SUFFICES ASSUME NEW i \in DOMAIN text, text[i] > 0
                 PROVE  \E k \in DOMAIN chunks : i \in chunks[k].start_line .. chunks[k].end_line
      OBVIOUS
    <3>1. i \in 1 .. Len(text)
      OBVIOUS
    <3>2. PICK k \in DOMAIN chunks : chunks[k].start_line = i
      BY <2>1, <3>1 DEF LineCover
    <3>3. chunks[k].end_line = i
      BY <2>1, <3>2 DEF LineCover
    <3> QED
      BY <3>1, <3>2, <3>3
  <2>4. ASSUME NEW k \in DOMAIN chunks
        PROVE  LET c == chunks[k] IN
               /\ 1 <= c.start_line /\ c.start_line <= c.end_line /\ c.end_line <= Len(text)
               /\ \/ c.start_line = c.end_line
                  \/ JoinedLength(text, c.start_line, c.end_line) <= MaxChars
               /\ k > 1 => /\ c.start_line > chunks[k - 1].start_line
                           /\ c.end_line >= chunks[k - 1].end_line
    <3>1. /\ chunks[k].start_line \in 1 .. Len(text)
          /\ chunks[k].end_line = chunks[k].start_line
          /\ k > 1 => chunks[k].start_line > chunks[k - 1].start_line
      BY <2>1 DEF LineCover
    <3>2. k > 1 => /\ chunks[k - 1].start_line \in 1 .. Len(text)
                   /\ chunks[k - 1].end_line = chunks[k - 1].start_line
      <4>1. k > 1 => k - 1 \in DOMAIN chunks
        <5>1. chunks \in Seq(Chunks)
          BY <2>1 DEF LineCover
        <5> QED
          BY <5>1
      <4> QED
        BY <2>1, <4>1 DEF LineCover
    <3> QED
      BY <3>1, <3>2
  <2>5. Covers(chunks, text)
    BY <2>3, <2>4 DEF Covers
  <2>6. chunks \in Seq(Chunks)
    BY <2>1 DEF LineCover
  <2> QED
    BY <1>1, <2>2, <2>5, <2>6 DEF chunks
<1>2. CASE LineChunks(text) = <<>>
  <2> DEFINE chunks == Windows(text)
  <2>1. CoverFrom(chunks, text, 1)
    BY WindowsCover
  <2>2. BuildChunks(text) = chunks
    BY <1>2 DEF BuildChunks
  <2> HIDE DEF chunks
  <2>3. \A i \in DOMAIN text : text[i] > 0 =>
            \E k \in DOMAIN chunks : i \in chunks[k].start_line .. chunks[k].end_line
    <3>1. \A i \in DOMAIN text : i \in 1 .. Len(text)
      OBVIOUS
    <3> QED
      BY <2>1, <3>1 DEF CoverFrom
  <2>4. ASSUME NEW k \in DOMAIN chunks
        PROVE  LET c == chunks[k] IN
               /\ 1 <= c.start_line /\ c.start_line <= c.end_line /\ c.end_line <= Len(text)
               /\ \/ c.start_line = c.end_line
                  \/ JoinedLength(text, c.start_line, c.end_line) <= MaxChars
               /\ k > 1 => /\ c.start_line > chunks[k - 1].start_line
                           /\ c.end_line >= chunks[k - 1].end_line
    <3>1. /\ chunks[k].start_line \in 1 .. Len(text)
          /\ chunks[k].end_line = WindowEnd(text, chunks[k].start_line)
          /\ k > 1 => /\ chunks[k].start_line > chunks[k - 1].start_line
                      /\ chunks[k].end_line >= chunks[k - 1].end_line
      BY <2>1 DEF CoverFrom
    <3> DEFINE first == chunks[k].start_line
    <3>2. /\ WindowEnd(text, first) \in first .. Len(text)
          /\ \/ WindowEnd(text, first) = first
             \/ JoinedLength(text, first, WindowEnd(text, first)) <= MaxChars
      BY <3>1, WindowEndFits
    <3> QED
      BY <3>1, <3>2
  <2>5. Covers(chunks, text)
    BY <2>3, <2>4 DEF Covers
  <2>6. chunks \in Seq(Chunks) /\ chunks # <<>>
    BY <2>1 DEF CoverFrom
  <2> QED
    BY <2>2, <2>5, <2>6
<1> QED
  BY <1>1, <1>2

-------------------------------------------------------------------------------
(* What every step keeps. *)

\* An import in flight has a document and a text that no other one has.
ImportsApart ==
    \A i \in Imports : importing[i] # Null =>
        /\ ~Stored(importing[i].document)
        /\ \A d \in Documents : Stored(d) => document[d].checksum # importing[i].text
        /\ \A j \in Imports : importing[j] # Null /\ j # i =>
              /\ importing[j].document # importing[i].document
              /\ importing[j].text # importing[i].text

ChunksBuilt ==
    \A d \in Documents : Stored(d) =>
        document[d].chunks = IF document[d].checksum = Null THEN <<ChunkOf(1, 1)>>
                             ELSE BuildChunks(document[d].checksum)

NotesKept ==
    \A d \in Documents : Stored(d) /\ document[d].checksum = Null => NotesOf(<<d, 1>>) # {}

MemoriesFromChunks ==
    \A m \in Created :
        /\ memory[m].chunk \in StoredChunks
        /\ memory[m].status = "candidate" <=> memory[m].run # Null

RowsStored ==
    \A r \in Runs : run[r] # Null =>
        /\ \A k \in DOMAIN run[r].rows : run[r].rows[k] \in StoredChunks
        /\ \A k \in DOMAIN run[r].drafts : run[r].drafts[k].chunk \in StoredChunks

StoreInv ==
    /\ TypeOK
    /\ ImportsApart
    /\ OneDocumentPerText
    /\ ChunksBuilt
    /\ NotesKept
    /\ MemoriesFromChunks
    /\ RowsStored

CreatedBy(r) == {m \in Created : memory[m].run = r}
RowsOf(r) == {run[r].rows[k] : k \in DOMAIN run[r].rows}
StartRow(r) == [action |-> "run.start", run |-> r, requested |-> RowsOf(r)]
SaysChunk(c, says) == \E j \in DOMAIN SaidBy(c) : SaidBy(c)[j] = says

\* The texts that the candidates of a run stand for differ from each other and from the drafts.
TextsApart(text, r, drafts) ==
    /\ text \in Injection(CreatedBy(r), TextsFor(run[r].method))
    /\ \A m \in CreatedBy(r) : memory[m].says = Cut[text[m]]
    /\ \A m \in CreatedBy(r), k \in DOMAIN drafts : text[m] # drafts[k].text

\* The drafts of a run differ from each other and, with what has been created, keep to the number.
DraftsApart(r, drafts) ==
    /\ IsFiniteSet(CreatedBy(r))
    /\ Cardinality(CreatedBy(r)) + Len(drafts) <= MaxCandidates
    /\ \A j, k \in DOMAIN drafts : drafts[j].text = drafts[k].text => j = k
    /\ \E text : TextsApart(text, r, drafts)

\* A draft is cut from a text that is compared.
CutFrom(r, draft) == draft.text \in TextsFor(run[r].method) /\ draft.says = Cut[draft.text]

\* Candidates and drafts come from the chunks of the run.
DraftsGrounded(r, drafts) ==
    /\ \A k \in DOMAIN drafts :
          /\ drafts[k].chunk \in RowsOf(r)
          /\ CutFrom(r, drafts[k])
          /\ run[r].method = "rule_based" => SaysChunk(drafts[k].chunk, drafts[k].says)
    /\ \A m \in CreatedBy(r) :
          /\ memory[m].chunk \in RowsOf(r)
          /\ run[r].method = "rule_based" => SaysChunk(memory[m].chunk, memory[m].says)

RunKept(r) ==
    /\ run[r] = Null => CreatedBy(r) = {}
    /\ run[r] # Null =>
          /\ run[r].created = CreatedBy(r)
          /\ run[r].at \in {"draft", "create", "complete"} => StartRow(r) \in auditLog
          /\ CreatedBy(r) # {} => StartRow(r) \in auditLog
          /\ run[r].at \in {"start", "draft"} => CreatedBy(r) = {} /\ run[r].drafts = <<>>
          /\ DraftsApart(r, run[r].drafts)
          /\ DraftsGrounded(r, run[r].drafts)

Completed ==
    \A row \in auditLog : row.action = "run.complete" =>
        /\ run[row.run] # Null /\ run[row.run].at = "ended"
        /\ row.created = CreatedBy(row.run)

RunsInv == Completed /\ \A r \in Runs : RunKept(r)

-------------------------------------------------------------------------------
(* The drafts of a run. *)

\* Drafts out of a sequence: no text twice, and not too many.
Gathered(chosen, drafts) ==
    /\ chosen \in Seq(DraftRow)
    /\ Len(chosen) <= MaxCandidates
    /\ \A j, k \in DOMAIN chosen : chosen[j].text = chosen[k].text => j = k
    /\ \A k \in DOMAIN chosen : \E j \in DOMAIN drafts : chosen[k] = drafts[j]

LEMMA KeptGathers ==
    ASSUME NEW drafts, NEW chosen, Gathered(chosen, drafts), NEW n \in DOMAIN drafts,
           drafts[n] \in DraftRow \cup {Null}
    PROVE  Gathered(Kept(chosen, drafts[n]), drafts)
<1> DEFINE d == drafts[n]
           more == Append(chosen, d)
<1>1. CASE d # Null /\ Len(chosen) < MaxCandidates /\ NewText(d, chosen)
  <2>1. d \in DraftRow /\ d = drafts[n]
    BY <1>1
  <2>2. \A k \in DOMAIN chosen : chosen[k].text # d.text
    BY <1>1 DEF NewText
  <2>3. Kept(chosen, drafts[n]) = more
    BY <1>1 DEF Kept
  <2> HIDE DEF d
  <2>4. chosen \in Seq(DraftRow) /\ Len(chosen) \in Nat
    BY DEF Gathered
  <2>5. /\ more \in Seq(DraftRow) /\ Len(more) = Len(chosen) + 1
        /\ more[Len(chosen) + 1] = d /\ \A k \in 1 .. Len(chosen) : more[k] = chosen[k]
    BY <2>1, <2>4
  <2> HIDE DEF more
  <2>6. \A k \in DOMAIN more : k = Len(chosen) + 1 \/ (k \in DOMAIN chosen /\ more[k] = chosen[k])
    BY <2>4, <2>5
  <2>7. Len(more) <= MaxCandidates
    BY <1>1, <2>4, <2>5, IngestionAssumption
  <2>8. \A j, k \in DOMAIN more : more[j].text = more[k].text => j = k
    <3> TAKE j, k \in DOMAIN more
    <3>1. CASE j = Len(chosen) + 1 /\ k = Len(chosen) + 1
      BY <3>1
    <3>2. CASE j = Len(chosen) + 1 /\ k # Len(chosen) + 1
      BY <2>2, <2>5, <2>6, <3>2
    <3>3. CASE j # Len(chosen) + 1 /\ k = Len(chosen) + 1
      BY <2>2, <2>5, <2>6, <3>3
    <3>4. CASE j # Len(chosen) + 1 /\ k # Len(chosen) + 1
      BY <2>6, <3>4 DEF Gathered
    <3> QED
      BY <3>1, <3>2, <3>3, <3>4
  <2>9. \A k \in DOMAIN more : \E j \in DOMAIN drafts : more[k] = drafts[j]
    BY <2>1, <2>5, <2>6 DEF Gathered
  <2> QED
    BY <2>3, <2>5, <2>7, <2>8, <2>9 DEF Gathered
<1>2. CASE ~(d # Null /\ Len(chosen) < MaxCandidates /\ NewText(d, chosen))
  BY <1>2 DEF Kept
<1> QED
  BY <1>1, <1>2

LEMMA CollectedGathers ==
    ASSUME NEW drafts \in Seq(DraftRow \cup {Null})
    PROVE  Gathered(Collected(drafts), drafts)
<1> DEFINE L == Len(drafts)
           V == Seq(DraftRow)
           Step(q, n) == IF n = 0 THEN <<>> ELSE Kept(q[n - 1], drafts[n])
           F == [n \in 1 .. L |-> [v \in V |-> Kept(v, drafts[n])]]
           h == CHOOSE q : q = [n \in 0 .. L |-> Step(q, n)]
<1>1. \A n \in 1 .. L : drafts[n] \in DraftRow \cup {Null} /\ n \in DOMAIN drafts
  OBVIOUS
<1>2. F \in [1 .. L -> [V -> V]] /\ <<>> \in V /\ L \in Nat
  <2>1. \A n \in 1 .. L : \A v \in V : Kept(v, drafts[n]) \in V
    BY <1>1 DEF Kept
  <2> QED
    BY <2>1
<1>3. PICK f : f \in Solutions(L, V, <<>>, F)
  <2> HIDE DEF F, V, L
  <2>1. Solutions(L, V, <<>>, F) # {}
    BY <1>2, Recursion
  <2> QED
    BY <2>1
<1>4. f \in [0 .. L -> V] /\ f[0] = <<>> /\ \A n \in 1 .. L : f[n] = F[n][f[n - 1]]
  BY <1>3 DEF Solutions
<1>5. \A n \in 1 .. L : f[n] = Kept(f[n - 1], drafts[n])
  <2> TAKE n \in 1 .. L
  <2>1. n - 1 \in 0 .. L
    OBVIOUS
  <2>2. f[n - 1] \in V
    <3> HIDE DEF V, F
    <3> QED
      BY <1>4, <2>1
  <2>3. F[n][f[n - 1]] = Kept(f[n - 1], drafts[n])
    <3> HIDE DEF V
    <3> QED
      BY <2>2
  <2> HIDE DEF F
  <2> QED
    BY <1>4, <2>3
<1>6. f = [n \in 0 .. L |-> Step(f, n)]
  <2>1. \A n \in 0 .. L : f[n] = Step(f, n)
    <3> TAKE n \in 0 .. L
    <3>1. n = 0 \/ n \in 1 .. L
      OBVIOUS
    <3> HIDE DEF F
    <3> QED
      BY <1>4, <1>5, <3>1
  <2> HIDE DEF F, Step, V
  <2> QED
    BY <1>4, <2>1
<1>7. h = [n \in 0 .. L |-> Step(h, n)]
  <2> HIDE DEF Step
  <2> QED
    BY <1>6
<1>8. Collected(drafts) = h[L]
  BY DEF Collected
<1> HIDE DEF h
<1>9. h[0] = <<>> /\ \A n \in 1 .. L : h[n] = Kept(h[n - 1], drafts[n])
  <2>1. h[0] = Step(h, 0)
    <3>1. 0 \in 0 .. L
      OBVIOUS
    <3> HIDE DEF Step
    <3> QED
      BY <1>7, <3>1
  <2>2. \A n \in 1 .. L : h[n] = Step(h, n) /\ n # 0
    <3> TAKE n \in 1 .. L
    <3>1. n \in 0 .. L /\ n # 0
      OBVIOUS
    <3> HIDE DEF Step
    <3> QED
      BY <1>7, <3>1
  <2> QED
    BY <2>1, <2>2
<1> DEFINE S == {n \in Nat : n <= L => Gathered(h[n], drafts)}
<1>10. 0 \in S
  <2>1. Gathered(<<>>, drafts)
    <3>1. <<>> \in Seq(DraftRow) /\ DOMAIN <<>> = {} /\ Len(<<>>) = 0
      OBVIOUS
    <3> QED
      BY <3>1, IngestionAssumption DEF Gathered
  <2> QED
    BY <1>9, <2>1
<1>11. \A n \in 1 .. L : n - 1 \in S => n \in S
  <2> SUFFICES ASSUME NEW n \in 1 .. L, Gathered(h[n - 1], drafts)
               PROVE  Gathered(h[n], drafts)
    OBVIOUS
  <2>1. Gathered(Kept(h[n - 1], drafts[n]), drafts)
    BY <1>1, KeptGathers
  <2> QED
    BY <1>9, <2>1
<1>12. L \in S
  <2> HIDE DEF S, L
  <2> QED
    BY <1>2, <1>10, <1>11, UpTo
<1> QED
  BY <1>8, <1>12

\* All drafts come from one of the sequences that are put together.
LEMMA FlattenGathers ==
    ASSUME NEW parts \in Seq(Seq(DraftRow))
    PROVE  /\ FlattenSeq(parts) \in Seq(DraftRow)
           /\ \A k \in DOMAIN FlattenSeq(parts) :
                 \E i \in DOMAIN parts : \E j \in DOMAIN parts[i] : FlattenSeq(parts)[k] = parts[i][j]
<1> DEFINE L == Len(parts)
           V == Seq(DraftRow)
           From(all) == \A k \in DOMAIN all :
                           \E i \in DOMAIN parts : \E j \in DOMAIN parts[i] : all[k] = parts[i][j]
<1>1. CASE L = 0
  <2>1. parts = <<>>
    BY <1>1
  <2>2. FlattenSeq(parts) = <<>>
    BY <1>1, <2>1 DEF FlattenSeq
  <2> QED
    BY <2>2
<1>2. CASE L # 0
  <2> DEFINE Step(q, i) == IF i = 1 THEN parts[i] ELSE q[i - 1] \o parts[i]
             N == L - 1
             base == parts[1]
             F == [n \in 1 .. N |-> [v \in V |-> v \o parts[n + 1]]]
             h == CHOOSE q : q = [i \in 1 .. L |-> Step(q, i)]
  <2>1. N \in Nat /\ L \in 1 .. L /\ L \in Nat /\ \A i \in 1 .. L : parts[i] \in V /\ i \in DOMAIN parts
    BY <1>2
  <2>2. base \in V /\ F \in [1 .. N -> [V -> V]]
    <3>1. \A n \in 1 .. N : n + 1 \in 1 .. L
      BY <2>1
    <3>2. \A n \in 1 .. N : \A v \in V : v \o parts[n + 1] \in V
      BY <2>1, <3>1
    <3>3. 1 \in 1 .. L
      BY <1>2
    <3> HIDE DEF V
    <3> QED
      BY <2>1, <3>2, <3>3
  <2>3. PICK f : f \in Solutions(N, V, base, F)
    <3> HIDE DEF F, V, N, base
    <3>1. Solutions(N, V, base, F) # {}
      BY <2>1, <2>2, Recursion
    <3> QED
      BY <3>1
  <2>4. f \in [0 .. N -> V] /\ f[0] = base /\ \A n \in 1 .. N : f[n] = F[n][f[n - 1]]
    BY <2>3 DEF Solutions
  <2>5. \A n \in 1 .. N : f[n] = f[n - 1] \o parts[n + 1]
    <3> TAKE n \in 1 .. N
    <3>1. n - 1 \in 0 .. N
      BY <2>1
    <3>2. f[n - 1] \in V
      <4> HIDE DEF V, F
      <4> QED
        BY <2>4, <3>1
    <3>3. F[n][f[n - 1]] = f[n - 1] \o parts[n + 1]
      <4> HIDE DEF V
      <4> QED
        BY <3>2
    <3> HIDE DEF F
    <3> QED
      BY <2>4, <3>3
  <2> DEFINE g == [i \in 1 .. L |-> f[i - 1]]
  <2>6. g = [i \in 1 .. L |-> Step(g, i)]
    <3>1. ASSUME NEW i \in 1 .. L PROVE g[i] = Step(g, i)
      <4>1. CASE i = 1
        BY <2>4, <4>1
      <4>2. CASE i # 1
        <5>1. i - 1 \in 1 .. N /\ i - 1 \in 1 .. L /\ (i - 1) + 1 = i
          BY <2>1, <4>2
        <5>2. f[i - 1] = f[(i - 1) - 1] \o parts[i]
          BY <2>5, <5>1
        <5>3. g[i] = f[i - 1] /\ g[i - 1] = f[(i - 1) - 1]
          BY <5>1
        <5> HIDE DEF g
        <5> QED
          BY <4>2, <5>2, <5>3
      <4> QED
        BY <4>1, <4>2
    <3> HIDE DEF Step
    <3> QED
      BY <3>1
  <2>7. h = [i \in 1 .. L |-> Step(h, i)]
    <3> HIDE DEF Step, g
    <3> QED
      BY <2>6
  <2>8. FlattenSeq(parts) = h[L]
    BY <1>2 DEF FlattenSeq
  <2> HIDE DEF h
  <2>9. \A i \in 1 .. L : h[i] = IF i = 1 THEN parts[i] ELSE h[i - 1] \o parts[i]
    BY <2>7
  <2> DEFINE S == {n \in Nat : n + 1 <= L => h[n + 1] \in V /\ From(h[n + 1])}
  <2>10. 0 \in S
    <3>1. 1 \in 1 .. L
      BY <1>2
    <3>2. h[1] = parts[1]
      BY <2>9, <3>1
    <3>3. parts[1] \in V /\ From(parts[1])
      BY <2>1, <3>1
    <3> QED
      BY <3>2, <3>3
  <2>11. \A n \in 1 .. N : n - 1 \in S => n \in S
    <3> SUFFICES ASSUME NEW n \in 1 .. N, n - 1 \in S
                 PROVE  h[n + 1] \in V /\ From(h[n + 1])
      <4>1. \A n \in 1 .. N : n \in Nat
        BY <2>1
      <4> HIDE DEF V, From, N
      <4> QED
        BY <4>1
    <3>0. h[n] \in V /\ From(h[n])
      <4>1. (n - 1) + 1 = n /\ n <= L
        BY <2>1
      <4> HIDE DEF V, From
      <4> QED
        BY <4>1
    <3>1. n + 1 \in 1 .. L /\ n + 1 # 1 /\ (n + 1) - 1 = n /\ (n - 1) + 1 = n
      BY <2>1
    <3> DEFINE a == h[n]
               b == parts[n + 1]
               c == a \o b
    <3>2. h[n + 1] = c
      BY <2>9, <3>1
    <3>3. a \in V /\ b \in V /\ From(a)
      <4> HIDE DEF V, From
      <4> QED
        BY <2>1, <3>0, <3>1
    <3>4. From(b)
      BY <2>1, <3>1
    <3> HIDE DEF a, b
    <3>5. /\ c \in V /\ Len(a) \in Nat /\ Len(b) \in Nat /\ Len(c) = Len(a) + Len(b)
          /\ \A k \in 1 .. Len(a) : c[k] = a[k]
          /\ \A k \in 1 .. Len(b) : c[Len(a) + k] = b[k]
          /\ DOMAIN a = 1 .. Len(a) /\ DOMAIN b = 1 .. Len(b) /\ DOMAIN c = 1 .. Len(c)
      BY <3>3
    <3> HIDE DEF c
    <3>6. From(c)
      <4> SUFFICES ASSUME NEW k \in DOMAIN c
                   PROVE  \E i \in DOMAIN parts : \E j \in DOMAIN parts[i] : c[k] = parts[i][j]
        OBVIOUS
      <4>1. CASE k <= Len(a)
        <5>1. k \in DOMAIN a /\ c[k] = a[k]
          BY <3>5, <4>1
        <5> QED
          BY <3>3, <5>1
      <4>2. CASE k > Len(a)
        <5>1. k - Len(a) \in DOMAIN b /\ k = Len(a) + (k - Len(a))
          BY <3>5, <4>2
        <5>2. c[k] = b[k - Len(a)]
          BY <3>5, <5>1
        <5> QED
          BY <3>4, <5>1, <5>2
      <4> QED
        BY <3>5, <4>1, <4>2
    <3> HIDE DEF V, From
    <3> QED
      BY <3>2, <3>5, <3>6
  <2>12. N \in S
    <3> HIDE DEF S, N
    <3> QED
      BY <2>1, <2>10, <2>11, UpTo
  <2>13. N + 1 = L
    BY <2>1
  <2>14. h[L] \in V /\ From(h[L])
    <3> HIDE DEF V, From
    <3> QED
      BY <2>1, <2>12, <2>13
  <2> QED
    BY <2>8, <2>14
<1> QED
  BY <1>1, <1>2

\* What is said by a chunk is known as long as the chunk is there.
LEMMA SaidTyped ==
    ASSUME StoreInv, NEW c \in StoredChunks
    PROVE  SaidBy(c) \in Seq(Statements) /\ c \in ChunkIds
<1>1. PICK d \in Documents : Stored(d) /\ c \in ChunksOf(d)
  BY DEF StoredChunks
<1>2. PICK k \in DOMAIN document[d].chunks : c = <<d, k>>
  BY <1>1 DEF ChunksOf
<1>3. document[d] \in DocumentRow
  BY <1>1 DEF StoreInv, TypeOK, Stored
<1>4. document[d].checksum \in Texts \cup {Null} /\ document[d].chunks \in Seq(Chunks)
  BY <1>3 DEF DocumentRow
<1>5. c[1] = d /\ c[2] = k /\ k \in Nat \ {0}
  BY <1>2, <1>4
<1>6. document[d].chunks = IF document[d].checksum = Null THEN <<ChunkOf(1, 1)>>
                           ELSE BuildChunks(document[d].checksum)
  BY <1>1 DEF StoreInv, ChunksBuilt
<1>7. CASE document[d].checksum # Null
  <2>1. SaidBy(c) = Says(document[d].checksum, k)
    BY <1>5, <1>7 DEF SaidBy
  <2>2. document[d].checksum \in Texts /\ k \in DOMAIN BuildChunks(document[d].checksum)
    BY <1>2, <1>4, <1>6, <1>7
  <2> QED
    BY <1>1, <1>2, <1>5, <2>1, <2>2, TextAssumption DEF ChunkIds
<1>8. CASE document[d].checksum = Null
  <2>1. k = 1
    <3>1. document[d].chunks = <<ChunkOf(1, 1)>>
      BY <1>6, <1>8
    <3> QED
      BY <1>2, <3>1
  <2>2. NotesOf(c) # {}
    BY <1>1, <1>2, <1>8, <2>1 DEF StoreInv, NotesKept
  <2> DEFINE note == CHOOSE m \in NotesOf(c) : TRUE
  <2>3. note \in NotesOf(c)
    BY <2>2
  <2>4. memory[note] \in MemoryRow
    BY <2>3 DEF NotesOf, Created, StoreInv, TypeOK
  <2>5. memory[note].says \in Statements
    BY <2>4 DEF MemoryRow
  <2>6. SaidBy(c) = <<memory[note].says>>
    BY <1>5, <1>8 DEF SaidBy
  <2> HIDE DEF note
  <2>7. <<memory[note].says>> \in Seq(Statements)
    BY <2>5
  <2>8. c \in ChunkIds
    BY <1>1, <1>2, <1>5 DEF ChunkIds
  <2> QED
    BY <2>6, <2>7, <2>8
<1> QED
  BY <1>7, <1>8

LEMMA ChunkDraftsTyped ==
    ASSUME StoreInv, NEW c \in StoredChunks
    PROVE  /\ ChunkDrafts(c) \in Seq(DraftRow)
           /\ \A j \in DOMAIN ChunkDrafts(c) :
                 /\ ChunkDrafts(c)[j].chunk = c
                 /\ ChunkDrafts(c)[j].text \in Statements
                 /\ ChunkDrafts(c)[j].says = Cut[ChunkDrafts(c)[j].text]
                 /\ SaysChunk(c, ChunkDrafts(c)[j].says)
<1> DEFINE said == SaidBy(c)
           draft(j) == [chunk |-> c, text |-> said[j], says |-> said[j], confidence |-> "number"]
<1>1. said \in Seq(Statements) /\ c \in ChunkIds
  BY SaidTyped
<1>2. ChunkDrafts(c) = [j \in DOMAIN said |-> draft(j)]
  BY DEF ChunkDrafts
<1>3. \A j \in DOMAIN said :
          /\ draft(j) \in DraftRow /\ draft(j).chunk = c /\ draft(j).says = said[j]
          /\ draft(j).text \in Statements /\ draft(j).says = Cut[draft(j).text]
  <2>1. \A j \in DOMAIN said :
            said[j] \in Statements /\ said[j] \in Answers /\ said[j] = Cut[said[j]]
    BY <1>1, CutAssumption
  <2> HIDE DEF said
  <2> QED
    BY <1>1, <2>1 DEF DraftRow, Confidences
<1>4. DOMAIN said = 1 .. Len(said) /\ Len(said) \in Nat
  BY <1>1
<1>5. [j \in DOMAIN said |-> draft(j)] \in Seq(DraftRow)
  <2> HIDE DEF said, draft
  <2> QED
    BY <1>3, <1>4
<1>6. \A j \in DOMAIN said : SaysChunk(c, said[j])
  BY DEF SaysChunk
<1> HIDE DEF said, draft
<1> QED
  BY <1>2, <1>3, <1>5, <1>6

\* An item of a reply becomes a draft of one of the chunks of the run, or none.
LEMMA DraftTyped ==
    ASSUME NEW rows \in Seq(ChunkIds), NEW item,
           item.text \in Answers \cup {Null}, item.confidence \in Confidences
    PROVE  /\ Draft(item, rows) \in DraftRow \cup {Null}
           /\ Draft(item, rows) # Null =>
                 /\ \E k \in DOMAIN rows : Draft(item, rows).chunk = rows[k]
                 /\ Draft(item, rows).says = Cut[Draft(item, rows).text]
<1> DEFINE numbered == {k \in DOMAIN rows : item.by = "no" /\ rows[k][2] = item.no}
           anchor == Anchor(item, rows)
<1>1. anchor = Null \/ \E k \in DOMAIN rows : anchor = rows[k]
  <2>1. CASE item.by = "id" /\ \E k \in DOMAIN rows : rows[k] = item.chunk
    BY <2>1 DEF Anchor
  <2>2. CASE ~(item.by = "id" /\ \E k \in DOMAIN rows : rows[k] = item.chunk) /\ numbered # {}
    <3> DEFINE k == CHOOSE k \in numbered : \A j \in numbered : k <= j
    <3>1. \E l \in numbered : \A j \in numbered : l <= j
      <4>1. numbered \subseteq Nat
        OBVIOUS
      <4> HIDE DEF numbered
      <4> QED
        BY <2>2, <4>1, Least
    <3>2. k \in numbered
      <4> HIDE DEF numbered
      <4> QED
        BY <3>1
    <3>3. anchor = rows[k]
      BY <2>2 DEF Anchor
    <3>4. k \in DOMAIN rows
      BY <3>2
    <3> HIDE DEF k, anchor
    <3> QED
      BY <3>3, <3>4
  <2>3. CASE ~(item.by = "id" /\ \E k \in DOMAIN rows : rows[k] = item.chunk) /\ numbered = {}
    <3>1. anchor = IF Len(rows) = 1 THEN rows[1] ELSE Null
      BY <2>3 DEF Anchor
    <3>2. Len(rows) = 1 => 1 \in DOMAIN rows
      OBVIOUS
    <3> HIDE DEF anchor
    <3> QED
      BY <3>1, <3>2
  <2> QED
    BY <2>1, <2>2, <2>3
<1>2. anchor # Null => anchor \in ChunkIds
  <2> HIDE DEF anchor
  <2> QED
    BY <1>1
<1>3. CASE anchor = Null \/ item.text = Null
  BY <1>3 DEF Draft
<1>4. CASE anchor # Null /\ item.text # Null
  <2> DEFINE row == [chunk |-> anchor, text |-> item.text, says |-> Cut[item.text],
                     confidence |-> item.confidence]
  <2>1. Draft(item, rows) = row
    BY <1>4 DEF Draft
  <2> HIDE DEF anchor
  <2>2. row \in DraftRow
    <3>1. item.text \in Answers /\ Cut[item.text] \in Statements
      BY <1>4, CutAssumption
    <3> QED
      BY <1>2, <1>4, <3>1 DEF DraftRow
  <2>3. row.chunk = anchor /\ row.says = Cut[row.text]
    OBVIOUS
  <2> HIDE DEF row
  <2> QED
    BY <1>1, <1>4, <2>1, <2>2, <2>3
<1> QED
  BY <1>3, <1>4

\* What is drafted from the chunks of a run.
DraftedFrom(r, drafts) ==
    /\ drafts \in Seq(DraftRow)
    /\ Len(drafts) <= MaxCandidates
    /\ \A j, k \in DOMAIN drafts : drafts[j].text = drafts[k].text => j = k
    /\ \A k \in DOMAIN drafts :
          /\ drafts[k].chunk \in RowsOf(r)
          /\ CutFrom(r, drafts[k])
          /\ run[r].method = "rule_based" => SaysChunk(drafts[k].chunk, drafts[k].says)

LEMMA RunTyped ==
    ASSUME StoreInv, NEW r \in Runs, run[r] # Null
    PROVE  /\ run[r] \in RunRow
           /\ run[r].rows \in Seq(ChunkIds)
           /\ \A k \in DOMAIN run[r].rows : run[r].rows[k] \in StoredChunks
<1>1. run[r] \in RunRow
  BY DEF StoreInv, TypeOK
<1> QED
  BY <1>1 DEF RunRow, StoreInv, RowsStored

LEMMA RuleDrafted ==
    ASSUME StoreInv, NEW r \in Runs, run[r] # Null, run[r].method = "rule_based"
    PROVE  DraftedFrom(r, RuleDrafts(r))
<1> DEFINE rows == run[r].rows
           parts == [k \in DOMAIN rows |-> ChunkDrafts(rows[k])]
           all == FlattenSeq(parts)
           drafts == Collected(all)
<1>1. rows \in Seq(ChunkIds) /\ \A k \in DOMAIN rows : rows[k] \in StoredChunks
  BY RunTyped
<1>2. \A k \in DOMAIN rows :
          /\ ChunkDrafts(rows[k]) \in Seq(DraftRow)
          /\ \A j \in DOMAIN ChunkDrafts(rows[k]) :
                /\ ChunkDrafts(rows[k])[j].chunk = rows[k]
                /\ ChunkDrafts(rows[k])[j].text \in Statements
                /\ ChunkDrafts(rows[k])[j].says = Cut[ChunkDrafts(rows[k])[j].text]
                /\ SaysChunk(rows[k], ChunkDrafts(rows[k])[j].says)
  BY <1>1, ChunkDraftsTyped
<1>3. parts \in Seq(Seq(DraftRow)) /\ DOMAIN parts = DOMAIN rows
      /\ \A k \in DOMAIN rows : parts[k] = ChunkDrafts(rows[k])
  <2>1. DOMAIN rows = 1 .. Len(rows) /\ Len(rows) \in Nat
    BY <1>1
  <2> HIDE DEF rows
  <2> QED
    BY <1>2, <2>1
<1>4. RuleDrafts(r) = drafts
  BY DEF RuleDrafts
<1> HIDE DEF parts
<1>5. /\ all \in Seq(DraftRow)
      /\ \A k \in DOMAIN all :
            \E i \in DOMAIN parts : \E j \in DOMAIN parts[i] : all[k] = parts[i][j]
  BY <1>3, FlattenGathers
<1> HIDE DEF all
<1>6. all \in Seq(DraftRow \cup {Null})
  BY <1>5
<1>7. Gathered(drafts, all)
  BY <1>6, CollectedGathers
<1> HIDE DEF drafts
<1>8. ASSUME NEW k \in DOMAIN drafts
      PROVE  /\ drafts[k].chunk \in RowsOf(r)
             /\ CutFrom(r, drafts[k])
             /\ SaysChunk(drafts[k].chunk, drafts[k].says)
  <2>1. PICK l \in DOMAIN all : drafts[k] = all[l]
    BY <1>7 DEF Gathered
  <2>2. PICK i \in DOMAIN parts : \E j \in DOMAIN parts[i] : all[l] = parts[i][j]
    BY <1>5
  <2>3. i \in DOMAIN rows /\ parts[i] = ChunkDrafts(rows[i])
    <3> HIDE DEF rows
    <3> QED
      BY <1>3
  <2>4. /\ drafts[k].chunk = rows[i] /\ SaysChunk(rows[i], drafts[k].says)
        /\ drafts[k].text \in Statements /\ drafts[k].says = Cut[drafts[k].text]
    <3> HIDE DEF rows
    <3> QED
      BY <1>2, <2>1, <2>2, <2>3
  <2>5. rows[i] \in RowsOf(r)
    BY <2>3 DEF RowsOf
  <2> HIDE DEF rows
  <2> QED
    BY <2>4, <2>5 DEF CutFrom, TextsFor
<1> QED
  BY <1>4, <1>7, <1>8 DEF Gathered, DraftedFrom

LEMMA ReplyDrafted ==
    ASSUME StoreInv, NEW r \in Runs, run[r] # Null, NEW reply \in Replies,
           run[r].method # "rule_based"
    PROVE  DraftedFrom(r, ParsedDrafts(r, reply))
<1> DEFINE rows == run[r].rows
           all == [k \in DOMAIN reply |-> Draft(reply[k], rows)]
           drafts == Collected(all)
<1>1. rows \in Seq(ChunkIds)
  BY RunTyped
<1>2. \A k \in DOMAIN reply :
          /\ Draft(reply[k], rows) \in DraftRow \cup {Null}
          /\ Draft(reply[k], rows) # Null =>
                /\ \E i \in DOMAIN rows : Draft(reply[k], rows).chunk = rows[i]
                /\ Draft(reply[k], rows).says = Cut[Draft(reply[k], rows).text]
  <2> TAKE k \in DOMAIN reply
  <2>1. reply[k].text \in Answers \cup {Null} /\ reply[k].confidence \in Confidences
    BY ReplyAssumption
  <2> HIDE DEF rows
  <2> QED
    BY <1>1, <2>1, DraftTyped
<1>3. DOMAIN reply = 1 .. Len(reply) /\ Len(reply) \in Nat
  BY ReplyAssumption
<1>4. all \in Seq(DraftRow \cup {Null}) /\ \A k \in DOMAIN all : k \in DOMAIN reply /\ all[k] = Draft(reply[k], rows)
  <2> HIDE DEF rows
  <2> QED
    BY <1>2, <1>3
<1>5. ParsedDrafts(r, reply) = drafts
  BY DEF ParsedDrafts
<1> HIDE DEF all
<1>6. Gathered(drafts, all)
  BY <1>4, CollectedGathers
<1> HIDE DEF drafts
<1>7. ASSUME NEW k \in DOMAIN drafts
      PROVE  drafts[k].chunk \in RowsOf(r) /\ CutFrom(r, drafts[k])
  <2>1. PICK l \in DOMAIN all : drafts[k] = all[l]
    BY <1>6 DEF Gathered
  <2>2. drafts[k] \in DraftRow
    BY <1>6 DEF Gathered
  <2>3. drafts[k] # Null
    BY <2>2, NullAssumption
  <2>4. drafts[k].says = Cut[drafts[k].text] /\ \E i \in DOMAIN rows : drafts[k].chunk = rows[i]
    <3> HIDE DEF rows
    <3> QED
      BY <1>2, <1>4, <2>1, <2>3
  <2>5. drafts[k].text \in Answers
    BY <2>2 DEF DraftRow
  <2>6. CutFrom(r, drafts[k])
    BY <2>4, <2>5 DEF CutFrom, TextsFor
  <2> QED
    BY <2>4, <2>6 DEF RowsOf
<1> QED
  BY <1>5, <1>6, <1>7 DEF Gathered, DraftedFrom

LEMMA Drafted ==
    ASSUME StoreInv, NEW r \in Runs, run[r] # Null,
           NEW drafts \in IF run[r].method = "rule_based" THEN {RuleDrafts(r)} ELSE LlmDrafts(r)
    PROVE  DraftedFrom(r, drafts)
<1>1. CASE run[r].method = "rule_based"
  BY <1>1, RuleDrafted
<1>2. CASE run[r].method # "rule_based"
  <2>1. PICK reply \in Replies : drafts = ParsedDrafts(r, reply)
    BY <1>2 DEF LlmDrafts
  <2> QED
    BY <1>2, <2>1, ReplyDrafted
<1> QED
  BY <1>1, <1>2

-------------------------------------------------------------------------------
(* The types. *)

LEMMA FreeOnes ==
    /\ DocumentsLeft => /\ FreeDocument \in Documents /\ ~Stored(FreeDocument)
                        /\ \A i \in Imports : importing[i] # Null => importing[i].document # FreeDocument
    /\ MemoriesLeft => FreeMemory \in Memories /\ FreeMemory \notin Created
<1>1. DocumentsLeft => FreeDocument \in FreeDocuments
  BY DEF DocumentsLeft, FreeDocument
<1>2. MemoriesLeft => FreeMemory \in FreeMemories
  BY DEF MemoriesLeft, FreeMemory
<1> QED
  BY <1>1, <1>2 DEF FreeDocuments, FreeMemories, Stored, Created

\* A step of a run that only sets fields of its row.
LEMMA RunSetTyped ==
    ASSUME TypeOK, NEW r \in Runs, run[r] # Null,
           NEW at \in {"start", "draft", "create", "complete", "ended"}, NEW drafts \in Seq(DraftRow)
    PROVE  /\ [run EXCEPT ![r].at = at] \in [Runs -> RunRow \cup {Null}]
           /\ [run EXCEPT ![r].at = at, ![r].drafts = drafts] \in [Runs -> RunRow \cup {Null}]
<1>1. run \in [Runs -> RunRow \cup {Null}] /\ run[r] \in RunRow
  BY DEF TypeOK
<1>2. [run[r] EXCEPT !.at = at] \in RunRow /\ [run[r] EXCEPT !.at = at, !.drafts = drafts] \in RunRow
  <2> DEFINE drafted == Seq(DraftRow)
             chunks == Seq(ChunkIds)
             made == SUBSET Memories
             ats == {"start", "draft", "create", "complete", "ended"}
             methods == {"rule_based", "llm"}
  <2>1. RunRow = [at: ats, method: methods, rows: chunks, drafts: drafted, created: made]
    BY DEF RunRow
  <2>2. at \in ats /\ drafts \in drafted
    OBVIOUS
  <2> HIDE DEF drafted, chunks, made, ats, methods
  <2> QED
    BY <1>1, <2>1, <2>2
<1>3. /\ [run EXCEPT ![r].at = at] = [run EXCEPT ![r] = [run[r] EXCEPT !.at = at]]
      /\ [run EXCEPT ![r].at = at, ![r].drafts = drafts]
            = [run EXCEPT ![r] = [run[r] EXCEPT !.at = at, !.drafts = drafts]]
  BY <1>1
<1> HIDE DEF RunRow
<1> QED
  BY <1>1, <1>2, <1>3

LEMMA EndedTyped ==
    ASSUME TypeOK, NEW r \in Runs, run[r] # Null, Ended(r)
    PROVE  run' \in [Runs -> RunRow \cup {Null}]
<1>1. "ended" \in {"start", "draft", "create", "complete", "ended"} /\ <<>> \in Seq(DraftRow)
  OBVIOUS
<1> QED
  BY <1>1, RunSetTyped DEF Ended

LEMMA BuiltTyped ==
    ASSUME NEW text \in Texts
    PROVE  BuildChunks(text) \in Seq(Chunks) /\ BuildChunks(text) # <<>>
BY TextAssumption, EveryTextIsCovered

LEMMA NoteChunksTyped == <<ChunkOf(1, 1)>> \in Seq(Chunks)
<1>1. ChunkOf(1, 1) \in Chunks
  BY DEF ChunkOf, Chunks
<1> QED
  BY <1>1

LEMMA TypeStep == StoreInv /\ [Next]_vars => TypeOK'
<1> SUFFICES ASSUME StoreInv, [Next]_vars PROVE TypeOK'
  OBVIOUS
<1>1. /\ document \in [Documents -> DocumentRow \cup {Null}]
      /\ importing \in [Imports -> ImportRow \cup {Null}]
      /\ memory \in [Memories -> MemoryRow \cup {Null}]
      /\ run \in [Runs -> RunRow \cup {Null}]
      /\ auditLog \subseteq AuditRow
      /\ TypeOK
  BY DEF StoreInv, TypeOK
<1>2. ASSUME NEW i \in Imports, NEW text \in Texts, InsertDocument(i, text) PROVE TypeOK'
  <2>1. [document |-> FreeDocument, text |-> text] \in ImportRow
    BY <1>2, FreeOnes DEF InsertDocument, ImportRow
  <2> QED
    BY <1>1, <1>2, <2>1 DEF InsertDocument, TypeOK
<1>3. ASSUME NEW i \in Imports, CommitSource(i) PROVE TypeOK'
  <2>1. importing[i] \in ImportRow
    BY <1>1, <1>3 DEF CommitSource
  <2>2. importing[i].text \in Texts /\ importing[i].document \in Documents
    BY <2>1 DEF ImportRow
  <2>3. BuildChunks(importing[i].text) \in Seq(Chunks)
    BY <2>2, BuiltTyped
  <2>4. [checksum |-> importing[i].text, status |-> "active",
         chunks |-> BuildChunks(importing[i].text)] \in DocumentRow
    BY <2>2, <2>3 DEF DocumentRow
  <2> QED
    BY <1>1, <1>3, <2>2, <2>4 DEF CommitSource, TypeOK
<1>4. ASSUME NEW i \in Imports, AbortSource(i) PROVE TypeOK'
  BY <1>1, <1>4 DEF AbortSource, TypeOK
<1>5. ASSUME NEW d \in Documents, ForgetDocument(d) PROVE TypeOK'
  <2>1. document[d] \in DocumentRow
    BY <1>1, <1>5 DEF ForgetDocument, Stored
  <2>2. [document[d] EXCEPT !.status = "forgotten"] \in DocumentRow
    <3> DEFINE all == Seq(Chunks)
    <3>1. DocumentRow = [checksum: Texts \cup {Null}, status: {"active", "forgotten"}, chunks: all]
      BY DEF DocumentRow
    <3> HIDE DEF all
    <3> QED
      BY <2>1, <3>1
  <2>3. document' = [document EXCEPT ![d] = [document[d] EXCEPT !.status = "forgotten"]]
    BY <1>1, <1>5 DEF ForgetDocument
  <2> QED
    BY <1>1, <1>5, <2>2, <2>3 DEF ForgetDocument, TypeOK
<1>6. ASSUME NEW statement \in Notes, RememberNote(statement) PROVE TypeOK'
  <2>1. /\ FreeDocument \in Documents /\ FreeMemory \in Memories
        /\ statement \in Statements
    BY <1>6, FreeOnes, IngestionAssumption DEF RememberNote
  <2>2. [checksum |-> Null, status |-> "active", chunks |-> <<ChunkOf(1, 1)>>] \in DocumentRow
    BY NoteChunksTyped DEF DocumentRow
  <2>3. [says |-> statement, chunk |-> <<FreeDocument, 1>>, status |-> "active", run |-> Null]
            \in MemoryRow
    BY <2>1 DEF MemoryRow, ChunkIds
  <2>4. [action |-> "source_document.create", document |-> FreeDocument] \in AuditRow
    BY <2>1 DEF AuditRow
  <2> QED
    BY <1>1, <1>6, <2>1, <2>2, <2>3, <2>4 DEF RememberNote, TypeOK
<1>7. ASSUME NEW r \in Runs, NEW ids \in Requests, NEW method \in {"rule_based", "llm"},
             FetchChunks(r, ids, method)
      PROVE  TypeOK'
  <2>1. PICK rows \in SetToSeqs(ids) :
            run' = [run EXCEPT ![r] = [at |-> "start", method |-> method, rows |-> rows,
                                       drafts |-> <<>>, created |-> {}]]
    BY <1>7 DEF FetchChunks
  <2>2. rows \in Seq(ChunkIds)
    <3>1. Cardinality(ids) \in Nat
      BY IngestionAssumption, FS_CardinalityType
    <3>2. rows \in [1 .. Cardinality(ids) -> ids]
      BY DEF SetToSeqs
    <3>3. ids \subseteq ChunkIds
      <4>1. ids \subseteq StoredChunks
        BY <1>7 DEF FetchChunks, ActiveChunks, StoredChunks
      <4> QED
        BY <4>1, SaidTyped
    <3> QED
      BY <3>1, <3>2, <3>3
  <2>3. [at |-> "start", method |-> method, rows |-> rows, drafts |-> <<>>, created |-> {}] \in RunRow
    <3>1. <<>> \in Seq(DraftRow)
      OBVIOUS
    <3> QED
      BY <2>2, <3>1 DEF RunRow
  <2> HIDE DEF RunRow
  <2>4. run' \in [Runs -> RunRow \cup {Null}]
    BY <1>1, <2>1, <2>3
  <2> QED
    BY <1>1, <1>7, <2>4 DEF FetchChunks, TypeOK
<1>8. ASSUME NEW r \in Runs, RefuseOptions(r) \/ RefuseReply(r) \/ RefuseCandidate(r) \/ StopRun(r)
      PROVE  TypeOK'
  <2>1. run[r] # Null /\ Ended(r) /\ UNCHANGED <<document, importing, memory, auditLog>>
    BY <1>8 DEF RefuseOptions, RefuseReply, RefuseCandidate, StopRun
  <2>2. run' \in [Runs -> RunRow \cup {Null}]
    BY <1>1, <2>1, EndedTyped
  <2> QED
    BY <1>1, <2>1, <2>2 DEF TypeOK
<1>9. ASSUME NEW r \in Runs, LogStart(r) PROVE TypeOK'
  <2>1. run' \in [Runs -> RunRow \cup {Null}]
    <3>1. <<>> \in Seq(DraftRow) /\ "draft" \in {"start", "draft", "create", "complete", "ended"}
      OBVIOUS
    <3> QED
      BY <1>1, <1>9, <3>1, RunSetTyped DEF LogStart
  <2>2. [action |-> "run.start", run |-> r,
         requested |-> {run[r].rows[k] : k \in DOMAIN run[r].rows}] \in AuditRow
    <3>1. run[r].rows \in Seq(ChunkIds)
      BY <1>9, RunTyped DEF LogStart
    <3>2. {run[r].rows[k] : k \in DOMAIN run[r].rows} \in SUBSET ChunkIds
      BY <3>1
    <3> QED
      BY <3>2 DEF AuditRow
  <2> QED
    BY <1>1, <1>9, <2>1, <2>2 DEF LogStart, TypeOK
<1>10. ASSUME NEW r \in Runs, DraftCandidates(r) PROVE TypeOK'
  <2>1. PICK drafts \in IF run[r].method = "rule_based" THEN {RuleDrafts(r)} ELSE LlmDrafts(r) :
            run' = [run EXCEPT ![r].at = Following(drafts), ![r].drafts = drafts]
    BY <1>10 DEF DraftCandidates
  <2>2. drafts \in Seq(DraftRow)
    BY <1>10, Drafted DEF DraftCandidates, DraftedFrom
  <2>3. Following(drafts) \in {"start", "draft", "create", "complete", "ended"}
    BY DEF Following
  <2>4. run' \in [Runs -> RunRow \cup {Null}]
    BY <1>1, <1>10, <2>1, <2>2, <2>3, RunSetTyped DEF DraftCandidates
  <2> QED
    BY <1>1, <1>10, <2>4 DEF DraftCandidates, TypeOK
<1>11. ASSUME NEW r \in Runs, CreateCandidate(r) PROVE TypeOK'
  <2>1. run[r] \in RunRow
    BY <1>1, <1>11 DEF CreateCandidate
  <2>2. run[r].drafts \in Seq(DraftRow) /\ run[r].created \in SUBSET Memories /\ FreeMemory \in Memories
    BY <1>11, <2>1, FreeOnes DEF RunRow, CreateCandidate
  <2> DEFINE drafts == run[r].drafts
             rest == Tail(drafts)
             at == Following(rest)
             made == run[r].created \cup {FreeMemory}
  <2>3. drafts \in Seq(DraftRow) /\ drafts # <<>>
    BY <1>11, <2>2 DEF CreateCandidate
  <2>4. drafts[1] \in DraftRow /\ rest \in Seq(DraftRow)
    <3> HIDE DEF drafts
    <3> QED
      BY <2>3
  <2>5. [says |-> drafts[1].says, chunk |-> drafts[1].chunk, status |-> "candidate", run |-> r]
            \in MemoryRow
    <3> HIDE DEF drafts
    <3> QED
      BY <2>4 DEF DraftRow, MemoryRow
  <2>6. at \in {"start", "draft", "create", "complete", "ended"} /\ made \in SUBSET Memories
    BY <2>2 DEF Following
  <2> DEFINE row == [run[r] EXCEPT !.created = made, !.drafts = rest, !.at = at]
  <2>7. run' = [run EXCEPT ![r] = row]
    BY <1>1, <1>11 DEF CreateCandidate
  <2>8. row \in RunRow
    <3> DEFINE drafted == Seq(DraftRow)
               chunks == Seq(ChunkIds)
               memories == SUBSET Memories
               ats == {"start", "draft", "create", "complete", "ended"}
               methods == {"rule_based", "llm"}
    <3>1. RunRow = [at: ats, method: methods, rows: chunks, drafts: drafted, created: memories]
      BY DEF RunRow
    <3>2. at \in ats /\ rest \in drafted /\ made \in memories
      BY <2>4, <2>6
    <3> HIDE DEF drafted, chunks, memories, ats, methods, at, rest, made
    <3> QED
      BY <2>1, <3>1, <3>2
  <2> HIDE DEF row
  <2>9. run' \in [Runs -> RunRow \cup {Null}]
    BY <1>1, <2>7, <2>8
  <2> DEFINE candidate == [says |-> drafts[1].says, chunk |-> drafts[1].chunk,
                           status |-> "candidate", run |-> r]
  <2>10. memory' = [memory EXCEPT ![FreeMemory] = candidate]
    BY <1>11 DEF CreateCandidate
  <2> HIDE DEF candidate
  <2>11. memory' \in [Memories -> MemoryRow \cup {Null}]
    BY <1>1, <2>2, <2>5, <2>10 DEF candidate
  <2> QED
    BY <1>1, <1>11, <2>9, <2>11 DEF CreateCandidate, TypeOK
<1>12. ASSUME NEW r \in Runs, LogComplete(r) PROVE TypeOK'
  <2>1. run' \in [Runs -> RunRow \cup {Null}]
    <3>1. <<>> \in Seq(DraftRow) /\ "ended" \in {"start", "draft", "create", "complete", "ended"}
      OBVIOUS
    <3> QED
      BY <1>1, <1>12, <3>1, RunSetTyped DEF LogComplete
  <2>2. run[r] \in RunRow
    BY <1>1, <1>12 DEF LogComplete
  <2>3. [action |-> "run.complete", run |-> r, created |-> RunCandidates(r)] \in AuditRow
    BY <2>2 DEF AuditRow, RunCandidates, RunRow
  <2> QED
    BY <1>1, <1>12, <2>1, <2>3 DEF LogComplete, TypeOK
<1>13. CASE UNCHANGED vars
  BY <1>1, <1>13 DEF vars, TypeOK
<1> QED
  BY <1>2, <1>3, <1>4, <1>5, <1>6, <1>7, <1>8, <1>9, <1>10, <1>11, <1>12, <1>13 DEF Next, RunStep

-------------------------------------------------------------------------------
(* The store: documents, their chunks, the memories of notes. *)

StoreUnchanged == UNCHANGED <<document, importing, memory>>

LEMMA StoreCases ==
    ASSUME [Next]_vars
    PROVE  \/ \E i \in Imports, text \in Texts : InsertDocument(i, text)
           \/ \E i \in Imports : CommitSource(i)
           \/ \E i \in Imports : AbortSource(i)
           \/ \E d \in Documents : ForgetDocument(d)
           \/ \E statement \in Notes : RememberNote(statement)
           \/ \E r \in Runs : CreateCandidate(r)
           \/ StoreUnchanged
<1>1. UNCHANGED vars => StoreUnchanged
  BY DEF vars, StoreUnchanged
<1>2. ASSUME NEW r \in Runs,
             \/ \E ids \in Requests, method \in {"rule_based", "llm"} : FetchChunks(r, ids, method)
             \/ RunStep(r)
             \/ StopRun(r)
      PROVE  CreateCandidate(r) \/ StoreUnchanged
  BY <1>2 DEF RunStep, FetchChunks, RefuseOptions, LogStart, DraftCandidates, LogComplete,
         RefuseReply, RefuseCandidate, StopRun, StoreUnchanged
<1> QED
  BY <1>1, <1>2 DEF Next

\* The document that a step adds, with its rows before and after.
LEMMA Committed ==
    ASSUME StoreInv, NEW i \in Imports, CommitSource(i)
    PROVE  LET new == importing[i].document IN
           /\ new \in Documents /\ ~Stored(new) /\ document'[new] # Null
           /\ importing[i].text \in Texts
           /\ document'[new].checksum = importing[i].text
           /\ document'[new].chunks = BuildChunks(importing[i].text)
           /\ \A d \in Documents : d # new => document'[d] = document[d]
<1>1. importing[i] \in ImportRow
  BY DEF StoreInv, TypeOK, CommitSource
<1>2. importing[i].document \in Documents /\ importing[i].text \in Texts
  BY <1>1 DEF ImportRow
<1>3. ~Stored(importing[i].document)
  BY DEF StoreInv, ImportsApart, CommitSource
<1> DEFINE new == importing[i].document
           row == [checksum |-> importing[i].text, status |-> "active",
                   chunks |-> BuildChunks(importing[i].text)]
<1>4. row \in DocumentRow
  BY <1>2, BuiltTyped DEF DocumentRow
<1>5. row # Null
  BY <1>4, NullAssumption
<1>6. row.checksum = importing[i].text /\ row.chunks = BuildChunks(importing[i].text)
  OBVIOUS
<1>7. document' = [document EXCEPT ![new] = row] /\ document \in [Documents -> DocumentRow \cup {Null}]
  BY DEF CommitSource, StoreInv, TypeOK
<1> HIDE DEF row
<1>8. document'[new] = row /\ \A d \in Documents : d # new => document'[d] = document[d]
  <2> HIDE DEF new
  <2>1. new \in Documents
    BY <1>2 DEF new
  <2> QED
    BY <1>7, <2>1
<1>9. document'[new] # Null
  BY <1>5, <1>8 DEF Stored
<1> QED
  BY <1>2, <1>3, <1>6, <1>8, <1>9

LEMMA Noted ==
    ASSUME StoreInv, NEW statement \in Notes, RememberNote(statement)
    PROVE  LET new == FreeDocument IN
           /\ new \in Documents /\ ~Stored(new) /\ document'[new] # Null
           /\ \A i \in Imports : importing[i] # Null => importing[i].document # new
           /\ document'[new].checksum = Null
           /\ document'[new].chunks = <<ChunkOf(1, 1)>>
           /\ \A d \in Documents : d # new => document'[d] = document[d]
           /\ FreeMemory \in Memories /\ FreeMemory \notin Created
           /\ Created' = Created \cup {FreeMemory}
           /\ \A m \in Created : memory'[m] = memory[m]
           /\ memory'[FreeMemory].chunk = <<new, 1>> /\ memory'[FreeMemory].run = Null
           /\ memory'[FreeMemory].status = "active"
<1>1. /\ FreeDocument \in Documents /\ ~Stored(FreeDocument)
      /\ \A i \in Imports : importing[i] # Null => importing[i].document # FreeDocument
      /\ FreeMemory \in Memories /\ FreeMemory \notin Created
  BY FreeOnes DEF RememberNote
<1> DEFINE row == [checksum |-> Null, status |-> "active", chunks |-> <<ChunkOf(1, 1)>>]
           note == [says |-> statement, chunk |-> <<FreeDocument, 1>>, status |-> "active",
                    run |-> Null]
<1>2. row \in DocumentRow /\ note \in MemoryRow
  BY <1>1, NoteChunksTyped, IngestionAssumption DEF DocumentRow, MemoryRow, ChunkIds
<1>3. row # Null /\ note # Null
  BY <1>2, NullAssumption
<1>4. /\ document' = [document EXCEPT ![FreeDocument] = row]
      /\ memory' = [memory EXCEPT ![FreeMemory] = note]
      /\ document \in [Documents -> DocumentRow \cup {Null}]
      /\ memory \in [Memories -> MemoryRow \cup {Null}]
  BY DEF RememberNote, StoreInv, TypeOK
<1>5. /\ row.checksum = Null /\ row.chunks = <<ChunkOf(1, 1)>>
      /\ note.chunk = <<FreeDocument, 1>> /\ note.run = Null /\ note.status = "active"
  OBVIOUS
<1> HIDE DEF row, note
<1>6. Created' = Created \cup {FreeMemory}
  BY <1>1, <1>3, <1>4 DEF Created
<1>7. \A m \in Created : memory'[m] = memory[m]
  BY <1>1, <1>4 DEF Created
<1>8. /\ document'[FreeDocument] = row /\ memory'[FreeMemory] = note
      /\ \A d \in Documents : d # FreeDocument => document'[d] = document[d]
  BY <1>1, <1>4
<1>9. document'[FreeDocument] # Null
  BY <1>3, <1>8 DEF Stored
<1> QED
  BY <1>1, <1>5, <1>6, <1>7, <1>8, <1>9

LEMMA Candidate ==
    ASSUME StoreInv, NEW r \in Runs, CreateCandidate(r)
    PROVE  LET new == FreeMemory
               draft == run[r].drafts[1] IN
           /\ new \in Memories /\ new \notin Created
           /\ Created' = Created \cup {new}
           /\ \A m \in Created : memory'[m] = memory[m]
           /\ run[r].drafts \in Seq(DraftRow) /\ run[r].drafts # <<>> /\ draft \in DraftRow
           /\ memory'[new].chunk = draft.chunk /\ memory'[new].says = draft.says
           /\ memory'[new].run = r /\ memory'[new].status = "candidate"
<1> DEFINE draft == run[r].drafts[1]
           row == [says |-> draft.says, chunk |-> draft.chunk, status |-> "candidate", run |-> r]
<1>1. FreeMemory \in Memories /\ FreeMemory \notin Created
  BY FreeOnes DEF CreateCandidate
<1>2. run[r].drafts \in Seq(DraftRow) /\ run[r].drafts # <<>>
  BY RunTyped DEF CreateCandidate, RunRow
<1>3. draft \in DraftRow
  BY <1>2
<1>4. memory' = [memory EXCEPT ![FreeMemory] = row] /\ memory \in [Memories -> MemoryRow \cup {Null}]
  BY DEF CreateCandidate, StoreInv, TypeOK
<1> HIDE DEF draft
<1>5. row \in MemoryRow
  BY <1>3 DEF DraftRow, MemoryRow
<1>6. row # Null
  BY <1>5, NullAssumption
<1>7. row.says = draft.says /\ row.chunk = draft.chunk /\ row.status = "candidate" /\ row.run = r
  OBVIOUS
<1> HIDE DEF row
<1>8. Created' = Created \cup {FreeMemory} /\ \A m \in Created : memory'[m] = memory[m]
  BY <1>1, <1>4, <1>6 DEF Created
<1>9. memory'[FreeMemory] = row
  BY <1>1, <1>4
<1> QED
  BY <1>1, <1>2, <1>3, <1>7, <1>8, <1>9 DEF draft

LEMMA Forgotten ==
    ASSUME StoreInv, NEW d \in Documents, ForgetDocument(d)
    PROVE  \A e \in Documents :
              /\ Stored(e)' <=> Stored(e)
              /\ Stored(e) => /\ document'[e].checksum = document[e].checksum
                              /\ document'[e].chunks = document[e].chunks
<1>1. document[d] \in DocumentRow /\ Stored(d) /\ document \in [Documents -> DocumentRow \cup {Null}]
  BY DEF ForgetDocument, StoreInv, TypeOK, Stored
<1> DEFINE row == [document[d] EXCEPT !.status = "forgotten"]
<1>2. row \in DocumentRow /\ row.checksum = document[d].checksum /\ row.chunks = document[d].chunks
  <2> DEFINE all == Seq(Chunks)
  <2>1. DocumentRow = [checksum: Texts \cup {Null}, status: {"active", "forgotten"}, chunks: all]
    BY DEF DocumentRow
  <2> HIDE DEF all
  <2> QED
    BY <1>1, <2>1
<1>3. row # Null
  BY <1>2, NullAssumption
<1>4. document' = [document EXCEPT ![d] = row]
  BY <1>1 DEF ForgetDocument
<1> HIDE DEF row
<1> QED
  BY <1>1, <1>2, <1>3, <1>4 DEF Stored

\* A step keeps documents, with their chunks, and memories.
DocumentsKept ==
    \A d \in Documents : Stored(d) =>
        /\ Stored(d)'
        /\ document'[d].checksum = document[d].checksum /\ document'[d].chunks = document[d].chunks

MemoriesKept == \A m \in Created : m \in Created' /\ memory'[m] = memory[m]

LEMMA StoreKept ==
    ASSUME StoreInv, [Next]_vars
    PROVE  DocumentsKept /\ MemoriesKept
<1>1. ASSUME NEW i \in Imports, NEW text \in Texts, InsertDocument(i, text)
      PROVE  DocumentsKept /\ MemoriesKept
  BY <1>1 DEF InsertDocument, DocumentsKept, MemoriesKept, Stored, Created
<1>2. ASSUME NEW i \in Imports, CommitSource(i) PROVE DocumentsKept /\ MemoriesKept
  <2>1. memory' = memory
    BY <1>2 DEF CommitSource
  <2> QED
    BY <1>2, <2>1, Committed DEF DocumentsKept, MemoriesKept, Stored, Created
<1>3. ASSUME NEW i \in Imports, AbortSource(i) PROVE DocumentsKept /\ MemoriesKept
  BY <1>3 DEF AbortSource, DocumentsKept, MemoriesKept, Stored, Created
<1>4. ASSUME NEW d \in Documents, ForgetDocument(d) PROVE DocumentsKept /\ MemoriesKept
  <2>1. memory' = memory
    BY <1>4 DEF ForgetDocument
  <2> QED
    BY <1>4, <2>1, Forgotten DEF DocumentsKept, MemoriesKept, Created
<1>5. ASSUME NEW statement \in Notes, RememberNote(statement) PROVE DocumentsKept /\ MemoriesKept
  BY <1>5, Noted DEF DocumentsKept, MemoriesKept, Stored
<1>6. ASSUME NEW r \in Runs, CreateCandidate(r) PROVE DocumentsKept /\ MemoriesKept
  <2>1. document' = document
    BY <1>6 DEF CreateCandidate
  <2> QED
    BY <1>6, <2>1, Candidate DEF DocumentsKept, MemoriesKept, Stored
<1>7. CASE StoreUnchanged
  BY <1>7 DEF StoreUnchanged, DocumentsKept, MemoriesKept, Stored, Created
<1> QED
  BY <1>1, <1>2, <1>3, <1>4, <1>5, <1>6, <1>7, StoreCases

\* So chunks and what they say are kept as well.
LEMMA SaidKept ==
    ASSUME StoreInv, [Next]_vars
    PROVE  /\ StoredChunks \subseteq StoredChunks'
           /\ \A c \in StoredChunks : SaidBy(c)' = SaidBy(c)
<1>1. DocumentsKept /\ MemoriesKept
  BY StoreKept
<1>2. ASSUME NEW c \in StoredChunks PROVE NotesOf(c)' = NotesOf(c)
  <2>1. \A m \in NotesOf(c) : m \in NotesOf(c)'
    BY <1>1 DEF MemoriesKept, NotesOf, Created
  <2>2. PICK d \in Documents : Stored(d) /\ \E k \in DOMAIN document[d].chunks : c = <<d, k>>
    BY DEF StoredChunks, ChunksOf
  <2>3. ASSUME NEW m \in NotesOf(c)' PROVE m \in NotesOf(c)
    <3>1. m \in Created' /\ memory'[m].chunk = c /\ memory'[m].run = Null
      BY <2>3 DEF NotesOf
    <3>2. CASE m \in Created
      BY <1>1, <3>1, <3>2 DEF MemoriesKept, NotesOf
    <3>3. CASE m \notin Created
      <4>1. ASSUME NEW statement \in Notes, RememberNote(statement) PROVE FALSE
        <5>1. m = FreeMemory
          BY <3>1, <3>3, <4>1, Noted
        <5>2. c = <<FreeDocument, 1>> /\ ~Stored(FreeDocument)
          BY <3>1, <4>1, <5>1, Noted
        <5> QED
          BY <2>2, <5>2
      <4>2. ASSUME NEW r \in Runs, CreateCandidate(r) PROVE FALSE
        <5>1. m = FreeMemory
          BY <3>1, <3>3, <4>2, Candidate
        <5>2. memory'[m].run = r
          BY <4>2, <5>1, Candidate
        <5> QED
          BY <3>1, <5>2, NullAssumption
      <4>3. CASE memory' = memory
        BY <3>1, <3>3, <4>3 DEF Created
      <4> QED
        BY <4>1, <4>2, <4>3, StoreCases
           DEF InsertDocument, CommitSource, AbortSource, ForgetDocument, StoreUnchanged
    <3> QED
      BY <3>2, <3>3
  <2> QED
    BY <2>1, <2>3
<1>3. StoredChunks \subseteq StoredChunks'
  BY <1>1 DEF DocumentsKept, StoredChunks, ChunksOf
<1>4. ASSUME NEW c \in StoredChunks PROVE SaidBy(c)' = SaidBy(c)
  <2>1. PICK d \in Documents : Stored(d) /\ \E k \in DOMAIN document[d].chunks : c = <<d, k>>
    BY DEF StoredChunks, ChunksOf
  <2>2. c[1] = d /\ document'[d].checksum = document[d].checksum
    BY <1>1, <2>1 DEF DocumentsKept
  <2>3. CASE document[d].checksum # Null
    BY <2>2, <2>3 DEF SaidBy
  <2>4. CASE document[d].checksum = Null
    <3> DEFINE note == CHOOSE m \in NotesOf(c) : TRUE
    <3>1. NotesOf(c)' = NotesOf(c)
      BY <1>2
    <3>2. note' = note
      BY <3>1
    <3>3. SaidBy(c) = <<memory[note].says>> /\ SaidBy(c)' = <<memory'[note'].says>>
      BY <2>2, <2>4 DEF SaidBy
    <3>4. memory'[note] = memory[note]
      <4>1. NotesOf(c) # {}
        <5>1. document[d].chunks = <<ChunkOf(1, 1)>>
          BY <2>1, <2>4 DEF StoreInv, ChunksBuilt
        <5>2. c = <<d, 1>>
          BY <2>1, <5>1
        <5> QED
          BY <2>1, <2>4, <5>2 DEF StoreInv, NotesKept
      <4>2. note \in NotesOf(c)
        BY <4>1
      <4> QED
        BY <1>1, <4>2 DEF MemoriesKept, NotesOf
    <3> HIDE DEF note
    <3> QED
      BY <3>2, <3>3, <3>4
  <2> QED
    BY <2>3, <2>4
<1> QED
  BY <1>3, <1>4

LEMMA ImportsStep == StoreInv /\ [Next]_vars => ImportsApart' /\ OneDocumentPerText'
<1> SUFFICES ASSUME StoreInv, [Next]_vars PROVE ImportsApart' /\ OneDocumentPerText'
  OBVIOUS
<1>1. ImportsApart /\ OneDocumentPerText /\ importing \in [Imports -> ImportRow \cup {Null}]
  BY DEF StoreInv, TypeOK
<1>2. ASSUME NEW i \in Imports, NEW text \in Texts, InsertDocument(i, text)
      PROVE  ImportsApart' /\ OneDocumentPerText'
  <2> DEFINE row == [document |-> FreeDocument, text |-> text]
  <2>1. /\ importing' = [importing EXCEPT ![i] = row] /\ document' = document
        /\ importing[i] = Null /\ ChecksumFree(i, text)
    BY <1>2 DEF InsertDocument
  <2>2. /\ ~Stored(FreeDocument)
        /\ \A j \in Imports : importing[j] # Null => importing[j].document # FreeDocument
    BY <1>2, FreeOnes DEF InsertDocument
  <2>3. row.document = FreeDocument /\ row.text = text
    OBVIOUS
  <2> HIDE DEF row
  <2>4. importing'[i] = row /\ \A j \in Imports : j # i => importing'[j] = importing[j]
    BY <1>1, <2>1
  <2>5. \A d \in Documents : Stored(d) => document[d].checksum # text
    BY <2>1 DEF ChecksumFree
  <2>6. \A j \in Imports : importing[j] # Null => importing[j].text # text
    BY <2>1 DEF ChecksumFree
  <2>7. ImportsApart'
    <3> SUFFICES ASSUME NEW j \in Imports, importing'[j] # Null
                 PROVE  /\ document'[importing'[j].document] = Null
                        /\ \A d \in Documents : document'[d] # Null =>
                              document'[d].checksum # importing'[j].text
                        /\ \A k \in Imports : importing'[k] # Null /\ k # j =>
                              /\ importing'[k].document # importing'[j].document
                              /\ importing'[k].text # importing'[j].text
      BY DEF ImportsApart, Stored
    <3>1. CASE j = i
      BY <2>1, <2>2, <2>3, <2>4, <2>5, <2>6, <3>1 DEF Stored
    <3>2. CASE j # i
      <4>1. importing'[j] = importing[j] /\ importing[j] # Null
        BY <2>4, <3>2
      <4>2. \A k \in Imports : importing'[k] # Null /\ k # j =>
                              /\ importing'[k].document # importing'[j].document
                              /\ importing'[k].text # importing'[j].text
        <5> TAKE k \in Imports
        <5>1. CASE k = i
          BY <2>2, <2>3, <2>4, <2>6, <4>1, <5>1
        <5>2. CASE k # i
          BY <1>1, <2>4, <4>1, <5>2 DEF ImportsApart
        <5> QED
          BY <5>1, <5>2
      <4> QED
        BY <1>1, <2>1, <4>1, <4>2 DEF ImportsApart, Stored
    <3> QED
      BY <3>1, <3>2
  <2> QED
    BY <1>1, <2>1, <2>7 DEF OneDocumentPerText, Stored
<1>3. ASSUME NEW i \in Imports, CommitSource(i) PROVE ImportsApart' /\ OneDocumentPerText'
  <2> DEFINE new == importing[i].document
             text == importing[i].text
  <2>1. /\ new \in Documents /\ ~Stored(new) /\ text \in Texts
        /\ document'[new].checksum = text
        /\ \A d \in Documents : d # new => document'[d] = document[d]
    BY <1>3, Committed
  <2>2. /\ importing[i] # Null /\ importing'[i] = Null
        /\ \A j \in Imports : j # i => importing'[j] = importing[j]
    BY <1>1, <1>3 DEF CommitSource
  <2>3. /\ \A d \in Documents : Stored(d) => document[d].checksum # text
        /\ \A j \in Imports : importing[j] # Null /\ j # i =>
              importing[j].document # new /\ importing[j].text # text
    BY <1>1, <2>2 DEF ImportsApart
  <2> HIDE DEF new, text
  <2>4. ImportsApart'
    <3> SUFFICES ASSUME NEW j \in Imports, importing'[j] # Null
                 PROVE  /\ document'[importing'[j].document] = Null
                        /\ \A d \in Documents : document'[d] # Null =>
                              document'[d].checksum # importing'[j].text
                        /\ \A k \in Imports : importing'[k] # Null /\ k # j =>
                              /\ importing'[k].document # importing'[j].document
                              /\ importing'[k].text # importing'[j].text
      BY DEF ImportsApart, Stored
    <3>1. j # i /\ importing'[j] = importing[j] /\ importing[j] # Null
      BY <2>2
    <3>2. importing[j] \in ImportRow
      BY <1>1, <3>1
    <3>3. importing[j].document \in Documents
      BY <3>2 DEF ImportRow
    <3>4. \A k \in Imports : importing'[k] # Null => k # i /\ importing'[k] = importing[k]
      BY <2>2
    <3> QED
      BY <1>1, <2>1, <2>3, <3>1, <3>3, <3>4 DEF ImportsApart, Stored
  <2>5. OneDocumentPerText'
    <3>1. \A d, e \in Documents :
              document'[d] # Null /\ document'[e] # Null
                 /\ document'[d].checksum = document'[e].checksum
              => d = e \/ document'[d].checksum = Null
      BY <1>1, <2>1, <2>3 DEF OneDocumentPerText, Stored
    <3> QED
      BY <3>1 DEF OneDocumentPerText, Stored
  <2> QED
    BY <2>4, <2>5
<1>4. ASSUME NEW i \in Imports, AbortSource(i) PROVE ImportsApart' /\ OneDocumentPerText'
  <2>1. document' = document /\ importing' = [importing EXCEPT ![i] = Null]
    BY <1>4 DEF AbortSource
  <2>2. \A j \in Imports : importing'[j] # Null => importing'[j] = importing[j]
    BY <1>1, <2>1
  <2> QED
    BY <1>1, <2>1, <2>2 DEF ImportsApart, OneDocumentPerText, Stored
<1>5. ASSUME NEW d \in Documents, ForgetDocument(d) PROVE ImportsApart' /\ OneDocumentPerText'
  <2>1. importing' = importing
    BY <1>5 DEF ForgetDocument
  <2>2. \A e \in Documents :
              /\ document'[e] # Null <=> document[e] # Null
              /\ document[e] # Null => document'[e].checksum = document[e].checksum
    BY <1>5, Forgotten DEF Stored
  <2>3. \A i \in Imports : importing[i] # Null => importing[i].document \in Documents
    BY <1>1 DEF ImportRow
  <2> QED
    BY <1>1, <2>1, <2>2, <2>3 DEF ImportsApart, OneDocumentPerText, Stored
<1>6. ASSUME NEW statement \in Notes, RememberNote(statement)
      PROVE  ImportsApart' /\ OneDocumentPerText'
  <2>1. importing' = importing
    BY <1>6 DEF RememberNote
  <2> DEFINE new == FreeDocument
  <2>2. /\ new \in Documents /\ ~Stored(new) /\ document'[new].checksum = Null
        /\ \A i \in Imports : importing[i] # Null => importing[i].document # new
        /\ \A d \in Documents : d # new => document'[d] = document[d]
    BY <1>6, Noted
  <2> HIDE DEF new
  <2>3. \A i \in Imports : importing[i] # Null =>
            importing[i].document \in Documents /\ importing[i].text # Null
    <3>1. \A i \in Imports : importing[i] # Null => importing[i] \in ImportRow
      BY <1>1
    <3> QED
      BY <3>1, NullAssumption DEF ImportRow
  <2>4. ImportsApart'
    <3>1. \A j \in Imports : importing[j] # Null =>
              /\ document'[importing[j].document] = Null
              /\ \A d \in Documents : document'[d] # Null =>
                    document'[d].checksum # importing[j].text
      BY <1>1, <2>2, <2>3 DEF ImportsApart, Stored
    <3> QED
      BY <1>1, <2>1, <3>1 DEF ImportsApart, Stored
  <2>5. OneDocumentPerText'
    <3>1. \A d, e \in Documents :
              document'[d] # Null /\ document'[e] # Null
                 /\ document'[d].checksum = document'[e].checksum
              => d = e \/ document'[d].checksum = Null
      BY <1>1, <2>2 DEF OneDocumentPerText, Stored
    <3> QED
      BY <3>1 DEF OneDocumentPerText, Stored
  <2> QED
    BY <2>4, <2>5
<1>7. CASE UNCHANGED <<document, importing>>
  BY <1>1, <1>7 DEF ImportsApart, OneDocumentPerText, Stored
<1> QED
  BY <1>2, <1>3, <1>4, <1>5, <1>6, <1>7, StoreCases DEF CreateCandidate, StoreUnchanged

LEMMA ChunksStep == StoreInv /\ [Next]_vars => ChunksBuilt' /\ NotesKept'
<1> SUFFICES ASSUME StoreInv, [Next]_vars PROVE ChunksBuilt' /\ NotesKept'
  OBVIOUS
<1>1. ChunksBuilt /\ NotesKept /\ MemoriesKept
  BY StoreKept DEF StoreInv
<1>2. ASSUME NEW d \in Documents, NotesOf(<<d, 1>>) # {}
      PROVE  NotesOf(<<d, 1>>)' # {}
  <2>1. PICK m \in NotesOf(<<d, 1>>) : TRUE
    BY <1>2
  <2>2. m \in NotesOf(<<d, 1>>)'
    BY <1>1, <2>1 DEF MemoriesKept, NotesOf, Created
  <2> QED
    BY <2>2
<1>3. ASSUME \A d \in Documents :
                /\ Stored(d)' <=> Stored(d)
                /\ Stored(d) => /\ document'[d].checksum = document[d].checksum
                                /\ document'[d].chunks = document[d].chunks
      PROVE  ChunksBuilt' /\ NotesKept'
  <2>1. ASSUME NEW d \in Documents, Stored(d)'
        PROVE  document'[d].chunks = IF document'[d].checksum = Null THEN <<ChunkOf(1, 1)>>
                                     ELSE BuildChunks(document'[d].checksum)
    BY <1>1, <1>3, <2>1 DEF ChunksBuilt
  <2>2. ASSUME NEW d \in Documents, Stored(d)', document'[d].checksum = Null
        PROVE  NotesOf(<<d, 1>>)' # {}
    <3>1. NotesOf(<<d, 1>>) # {}
      BY <1>1, <1>3, <2>2 DEF NotesKept
    <3> QED
      BY <1>2, <3>1
  <2> QED
    BY <2>1, <2>2 DEF ChunksBuilt, NotesKept
<1>4. ASSUME NEW i \in Imports, CommitSource(i) PROVE ChunksBuilt' /\ NotesKept'
  <2> DEFINE new == importing[i].document
             text == importing[i].text
  <2>1. /\ new \in Documents /\ text \in Texts
        /\ document'[new].checksum = text /\ document'[new].chunks = BuildChunks(text)
        /\ \A d \in Documents : d # new => document'[d] = document[d]
    BY <1>4, Committed
  <2> HIDE DEF new, text
  <2>2. text # Null
    BY <2>1, NullAssumption
  <2>3. ASSUME NEW d \in Documents, Stored(d)'
        PROVE  document'[d].chunks = IF document'[d].checksum = Null THEN <<ChunkOf(1, 1)>>
                                     ELSE BuildChunks(document'[d].checksum)
    BY <1>1, <2>1, <2>2, <2>3 DEF ChunksBuilt, Stored
  <2>4. ASSUME NEW d \in Documents, Stored(d)', document'[d].checksum = Null
        PROVE  NotesOf(<<d, 1>>)' # {}
    <3>1. NotesOf(<<d, 1>>) # {}
      BY <1>1, <2>1, <2>2, <2>4 DEF NotesKept, Stored
    <3> QED
      BY <1>2, <3>1
  <2> QED
    BY <2>3, <2>4 DEF ChunksBuilt, NotesKept
<1>5. ASSUME NEW statement \in Notes, RememberNote(statement) PROVE ChunksBuilt' /\ NotesKept'
  <2> DEFINE new == FreeDocument
             note == FreeMemory
  <2>1. /\ new \in Documents /\ document'[new].checksum = Null
        /\ document'[new].chunks = <<ChunkOf(1, 1)>>
        /\ \A d \in Documents : d # new => document'[d] = document[d]
        /\ note \in Created'
        /\ memory'[note].chunk = <<new, 1>> /\ memory'[note].run = Null
    BY <1>5, Noted
  <2> HIDE DEF new, note
  <2>2. ASSUME NEW d \in Documents, Stored(d)'
        PROVE  document'[d].chunks = IF document'[d].checksum = Null THEN <<ChunkOf(1, 1)>>
                                     ELSE BuildChunks(document'[d].checksum)
    BY <1>1, <2>1, <2>2 DEF ChunksBuilt, Stored
  <2>3. ASSUME NEW d \in Documents, Stored(d)', document'[d].checksum = Null
        PROVE  NotesOf(<<d, 1>>)' # {}
    <3>1. CASE d = new
      <4>1. note \in NotesOf(<<d, 1>>)'
        BY <2>1, <3>1 DEF NotesOf
      <4> QED
        BY <4>1
    <3>2. CASE d # new
      <4>1. NotesOf(<<d, 1>>) # {}
        BY <1>1, <2>1, <2>3, <3>2 DEF NotesKept, Stored
      <4> QED
        BY <1>2, <4>1
    <3> QED
      BY <3>1, <3>2
  <2> QED
    BY <2>2, <2>3 DEF ChunksBuilt, NotesKept
<1>6. ASSUME NEW d \in Documents, ForgetDocument(d) PROVE ChunksBuilt' /\ NotesKept'
  BY <1>3, <1>6, Forgotten
<1>7. CASE document' = document
  BY <1>3, <1>7 DEF Stored
<1> QED
  BY <1>4, <1>5, <1>6, <1>7, StoreCases
     DEF InsertDocument, AbortSource, CreateCandidate, StoreUnchanged

LEMMA MemoriesStep == StoreInv /\ [Next]_vars => MemoriesFromChunks'
<1> SUFFICES ASSUME StoreInv, [Next]_vars PROVE MemoriesFromChunks'
  OBVIOUS
<1>1. MemoriesFromChunks /\ MemoriesKept /\ StoredChunks \subseteq StoredChunks'
  BY StoreKept, SaidKept DEF StoreInv
<1>2. ASSUME NEW m \in Created
      PROVE  /\ memory'[m].chunk \in StoredChunks'
             /\ memory'[m].status = "candidate" <=> memory'[m].run # Null
  BY <1>1 DEF MemoriesFromChunks, MemoriesKept
<1>3. ASSUME NEW statement \in Notes, RememberNote(statement) PROVE MemoriesFromChunks'
  <2> DEFINE new == FreeDocument
             note == FreeMemory
  <2>1. /\ new \in Documents /\ document'[new] # Null
        /\ document'[new].chunks = <<ChunkOf(1, 1)>>
        /\ Created' = Created \cup {note}
        /\ memory'[note].chunk = <<new, 1>> /\ memory'[note].run = Null
        /\ memory'[note].status = "active"
    BY <1>3, Noted
  <2> HIDE DEF new, note
  <2>2. <<new, 1>> \in StoredChunks'
    <3>1. 1 \in DOMAIN document'[new].chunks
      BY <2>1
    <3> QED
      BY <2>1, <3>1 DEF StoredChunks, ChunksOf, Stored
  <2> QED
    BY <1>2, <2>1, <2>2 DEF MemoriesFromChunks
<1>4. ASSUME NEW r \in Runs, CreateCandidate(r) PROVE MemoriesFromChunks'
  <2> DEFINE new == FreeMemory
             draft == run[r].drafts[1]
  <2>1. /\ Created' = Created \cup {new}
        /\ run[r].drafts \in Seq(DraftRow) /\ run[r].drafts # <<>>
        /\ memory'[new].chunk = draft.chunk
        /\ memory'[new].run = r /\ memory'[new].status = "candidate"
    BY <1>4, Candidate
  <2>2. 1 \in DOMAIN run[r].drafts
    BY <2>1
  <2>3. draft.chunk \in StoredChunks
    BY <1>4, <2>2 DEF CreateCandidate, StoreInv, RowsStored
  <2> HIDE DEF new, draft
  <2> QED
    BY <1>1, <1>2, <2>1, <2>3, NullAssumption DEF MemoriesFromChunks
<1>5. CASE memory' = memory
  <2>1. Created' = Created
    BY <1>5 DEF Created
  <2> QED
    BY <1>2, <2>1 DEF MemoriesFromChunks
<1> QED
  BY <1>3, <1>4, <1>5, StoreCases
     DEF InsertDocument, CommitSource, AbortSource, ForgetDocument, StoreUnchanged

-------------------------------------------------------------------------------
(* The steps of a run. *)

OtherRunsKept(r) == \A q \in Runs : q # r => run'[q] = run[q]

RunMoved(r, at, drafts, created) ==
    /\ run[r] # Null /\ run'[r] # Null
    /\ run'[r].at = at /\ run'[r].drafts = drafts /\ run'[r].created = created
    /\ run'[r].rows = run[r].rows /\ run'[r].method = run[r].method
    /\ OtherRunsKept(r)

RunFails(r) == RefuseOptions(r) \/ RefuseReply(r) \/ RefuseCandidate(r) \/ StopRun(r)

LEMMA RunMoves ==
    ASSUME StoreInv, NEW r \in Runs
    PROVE  /\ RunFails(r) => RunMoved(r, "ended", <<>>, run[r].created)
           /\ LogStart(r) => RunMoved(r, "draft", run[r].drafts, run[r].created)
           /\ DraftCandidates(r) =>
                 \E drafts : /\ DraftedFrom(r, drafts)
                             /\ RunMoved(r, Following(drafts), drafts, run[r].created)
           /\ CreateCandidate(r) =>
                 RunMoved(r, Following(Tail(run[r].drafts)), Tail(run[r].drafts),
                          run[r].created \cup {FreeMemory})
           /\ LogComplete(r) => RunMoved(r, "ended", run[r].drafts, run[r].created)
<1>1. run \in [Runs -> RunRow \cup {Null}] /\ TypeOK
  BY DEF StoreInv, TypeOK
<1> DEFINE Row(at, drafts, created) ==
              [run[r] EXCEPT !.at = at, !.drafts = drafts, !.created = created]
           ats == {"start", "draft", "create", "complete", "ended"}
           drafted == Seq(DraftRow)
           made == SUBSET Memories
<1>2. ASSUME run[r] # Null, NEW at \in ats, NEW drafts \in drafted, NEW created \in made,
             run' = [run EXCEPT ![r] = Row(at, drafts, created)]
      PROVE  RunMoved(r, at, drafts, created)
  <2> DEFINE row == Row(at, drafts, created)
             methods == {"rule_based", "llm"}
             chunks == Seq(ChunkIds)
  <2>1. RunRow = [at: ats, method: methods, rows: chunks, drafts: drafted, created: made]
    BY DEF RunRow
  <2>2. run[r] \in RunRow
    BY <1>1, <1>2
  <2>3. /\ row \in RunRow /\ row.at = at /\ row.drafts = drafts /\ row.created = created
        /\ row.rows = run[r].rows /\ row.method = run[r].method
    <3> HIDE DEF ats, drafted, made, methods, chunks
    <3> QED
      BY <2>1, <2>2
  <2>4. row # Null
    BY <2>3, NullAssumption
  <2> HIDE DEF row
  <2>5. run'[r] = row /\ OtherRunsKept(r)
    BY <1>1, <1>2 DEF row, OtherRunsKept
  <2> QED
    BY <1>2, <2>3, <2>4, <2>5 DEF RunMoved
<1>3. ASSUME run[r] # Null
      PROVE  run[r].drafts \in drafted /\ run[r].created \in made /\ run[r] \in RunRow
             /\ run[r].at \in ats
  <2>1. run[r] \in RunRow
    BY <1>1, <1>3
  <2> QED
    BY <2>1 DEF RunRow
<1>4. ASSUME run[r] # Null, NEW at, NEW drafts
      PROVE  /\ [run EXCEPT ![r].at = at] = [run EXCEPT ![r] = Row(at, run[r].drafts, run[r].created)]
             /\ [run EXCEPT ![r].at = at, ![r].drafts = drafts]
                   = [run EXCEPT ![r] = Row(at, drafts, run[r].created)]
  <2>1. run[r] \in RunRow
    BY <1>3, <1>4
  <2>2. /\ [run[r] EXCEPT !.at = at] = Row(at, run[r].drafts, run[r].created)
        /\ [run[r] EXCEPT !.at = at, !.drafts = drafts] = Row(at, drafts, run[r].created)
    BY <2>1 DEF RunRow
  <2>3. /\ [run EXCEPT ![r].at = at] = [run EXCEPT ![r] = [run[r] EXCEPT !.at = at]]
        /\ [run EXCEPT ![r].at = at, ![r].drafts = drafts]
              = [run EXCEPT ![r] = [run[r] EXCEPT !.at = at, !.drafts = drafts]]
    BY <1>1
  <2> HIDE DEF Row
  <2> QED
    BY <2>2, <2>3
<1>5. "ended" \in ats /\ "draft" \in ats /\ <<>> \in drafted /\ \A drafts : Following(drafts) \in ats
  BY DEF Following
<1> HIDE DEF Row, ats, drafted, made
<1>6. ASSUME RunFails(r) PROVE RunMoved(r, "ended", <<>>, run[r].created)
  <2>1. run[r] # Null /\ run' = [run EXCEPT ![r].at = "ended", ![r].drafts = <<>>]
    BY <1>6 DEF RunFails, RefuseOptions, RefuseReply, RefuseCandidate, StopRun, Ended
  <2> QED
    BY <1>2, <1>3, <1>4, <1>5, <2>1
<1>7. ASSUME LogStart(r) PROVE RunMoved(r, "draft", run[r].drafts, run[r].created)
  <2>1. run[r] # Null /\ run' = [run EXCEPT ![r].at = "draft"]
    BY <1>7 DEF LogStart
  <2> QED
    BY <1>2, <1>3, <1>4, <1>5, <2>1
<1>8. ASSUME DraftCandidates(r)
      PROVE  \E drafts : /\ DraftedFrom(r, drafts)
                         /\ RunMoved(r, Following(drafts), drafts, run[r].created)
  <2>1. run[r] # Null
    BY <1>8 DEF DraftCandidates
  <2>2. PICK drafts \in IF run[r].method = "rule_based" THEN {RuleDrafts(r)} ELSE LlmDrafts(r) :
            run' = [run EXCEPT ![r].at = Following(drafts), ![r].drafts = drafts]
    BY <1>8 DEF DraftCandidates
  <2>3. DraftedFrom(r, drafts)
    BY <2>1, Drafted
  <2>4. drafts \in drafted
    BY <2>3 DEF DraftedFrom, drafted
  <2>5. RunMoved(r, Following(drafts), drafts, run[r].created)
    BY <1>2, <1>3, <1>4, <1>5, <2>1, <2>2, <2>4
  <2> QED
    BY <2>3, <2>5
<1>9. ASSUME CreateCandidate(r)
      PROVE  RunMoved(r, Following(Tail(run[r].drafts)), Tail(run[r].drafts),
                      run[r].created \cup {FreeMemory})
  <2> DEFINE rest == Tail(run[r].drafts)
             at == Following(rest)
             created == run[r].created \cup {FreeMemory}
  <2>1. /\ run[r] # Null /\ run[r].drafts # <<>> /\ FreeMemory \in Memories
        /\ run' = [run EXCEPT ![r].created = created, ![r].drafts = rest, ![r].at = at]
    BY <1>9, FreeOnes DEF CreateCandidate
  <2>2. rest \in drafted /\ created \in made /\ at \in ats
    <3>1. run[r].drafts \in drafted /\ run[r].created \in made
      BY <1>3, <2>1
    <3>2. rest \in drafted
      BY <2>1, <3>1 DEF drafted
    <3> QED
      BY <1>5, <2>1, <3>1, <3>2 DEF made
  <2> HIDE DEF rest, at, created
  <2>3. [run EXCEPT ![r].created = created, ![r].drafts = rest, ![r].at = at]
            = [run EXCEPT ![r] = [run[r] EXCEPT !.created = created, !.drafts = rest, !.at = at]]
    BY <1>1
  <2>4. [run[r] EXCEPT !.created = created, !.drafts = rest, !.at = at] = Row(at, rest, created)
    BY <1>3, <2>1 DEF RunRow, Row
  <2>5. RunMoved(r, at, rest, created)
    BY <1>2, <2>1, <2>2, <2>3, <2>4
  <2> QED
    BY <2>5 DEF rest, at, created
<1>10. ASSUME LogComplete(r) PROVE RunMoved(r, "ended", run[r].drafts, run[r].created)
  <2>1. run[r] # Null /\ run' = [run EXCEPT ![r].at = "ended"]
    BY <1>10 DEF LogComplete
  <2> QED
    BY <1>2, <1>3, <1>4, <1>5, <2>1
<1> QED
  BY <1>6, <1>7, <1>8, <1>9, <1>10

LEMMA RunBegins ==
    ASSUME StoreInv, NEW r \in Runs, NEW ids \in Requests, NEW method \in {"rule_based", "llm"},
           FetchChunks(r, ids, method)
    PROVE  /\ run[r] = Null /\ run'[r] # Null /\ OtherRunsKept(r)
           /\ run'[r].at = "start" /\ run'[r].drafts = <<>> /\ run'[r].created = {}
           /\ \A k \in DOMAIN run'[r].rows : run'[r].rows[k] \in StoredChunks
<1>1. PICK rows \in SetToSeqs(ids) :
          run' = [run EXCEPT ![r] = [at |-> "start", method |-> method, rows |-> rows,
                                     drafts |-> <<>>, created |-> {}]]
  BY DEF FetchChunks
<1> DEFINE row == [at |-> "start", method |-> method, rows |-> rows, drafts |-> <<>>, created |-> {}]
<1>2. run' = [run EXCEPT ![r] = row] /\ run \in [Runs -> RunRow \cup {Null}] /\ run[r] = Null
  BY <1>1 DEF FetchChunks, StoreInv, TypeOK
<1>3. /\ row.at = "start" /\ row.drafts = <<>> /\ row.created = {} /\ row.rows = rows
  OBVIOUS
<1>4. \A k \in DOMAIN rows : rows[k] \in StoredChunks
  <2>1. rows \in [1 .. Cardinality(ids) -> ids]
    BY DEF SetToSeqs
  <2>2. ids \subseteq StoredChunks
    BY DEF FetchChunks, ActiveChunks, StoredChunks
  <2> QED
    BY <2>1, <2>2
<1> HIDE DEF row
<1>5. run'[r] = row /\ OtherRunsKept(r)
  BY <1>2 DEF OtherRunsKept
<1>6. row # Null
  <2>1. TypeOK'
    <3>1. [Next]_vars
      BY DEF Next
    <3> QED
      BY <3>1, TypeStep
  <2>2. row \in RunRow
    <3>1. <<>> \in Seq(DraftRow)
      OBVIOUS
    <3>2. rows \in Seq(ChunkIds)
      <4>1. Cardinality(ids) \in Nat
        BY IngestionAssumption, FS_CardinalityType
      <4>2. rows \in [1 .. Cardinality(ids) -> ids]
        BY DEF SetToSeqs
      <4>3. ids \subseteq StoredChunks
        BY DEF FetchChunks, ActiveChunks, StoredChunks
      <4>4. ids \subseteq ChunkIds
        BY <4>3, SaidTyped
      <4> QED
        BY <4>1, <4>2, <4>4
    <3> QED
      BY <3>1, <3>2 DEF row, RunRow
  <2> QED
    BY <2>2, NullAssumption
<1> QED
  BY <1>2, <1>3, <1>4, <1>5, <1>6

\* A step of the system is one of a run, or it leaves the runs alone.
LEMMA RunCases ==
    ASSUME [Next]_vars
    PROVE  \/ \E r \in Runs, ids \in Requests, method \in {"rule_based", "llm"} :
                 FetchChunks(r, ids, method)
           \/ \E r \in Runs : RunFails(r)
           \/ \E r \in Runs : LogStart(r)
           \/ \E r \in Runs : DraftCandidates(r)
           \/ \E r \in Runs : CreateCandidate(r)
           \/ \E r \in Runs : LogComplete(r)
           \/ /\ run' = run
              /\ \/ UNCHANGED <<memory, auditLog>>
                 \/ \E statement \in Notes : RememberNote(statement)
<1>1. ASSUME NEW r \in Runs, RunStep(r) \/ StopRun(r)
      PROVE  RunFails(r) \/ LogStart(r) \/ DraftCandidates(r) \/ CreateCandidate(r) \/ LogComplete(r)
  BY <1>1 DEF RunStep, RunFails
<1>2. ASSUME \/ \E i \in Imports :
                   (\E text \in Texts : InsertDocument(i, text)) \/ CommitSource(i) \/ AbortSource(i)
             \/ \E d \in Documents : ForgetDocument(d)
             \/ UNCHANGED vars
      PROVE  run' = run /\ UNCHANGED <<memory, auditLog>>
  BY <1>2 DEF InsertDocument, CommitSource, AbortSource, ForgetDocument, vars
<1>3. \A statement \in Notes : RememberNote(statement) => run' = run
  BY DEF RememberNote
<1> QED
  BY <1>1, <1>2, <1>3 DEF Next

LEMMA RowsStep == StoreInv /\ [Next]_vars => RowsStored'
<1> SUFFICES ASSUME StoreInv, [Next]_vars, NEW q \in Runs, run'[q] # Null
             PROVE  /\ \A k \in DOMAIN run'[q].rows : run'[q].rows[k] \in StoredChunks'
                    /\ \A k \in DOMAIN run'[q].drafts : run'[q].drafts[k].chunk \in StoredChunks'
  BY DEF RowsStored
<1>1. StoredChunks \subseteq StoredChunks'
  BY SaidKept
<1>2. ASSUME run'[q] = run[q]
      PROVE  /\ \A k \in DOMAIN run'[q].rows : run'[q].rows[k] \in StoredChunks'
             /\ \A k \in DOMAIN run'[q].drafts : run'[q].drafts[k].chunk \in StoredChunks'
  BY <1>1, <1>2 DEF StoreInv, RowsStored
<1>3. ASSUME NEW at, NEW drafts, NEW created, RunMoved(q, at, drafts, created),
             \A k \in DOMAIN drafts : drafts[k].chunk \in StoredChunks
      PROVE  /\ \A k \in DOMAIN run'[q].rows : run'[q].rows[k] \in StoredChunks'
             /\ \A k \in DOMAIN run'[q].drafts : run'[q].drafts[k].chunk \in StoredChunks'
  BY <1>1, <1>3 DEF RunMoved, StoreInv, RowsStored
<1>4. ASSUME NEW r \in Runs, NEW ids \in Requests, NEW method \in {"rule_based", "llm"},
             FetchChunks(r, ids, method)
      PROVE  /\ \A k \in DOMAIN run'[q].rows : run'[q].rows[k] \in StoredChunks'
             /\ \A k \in DOMAIN run'[q].drafts : run'[q].drafts[k].chunk \in StoredChunks'
  <2>1. CASE r = q
    <3>1. run'[q].drafts = <<>> /\ \A k \in DOMAIN run'[q].rows : run'[q].rows[k] \in StoredChunks
      BY <1>4, <2>1, RunBegins
    <3> QED
      BY <1>1, <3>1
  <2>2. CASE r # q
    BY <1>2, <1>4, <2>2, RunBegins DEF OtherRunsKept
  <2> QED
    BY <2>1, <2>2
<1>5. ASSUME NEW r \in Runs,
             RunFails(r) \/ LogStart(r) \/ DraftCandidates(r) \/ CreateCandidate(r) \/ LogComplete(r)
      PROVE  /\ \A k \in DOMAIN run'[q].rows : run'[q].rows[k] \in StoredChunks'
             /\ \A k \in DOMAIN run'[q].drafts : run'[q].drafts[k].chunk \in StoredChunks'
  <2>1. PICK at, drafts, created :
            /\ RunMoved(r, at, drafts, created)
            /\ \/ drafts = <<>>
               \/ drafts = run[r].drafts
               \/ DraftedFrom(r, drafts)
               \/ CreateCandidate(r) /\ drafts = Tail(run[r].drafts)
    BY <1>5, RunMoves
  <2>2. run[r] # Null
    BY <2>1 DEF RunMoved
  <2>3. /\ \A k \in DOMAIN run[r].drafts : run[r].drafts[k].chunk \in StoredChunks
        /\ \A k \in DOMAIN run[r].rows : run[r].rows[k] \in StoredChunks
    BY <2>2 DEF StoreInv, RowsStored
  <2>4. \A k \in DOMAIN drafts : drafts[k].chunk \in StoredChunks
    <3>1. CASE drafts = <<>>
      BY <3>1
    <3>2. CASE drafts = run[r].drafts
      BY <2>3, <3>2
    <3>3. CASE DraftedFrom(r, drafts)
      BY <2>3, <3>3 DEF DraftedFrom, RowsOf
    <3>4. CASE CreateCandidate(r) /\ drafts = Tail(run[r].drafts)
      <4>1. run[r].drafts \in Seq(DraftRow) /\ run[r].drafts # <<>>
        BY <3>4, Candidate
      <4>2. \A k \in DOMAIN drafts : k + 1 \in DOMAIN run[r].drafts /\ drafts[k] = run[r].drafts[k + 1]
        BY <3>4, <4>1
      <4> QED
        BY <2>3, <4>2
    <3> QED
      BY <2>1, <3>1, <3>2, <3>3, <3>4
  <2>5. CASE r = q
    BY <1>3, <2>1, <2>4, <2>5
  <2>6. CASE r # q
    BY <1>2, <2>1, <2>6 DEF RunMoved, OtherRunsKept
  <2> QED
    BY <2>5, <2>6
<1> QED
  BY <1>2, <1>4, <1>5, RunCases

LEMMA StoreInitially == Init => StoreInv
<1> SUFFICES ASSUME Init PROVE StoreInv
  OBVIOUS
<1>1. /\ \A d \in Documents : ~Stored(d)
      /\ \A i \in Imports : importing[i] = Null
      /\ Created = {}
      /\ \A r \in Runs : run[r] = Null
  BY DEF Init, Stored, Created
<1>2. TypeOK
  BY DEF Init, TypeOK
<1> QED
  BY <1>1, <1>2 DEF StoreInv, ImportsApart, OneDocumentPerText, ChunksBuilt, NotesKept,
     MemoriesFromChunks, RowsStored

LEMMA StoreStep == StoreInv /\ [Next]_vars => StoreInv'
BY TypeStep, ImportsStep, ChunksStep, MemoriesStep, RowsStep DEF StoreInv

\* The sources that are stored, their chunks and what was drafted from them fit together.
THEOREM SourcesFitTogether == Spec => []StoreInv
BY StoreInitially, StoreStep, PTL DEF Spec

\* The types of documents, imports, memories, runs and audit rows.
THEOREM IngestionTypes == Spec => []TypeOK
<1>1. StoreInv => TypeOK
  BY DEF StoreInv
<1> QED
  BY <1>1, SourcesFitTogether, PTL

\* However imports overlap, and whatever was forgotten, no text is stored twice (create_source).
THEOREM NoTextIsStoredTwice == Spec => []OneDocumentPerText
<1>1. StoreInv => OneDocumentPerText
  BY DEF StoreInv
<1> QED
  BY <1>1, SourcesFitTogether, PTL

LEMMA StoredCovered == StoreInv => ChunksCoverText
<1> SUFFICES ASSUME StoreInv PROVE ChunksCoverText
  OBVIOUS
<1>1. ASSUME NEW text \in TextsUpTo(MaxLines) PROVE Covers(BuildChunks(text), text)
  <2>1. PICK k \in 1 .. MaxLines : text \in [1 .. k -> 0 .. MaxChars + 1]
    BY DEF TextsUpTo
  <2>2. text \in [1 .. k -> Nat] /\ k \in Nat /\ k # 0
    BY <2>1, ChunkingAssumption, IngestionAssumption
  <2>3. text \in Seq(Nat) /\ text # <<>>
    BY <2>2
  <2> QED
    BY <2>3, EveryTextIsCovered
<1>2. ASSUME NEW d \in Documents, Stored(d), document[d].checksum # Null
      PROVE  document[d].chunks # <<>> /\ Covers(document[d].chunks, document[d].checksum)
  <2>1. document[d].chunks = BuildChunks(document[d].checksum)
    BY <1>2 DEF StoreInv, ChunksBuilt
  <2>2. document[d] \in DocumentRow
    BY <1>2 DEF StoreInv, TypeOK, Stored
  <2>3. document[d].checksum \in Seq(Nat) \ {<<>>}
    BY <1>2, <2>2, TextAssumption DEF DocumentRow
  <2> QED
    BY <2>1, <2>3, EveryTextIsCovered
<1> QED
  BY <1>1, <1>2 DEF ChunksCoverText, EveryTextCovered

\* A stored source has chunks and they cover its text, whatever the texts are (build_chunks).
THEOREM StoredTextsAreCovered == Spec => []ChunksCoverText
BY SourcesFitTogether, StoredCovered, PTL

-------------------------------------------------------------------------------
(* What a run has created. *)

LEMMA CreatedKept ==
    ASSUME StoreInv, [Next]_vars, NEW r \in Runs
    PROVE  /\ ~CreateCandidate(r) => CreatedBy(r)' = CreatedBy(r)
           /\ CreateCandidate(r) => /\ CreatedBy(r)' = CreatedBy(r) \cup {FreeMemory}
                                    /\ FreeMemory \notin CreatedBy(r)
<1>1. \A m \in Created : m \in Created' /\ memory'[m] = memory[m]
  BY StoreKept DEF MemoriesKept
<1>2. ASSUME NEW statement \in Notes, RememberNote(statement) PROVE CreatedBy(r)' = CreatedBy(r)
  <2>1. /\ Created' = Created \cup {FreeMemory} /\ memory'[FreeMemory].run = Null
    BY <1>2, Noted
  <2>2. Null # r
    BY NullAssumption
  <2> QED
    BY <1>1, <2>1, <2>2 DEF CreatedBy
<1>3. ASSUME NEW q \in Runs, CreateCandidate(q)
      PROVE  /\ q # r => CreatedBy(r)' = CreatedBy(r)
             /\ q = r => /\ CreatedBy(r)' = CreatedBy(r) \cup {FreeMemory}
                         /\ FreeMemory \notin CreatedBy(r)
  <2>1. /\ Created' = Created \cup {FreeMemory} /\ memory'[FreeMemory].run = q
        /\ FreeMemory \notin Created
    BY <1>3, Candidate
  <2> QED
    BY <1>1, <2>1 DEF CreatedBy
<1>4. memory' = memory => CreatedBy(r)' = CreatedBy(r)
  BY DEF CreatedBy, Created
<1>5. \/ memory' = memory
      \/ \E statement \in Notes : RememberNote(statement)
      \/ \E q \in Runs : CreateCandidate(q)
  BY StoreCases DEF InsertDocument, CommitSource, AbortSource, ForgetDocument, StoreUnchanged
<1> HIDE DEF CreatedBy
<1> QED
  BY <1>2, <1>3, <1>4, <1>5

\* Drafts that fit with what a run has created, and come from its chunks.
Fits(r, drafts) == DraftsApart(r, drafts) /\ DraftsGrounded(r, drafts)

LEMMA SaidStays ==
    ASSUME StoreInv, [Next]_vars, NEW r \in Runs, run[r] # Null, NEW c \in RowsOf(r), NEW says,
           SaysChunk(c, says)
    PROVE  SaysChunk(c, says)'
<1>1. c \in StoredChunks
  BY DEF StoreInv, RowsStored, RowsOf
<1>2. SaidBy(c)' = SaidBy(c)
  BY <1>1, SaidKept
<1> QED
  BY <1>2 DEF SaysChunk

LEMMA FitsKept ==
    ASSUME StoreInv, [Next]_vars, NEW r \in Runs, NEW drafts, run[r] # Null,
           run'[r].rows = run[r].rows, run'[r].method = run[r].method,
           CreatedBy(r)' = CreatedBy(r), Fits(r, drafts)
    PROVE  Fits(r, drafts)'
<1>1. \A m \in CreatedBy(r) : memory'[m] = memory[m]
  BY StoreKept DEF MemoriesKept, CreatedBy
<1>2. RowsOf(r)' = RowsOf(r)
  BY DEF RowsOf
<1>3. DraftsApart(r, drafts)'
  <2>1. PICK text : TextsApart(text, r, drafts)
    BY DEF Fits, DraftsApart
  <2>2. TextsApart(text, r, drafts)'
    BY <1>1, <2>1 DEF TextsApart, TextsFor
  <2> QED
    BY <2>2 DEF Fits, DraftsApart
<1>4. ASSUME NEW k \in DOMAIN drafts
      PROVE  /\ drafts[k].chunk \in RowsOf(r)'
             /\ CutFrom(r, drafts[k])'
             /\ run'[r].method = "rule_based" => SaysChunk(drafts[k].chunk, drafts[k].says)'
  <2>1. drafts[k].chunk \in RowsOf(r)
    BY DEF Fits, DraftsGrounded
  <2>2. run[r].method = "rule_based" => SaysChunk(drafts[k].chunk, drafts[k].says)
    BY DEF Fits, DraftsGrounded
  <2>3. CutFrom(r, drafts[k])'
    BY DEF Fits, DraftsGrounded, CutFrom, TextsFor
  <2> QED
    BY <1>2, <2>1, <2>2, <2>3, SaidStays
<1>5. ASSUME NEW m \in CreatedBy(r)
      PROVE  /\ memory'[m].chunk \in RowsOf(r)'
             /\ run'[r].method = "rule_based" => SaysChunk(memory[m].chunk, memory[m].says)'
  <2>1. memory[m].chunk \in RowsOf(r)
    BY DEF Fits, DraftsGrounded
  <2>2. run[r].method = "rule_based" => SaysChunk(memory[m].chunk, memory[m].says)
    BY DEF Fits, DraftsGrounded
  <2> QED
    BY <1>1, <1>2, <2>1, <2>2, SaidStays
<1>6. DraftsGrounded(r, drafts)'
  BY <1>1, <1>4, <1>5 DEF DraftsGrounded
<1> QED
  BY <1>3, <1>6 DEF Fits

LEMMA FitsNone ==
    ASSUME NEW r \in Runs, NEW drafts \in Seq(DraftRow), Fits(r, drafts)
    PROVE  Fits(r, <<>>)
<1>1. Len(<<>>) = 0 /\ DOMAIN <<>> = {} /\ Len(drafts) \in Nat
  OBVIOUS
<1>2. IsFiniteSet(CreatedBy(r)) /\ Cardinality(CreatedBy(r)) \in Nat
  BY FS_CardinalityType DEF Fits, DraftsApart
<1>3. Cardinality(CreatedBy(r)) + Len(<<>>) <= MaxCandidates
  BY <1>1, <1>2, IngestionAssumption DEF Fits, DraftsApart
<1>4. PICK text : TextsApart(text, r, drafts)
  BY DEF Fits, DraftsApart
<1>5. TextsApart(text, r, <<>>)
  BY <1>1, <1>4 DEF TextsApart
<1> QED
  BY <1>1, <1>2, <1>3, <1>5 DEF Fits, DraftsApart, DraftsGrounded

\* No candidates stand for no texts.
LEMMA NoTexts ==
    ASSUME NEW T
    PROVE  \E text : text \in Injection({}, T)
<1> DEFINE text == [m \in {} |-> m]
<1>1. text \in Injection({}, T)
  BY DEF Injection, IsInjective
<1> QED
  BY <1>1

LEMMA FitsDrafted ==
    ASSUME NEW r \in Runs, NEW drafts, CreatedBy(r) = {}, DraftedFrom(r, drafts)
    PROVE  Fits(r, drafts)
<1>1. IsFiniteSet(CreatedBy(r)) /\ Cardinality(CreatedBy(r)) = 0
  BY FS_EmptySet
<1>2. Cardinality(CreatedBy(r)) + Len(drafts) <= MaxCandidates
  BY <1>1 DEF DraftedFrom
<1>3. PICK text : text \in Injection({}, TextsFor(run[r].method))
  BY NoTexts
<1>4. TextsApart(text, r, drafts)
  BY <1>3 DEF TextsApart
<1> QED
  BY <1>1, <1>2, <1>4 DEF Fits, DraftsApart, DraftsGrounded, DraftedFrom

\* The candidate that is created is the first of the drafts, and fits with the others.
LEMMA FitsCreated ==
    ASSUME StoreInv, [Next]_vars, NEW r \in Runs, CreateCandidate(r), Fits(r, run[r].drafts),
           NEW drafts, NEW rest, NEW new,
           drafts = run[r].drafts, rest = Tail(drafts), new = FreeMemory
    PROVE  Fits(r, rest)'
<1>1. /\ CreatedBy(r)' = CreatedBy(r) \cup {new} /\ new \notin CreatedBy(r)
      /\ drafts \in Seq(DraftRow) /\ drafts # <<>>
      /\ memory'[new].chunk = drafts[1].chunk /\ memory'[new].says = drafts[1].says
  BY CreatedKept, Candidate
<1>2. \A m \in CreatedBy(r) : memory'[m] = memory[m]
  BY StoreKept DEF MemoriesKept, CreatedBy
<1>3. /\ run[r] # Null /\ run'[r].drafts = rest
      /\ run'[r].rows = run[r].rows /\ run'[r].method = run[r].method
  BY RunMoves DEF RunMoved
<1>4. /\ DOMAIN drafts = 1 .. Len(drafts) /\ Len(drafts) \in Nat \ {0} /\ 1 \in DOMAIN drafts
      /\ DOMAIN rest = 1 .. Len(rest) /\ Len(rest) = Len(drafts) - 1
      /\ \A k \in DOMAIN rest : k + 1 \in DOMAIN drafts /\ k + 1 # 1 /\ rest[k] = drafts[k + 1]
  BY <1>1
<1>5. IsFiniteSet(CreatedBy(r)) /\ Cardinality(CreatedBy(r)) \in Nat
  BY FS_CardinalityType DEF Fits, DraftsApart
<1>6. DraftsApart(r, drafts) /\ DraftsGrounded(r, drafts)
  BY DEF Fits
<1>7. RowsOf(r)' = RowsOf(r)
  BY <1>3 DEF RowsOf
<1>8. /\ IsFiniteSet(CreatedBy(r) \cup {new})
      /\ Cardinality(CreatedBy(r) \cup {new}) + Len(rest) <= MaxCandidates
  <2>1. Cardinality(CreatedBy(r) \cup {new}) = Cardinality(CreatedBy(r)) + 1
    BY <1>1, <1>5, FS_AddElement
  <2>2. IsFiniteSet(CreatedBy(r) \cup {new})
    BY <1>5, FS_AddElement
  <2>3. Cardinality(CreatedBy(r)) + Len(drafts) <= MaxCandidates
    BY <1>6 DEF DraftsApart
  <2> QED
    BY <1>4, <1>5, <2>1, <2>2, <2>3, IngestionAssumption
<1>9. \A j, k \in DOMAIN drafts : drafts[j].text = drafts[k].text => j = k
  BY <1>6 DEF DraftsApart
<1>10. \A j, k \in DOMAIN rest : rest[j].text = rest[k].text => j = k
  <2> SUFFICES ASSUME NEW j \in DOMAIN rest, NEW k \in DOMAIN rest, rest[j].text = rest[k].text
               PROVE  j = k
    OBVIOUS
  <2>1. j + 1 = k + 1
    BY <1>4, <1>9
  <2> QED
    BY <1>4, <2>1
<1>11. PICK text : TextsApart(text, r, drafts)
  BY <1>6 DEF DraftsApart
<1>12. \E after : TextsApart(after, r, rest)'
  <2> DEFINE created == CreatedBy(r) \cup {new}
             texts == TextsFor(run[r].method)
             first == drafts[1].text
  <2>1. first \in texts /\ drafts[1].says = Cut[first]
    BY <1>4, <1>6 DEF DraftsGrounded, CutFrom
  <2>2. /\ text \in [CreatedBy(r) -> texts]
        /\ \A m, n \in CreatedBy(r) : text[m] = text[n] => m = n
        /\ \A m \in CreatedBy(r) : text[m] # first /\ memory[m].says = Cut[text[m]]
        /\ \A m \in CreatedBy(r), k \in DOMAIN drafts : text[m] # drafts[k].text
    BY <1>4, <1>11 DEF TextsApart, Injection, IsInjective
  <2>3. TextsFor(run[r].method)' = texts
    BY <1>3 DEF TextsFor
  <2> HIDE DEF texts, first
  <2>4. PICK after : after = [m \in created |-> IF m = new THEN first ELSE text[m]]
    OBVIOUS
  <2>5. after \in Injection(created, texts)
    BY <1>1, <2>1, <2>2, <2>4 DEF Injection, IsInjective
  <2>6. \A m \in created : memory'[m].says = Cut[after[m]]
    BY <1>1, <1>2, <2>1, <2>2, <2>4
  <2>7. ASSUME NEW m \in created, NEW k \in DOMAIN rest
        PROVE  after[m] # rest[k].text
    <3>1. k + 1 \in DOMAIN drafts /\ k + 1 # 1 /\ rest[k] = drafts[k + 1]
      BY <1>4
    <3>2. drafts[1].text # drafts[k + 1].text
      BY <1>4, <1>9, <3>1
    <3> QED
      BY <2>2, <2>4, <3>1, <3>2 DEF first
  <2>8. TextsApart(after, r, rest)'
    BY <1>1, <2>3, <2>5, <2>6, <2>7 DEF TextsApart
  <2> QED
    BY <2>8
<1>13. ASSUME NEW c, NEW says, c \in RowsOf(r), run[r].method = "rule_based" => SaysChunk(c, says)
       PROVE  c \in RowsOf(r)' /\ (run'[r].method = "rule_based" => SaysChunk(c, says)')
  BY <1>3, <1>7, <1>13, SaidStays
<1>14. ASSUME NEW k \in DOMAIN drafts
       PROVE  /\ drafts[k].chunk \in RowsOf(r)'
              /\ CutFrom(r, drafts[k])'
              /\ run'[r].method = "rule_based" => SaysChunk(drafts[k].chunk, drafts[k].says)'
  <2>1. /\ drafts[k].chunk \in RowsOf(r)
        /\ run[r].method = "rule_based" => SaysChunk(drafts[k].chunk, drafts[k].says)
    BY <1>6 DEF DraftsGrounded
  <2>2. CutFrom(r, drafts[k])'
    BY <1>3, <1>6 DEF DraftsGrounded, CutFrom, TextsFor
  <2> QED
    BY <1>13, <2>1, <2>2
<1>15. ASSUME NEW m, m \in CreatedBy(r)'
       PROVE  /\ memory'[m].chunk \in RowsOf(r)'
              /\ run'[r].method = "rule_based" => SaysChunk(memory[m].chunk, memory[m].says)'
  <2>1. CASE m \in CreatedBy(r)
    <3>1. /\ memory[m].chunk \in RowsOf(r)
          /\ run[r].method = "rule_based" => SaysChunk(memory[m].chunk, memory[m].says)
      BY <1>6, <2>1 DEF DraftsGrounded
    <3>2. PICK c, says : c = memory[m].chunk /\ says = memory[m].says
      OBVIOUS
    <3>3. memory'[m].chunk = c /\ memory'[m].says = says
      BY <1>2, <2>1, <3>2
    <3>4. c \in RowsOf(r)' /\ (run'[r].method = "rule_based" => SaysChunk(c, says)')
      BY <1>13, <3>1, <3>2
    <3> QED
      BY <3>3, <3>4
  <2>2. CASE m = new
    <3>1. memory'[m].chunk = drafts[1].chunk /\ memory'[m].says = drafts[1].says
      BY <1>1, <2>2
    <3> QED
      BY <1>4, <1>14, <3>1
  <2> QED
    BY <1>1, <1>15, <2>1, <2>2
<1>16. DraftsApart(r, rest)'
  BY <1>1, <1>8, <1>10, <1>12 DEF DraftsApart
<1>17. \A k \in DOMAIN rest :
          /\ rest[k].chunk \in RowsOf(r)'
          /\ CutFrom(r, rest[k])'
          /\ run'[r].method = "rule_based" => SaysChunk(rest[k].chunk, rest[k].says)'
  BY <1>4, <1>14
<1>18. DraftsGrounded(r, rest)'
  BY <1>15, <1>17 DEF DraftsGrounded
<1> QED
  BY <1>16, <1>18 DEF Fits

LEMMA LogGrows == [Next]_vars => auditLog \subseteq auditLog'
BY DEF Next, vars, InsertDocument, CommitSource, AbortSource, ForgetDocument, RememberNote, FetchChunks,
   RunStep, RefuseOptions, LogStart, DraftCandidates, CreateCandidate, LogComplete, RefuseReply,
   RefuseCandidate, StopRun

\* What a run that moves on has to show.
LEMMA MovedKept ==
    ASSUME NEW r \in Runs, NEW at, NEW drafts, NEW created, RunMoved(r, at, drafts, created),
           created = CreatedBy(r)', Fits(r, drafts)',
           at \in {"draft", "create", "complete"} => StartRow(r) \in auditLog',
           created # {} => StartRow(r) \in auditLog',
           at \in {"start", "draft"} => created = {} /\ drafts = <<>>
    PROVE  RunKept(r)'
<1>1. RowsOf(r)' = RowsOf(r)
  BY DEF RunMoved, RowsOf
<1>2. StartRow(r)' = StartRow(r)
  BY <1>1 DEF StartRow
<1>3. /\ run'[r] # Null /\ run'[r].at = at /\ run'[r].drafts = drafts /\ run'[r].created = created
  BY DEF RunMoved
<1>4. DraftsApart(r, drafts)' /\ DraftsGrounded(r, drafts)'
  BY DEF Fits
<1>5. DraftsApart(r, run[r].drafts)' /\ DraftsGrounded(r, run[r].drafts)'
  BY <1>3, <1>4 DEF DraftsApart, DraftsGrounded
<1> QED
  BY <1>2, <1>3, <1>5 DEF RunKept

LEMMA KeptFits ==
    ASSUME StoreInv, NEW r \in Runs, RunKept(r), run[r] # Null
    PROVE  /\ Fits(r, run[r].drafts) /\ run[r].drafts \in Seq(DraftRow) /\ Fits(r, <<>>)
           /\ run[r].created = CreatedBy(r)
           /\ run[r].at \in {"draft", "create", "complete"} => StartRow(r) \in auditLog
           /\ CreatedBy(r) # {} => StartRow(r) \in auditLog
           /\ run[r].at \in {"start", "draft"} => CreatedBy(r) = {} /\ run[r].drafts = <<>>
<1>1. Fits(r, run[r].drafts)
  BY DEF RunKept, Fits
<1>2. run[r].drafts \in Seq(DraftRow)
  BY RunTyped DEF RunRow
<1> QED
  BY <1>1, <1>2, FitsNone DEF RunKept

LEMMA StaysKept ==
    ASSUME StoreInv, [Next]_vars, NEW r \in Runs, RunKept(r), run'[r] = run[r],
           CreatedBy(r)' = CreatedBy(r)
    PROVE  RunKept(r)'
<1>1. auditLog \subseteq auditLog'
  BY LogGrows
<1>2. CASE run[r] = Null
  BY <1>2 DEF RunKept
<1>3. CASE run[r] # Null
  <2>1. PICK drafts : drafts = run[r].drafts
    OBVIOUS
  <2>2. Fits(r, drafts)'
    BY <1>3, <2>1, KeptFits, FitsKept
  <2>3. DraftsApart(r, run[r].drafts)' /\ DraftsGrounded(r, run[r].drafts)'
    BY <2>1, <2>2 DEF Fits, DraftsApart, DraftsGrounded
  <2>4. StartRow(r)' = StartRow(r)
    BY DEF StartRow, RowsOf
  <2> QED
    BY <1>1, <1>3, <2>3, <2>4 DEF RunKept
<1> QED
  BY <1>2, <1>3

LEMMA BeginsKept ==
    ASSUME StoreInv, [Next]_vars, NEW r \in Runs, NEW ids \in Requests,
           NEW method \in {"rule_based", "llm"}, FetchChunks(r, ids, method), RunKept(r)
    PROVE  RunKept(r)'
<1>1. /\ run[r] = Null /\ run'[r] # Null
      /\ run'[r].at = "start" /\ run'[r].drafts = <<>> /\ run'[r].created = {}
  BY RunBegins
<1>2. CreatedBy(r)' = {}
  <2>1. ~CreateCandidate(r)
    BY <1>1 DEF CreateCandidate
  <2> QED
    BY <1>1, <2>1, CreatedKept DEF RunKept
<1>3. /\ IsFiniteSet(CreatedBy(r)') /\ Cardinality(CreatedBy(r)') = 0
      /\ DOMAIN <<>> = {} /\ Len(<<>>) = 0
  BY <1>2, FS_EmptySet
<1>4. DraftsApart(r, run[r].drafts)'
  <2>1. PICK text : text \in Injection({}, TextsFor(run'[r].method))
    BY NoTexts
  <2>2. TextsApart(text, r, run[r].drafts)'
    BY <1>1, <1>2, <2>1 DEF TextsApart, TextsFor
  <2> QED
    BY <1>1, <1>2, <1>3, <2>2, IngestionAssumption DEF DraftsApart
<1>5. DraftsGrounded(r, run[r].drafts)'
  BY <1>1, <1>2, <1>3 DEF DraftsGrounded
<1> QED
  BY <1>1, <1>2, <1>4, <1>5 DEF RunKept

LEMMA MovesKept ==
    ASSUME StoreInv, [Next]_vars, NEW r \in Runs, RunKept(r),
           RunFails(r) \/ LogStart(r) \/ DraftCandidates(r) \/ CreateCandidate(r) \/ LogComplete(r)
    PROVE  RunKept(r)'
<1>1. PICK drafts, created : drafts = run[r].drafts /\ created = run[r].created
  OBVIOUS
<1>2. auditLog \subseteq auditLog'
  BY LogGrows
<1>3. run[r] # Null
  BY DEF RunFails, RefuseOptions, RefuseReply, RefuseCandidate, StopRun, LogStart, DraftCandidates,
     CreateCandidate, LogComplete
<1>4. /\ Fits(r, drafts) /\ Fits(r, <<>>) /\ created = CreatedBy(r)
      /\ run[r].at \in {"draft", "create", "complete"} => StartRow(r) \in auditLog
      /\ CreatedBy(r) # {} => StartRow(r) \in auditLog
      /\ run[r].at \in {"start", "draft"} => CreatedBy(r) = {} /\ drafts = <<>>
  BY <1>1, <1>3, KeptFits
<1>5. memory' = memory => CreatedBy(r)' = created
  BY <1>4 DEF CreatedBy, Created
<1>6. ASSUME RunFails(r) PROVE RunKept(r)'
  <2>1. RunMoved(r, "ended", <<>>, created)
    BY <1>1, <1>6, RunMoves
  <2>2. CreatedBy(r)' = created
    BY <1>5, <1>6 DEF RunFails, RefuseOptions, RefuseReply, RefuseCandidate, StopRun
  <2>3. Fits(r, <<>>)'
    BY <1>3, <1>4, <2>1, <2>2, FitsKept DEF RunMoved
  <2> QED
    BY <1>2, <1>4, <2>1, <2>2, <2>3, MovedKept
<1>7. ASSUME LogStart(r) PROVE RunKept(r)'
  <2>1. RunMoved(r, "draft", drafts, created)
    BY <1>1, <1>7, RunMoves
  <2>2. CreatedBy(r)' = created /\ run[r].at = "start"
    BY <1>5, <1>7 DEF LogStart
  <2>3. Fits(r, drafts)'
    BY <1>3, <1>4, <2>1, <2>2, FitsKept DEF RunMoved
  <2>4. StartRow(r) \in auditLog'
    BY <1>7 DEF LogStart, StartRow, RowsOf
  <2> QED
    BY <1>4, <2>1, <2>2, <2>3, <2>4, MovedKept
<1>8. ASSUME DraftCandidates(r) PROVE RunKept(r)'
  <2>1. PICK chosen : DraftedFrom(r, chosen) /\ RunMoved(r, Following(chosen), chosen, created)
    BY <1>1, <1>8, RunMoves
  <2>2. CreatedBy(r)' = created /\ run[r].at = "draft"
    BY <1>5, <1>8 DEF DraftCandidates
  <2>3. Fits(r, chosen)'
    BY <1>3, <1>4, <2>1, <2>2, FitsDrafted, FitsKept DEF RunMoved
  <2>4. StartRow(r) \in auditLog' /\ Following(chosen) \notin {"start", "draft"}
    BY <1>2, <1>4, <2>2 DEF Following
  <2> QED
    BY <2>1, <2>2, <2>3, <2>4, MovedKept
<1>9. ASSUME CreateCandidate(r) PROVE RunKept(r)'
  <2>1. PICK rest, new : rest = Tail(drafts) /\ new = FreeMemory
    OBVIOUS
  <2>2. RunMoved(r, Following(rest), rest, created \cup {new})
    BY <1>1, <1>9, <2>1, RunMoves
  <2>3. CreatedBy(r)' = created \cup {new} /\ run[r].at = "create"
    BY <1>4, <1>9, <2>1, CreatedKept DEF CreateCandidate
  <2>4. Fits(r, rest)'
    BY <1>1, <1>4, <1>9, <2>1, FitsCreated
  <2>5. StartRow(r) \in auditLog' /\ Following(rest) \notin {"start", "draft"}
    BY <1>2, <1>4, <2>3 DEF Following
  <2> QED
    BY <2>2, <2>3, <2>4, <2>5, MovedKept
<1>10. ASSUME LogComplete(r) PROVE RunKept(r)'
  <2>1. RunMoved(r, "ended", drafts, created)
    BY <1>1, <1>10, RunMoves
  <2>2. CreatedBy(r)' = created
    BY <1>5, <1>10 DEF LogComplete
  <2>3. Fits(r, drafts)'
    BY <1>3, <1>4, <2>1, <2>2, FitsKept DEF RunMoved
  <2> QED
    BY <1>2, <1>4, <2>1, <2>2, <2>3, MovedKept
<1> QED
  BY <1>6, <1>7, <1>8, <1>9, <1>10

\* A run that has ended creates nothing more.
LEMMA EndedStays ==
    ASSUME StoreInv, [Next]_vars, NEW r \in Runs, run[r] # Null, run[r].at = "ended"
    PROVE  run'[r] = run[r] /\ CreatedBy(r)' = CreatedBy(r)
<1>1. ~RunFails(r) /\ ~LogStart(r) /\ ~DraftCandidates(r) /\ ~CreateCandidate(r) /\ ~LogComplete(r)
  BY DEF RunFails, RefuseOptions, RefuseReply, RefuseCandidate, StopRun, LogStart, DraftCandidates,
     CreateCandidate, LogComplete
<1>2. ASSUME NEW q \in Runs,
             RunFails(q) \/ LogStart(q) \/ DraftCandidates(q) \/ CreateCandidate(q) \/ LogComplete(q)
      PROVE  run'[r] = run[r]
  <2>1. q # r
    BY <1>1, <1>2
  <2>2. OtherRunsKept(q)
    BY <1>2, RunMoves DEF RunMoved
  <2> QED
    BY <2>1, <2>2 DEF OtherRunsKept
<1>3. ASSUME NEW q \in Runs, NEW ids \in Requests, NEW method \in {"rule_based", "llm"},
             FetchChunks(q, ids, method)
      PROVE  run'[r] = run[r]
  BY <1>3, RunBegins DEF OtherRunsKept
<1>4. run'[r] = run[r]
  BY <1>2, <1>3, RunCases
<1> QED
  BY <1>1, <1>4, CreatedKept

LEMMA RunsKept == StoreInv /\ RunsInv /\ [Next]_vars => \A r \in Runs : RunKept(r)'
<1> SUFFICES ASSUME StoreInv, RunsInv, [Next]_vars, NEW r \in Runs PROVE RunKept(r)'
  OBVIOUS
<1>1. RunKept(r)
  BY DEF RunsInv
<1>2. ASSUME NEW q \in Runs, q # r,
             RunFails(q) \/ LogStart(q) \/ DraftCandidates(q) \/ CreateCandidate(q) \/ LogComplete(q)
      PROVE  run'[r] = run[r]
  BY <1>2, RunMoves DEF RunMoved, OtherRunsKept
<1>3. ASSUME NEW q \in Runs, q # r, NEW ids \in Requests, NEW method \in {"rule_based", "llm"},
             FetchChunks(q, ids, method)
      PROVE  run'[r] = run[r]
  BY <1>3, RunBegins DEF OtherRunsKept
<1>4. CASE RunFails(r) \/ LogStart(r) \/ DraftCandidates(r) \/ CreateCandidate(r) \/ LogComplete(r)
  BY <1>1, <1>4, MovesKept
<1>5. CASE \E ids \in Requests, method \in {"rule_based", "llm"} : FetchChunks(r, ids, method)
  BY <1>1, <1>5, BeginsKept
<1>6. CASE run'[r] = run[r] /\ ~CreateCandidate(r)
  BY <1>1, <1>6, CreatedKept, StaysKept
<1> QED
  BY <1>2, <1>3, <1>4, <1>5, <1>6, RunCases

LEMMA CompleteRow ==
    ASSUME StoreInv, NEW row \in auditLog, row.action = "run.complete"
    PROVE  row.run \in Runs
BY DEF StoreInv, TypeOK, AuditRow

\* Rows of completed runs are added at their end.
LEMMA CompleteAdded ==
    ASSUME [Next]_vars, NEW row, row \in auditLog', row \notin auditLog, row.action = "run.complete"
    PROVE  \E r \in Runs : LogComplete(r) /\ row.run = r /\ row.created = run[r].created
<1>1. CASE \E statement \in Notes : RememberNote(statement)
  BY <1>1 DEF RememberNote
<1>2. CASE \E r \in Runs : LogStart(r)
  BY <1>2 DEF LogStart
<1>3. CASE \E r \in Runs : LogComplete(r)
  <2>1. PICK r \in Runs : LogComplete(r)
    BY <1>3
  <2>2. row = [action |-> "run.complete", run |-> r, created |-> run[r].created]
    BY <2>1 DEF LogComplete, RunCandidates
  <2>3. row.run = r /\ row.created = run[r].created
    BY <2>2
  <2> QED
    BY <2>1, <2>3
<1>4. CASE auditLog' = auditLog
  BY <1>4
<1> QED
  BY <1>1, <1>2, <1>3, <1>4
     DEF Next, vars, InsertDocument, CommitSource, AbortSource, ForgetDocument, FetchChunks, RunStep,
         RefuseOptions, DraftCandidates, CreateCandidate, RefuseReply, RefuseCandidate, StopRun

LEMMA CompletedStep == StoreInv /\ RunsInv /\ [Next]_vars => Completed'
<1> SUFFICES ASSUME StoreInv, RunsInv, [Next]_vars,
                    NEW row, row \in auditLog', row.action = "run.complete"
             PROVE  /\ run'[row.run] # Null /\ run'[row.run].at = "ended"
                    /\ row.created = CreatedBy(row.run)'
  BY DEF Completed
<1>1. CASE row \in auditLog
  <2>1. PICK r \in Runs : r = row.run
    BY <1>1, CompleteRow
  <2>2. run[r] # Null /\ run[r].at = "ended" /\ row.created = CreatedBy(r)
    BY <1>1, <2>1 DEF RunsInv, Completed
  <2>3. run'[r] = run[r] /\ CreatedBy(r)' = CreatedBy(r)
    BY <2>2, EndedStays
  <2> QED
    BY <2>1, <2>2, <2>3
<1>2. CASE row \notin auditLog
  <2>1. PICK r \in Runs : LogComplete(r) /\ row.run = r /\ row.created = run[r].created
    BY <1>2, CompleteAdded
  <2>2. run'[r] # Null /\ run'[r].at = "ended"
    BY <2>1, RunMoves DEF RunMoved
  <2>3. row.created = CreatedBy(r)
    BY <2>1 DEF LogComplete, RunsInv, RunKept
  <2>4. CreatedBy(r)' = CreatedBy(r)
    BY <2>1 DEF LogComplete, CreatedBy, Created
  <2> QED
    BY <2>1, <2>2, <2>3, <2>4
<1> QED
  BY <1>1, <1>2

LEMMA RunsInitially == Init => RunsInv
<1> SUFFICES ASSUME Init PROVE RunsInv
  OBVIOUS
<1>1. auditLog = {} /\ \A r \in Runs : run[r] = Null /\ CreatedBy(r) = {}
  BY DEF Init, CreatedBy, Created
<1> QED
  BY <1>1 DEF RunsInv, Completed, RunKept

LEMMA RunsStep == StoreInv /\ RunsInv /\ [Next]_vars => RunsInv'
BY RunsKept, CompletedStep DEF RunsInv

\* What runs draft, create and log fits together, however they overlap and wherever they fail.
THEOREM RunsFitTogether == Spec => []RunsInv
BY SourcesFitTogether, RunsInitially, RunsStep, PTL DEF Spec

LEMMA RunsAccounted == StoreInv /\ RunsInv => CandidatesAccounted
<1> SUFFICES ASSUME StoreInv, RunsInv PROVE CandidatesAccounted
  OBVIOUS
<1>1. ASSUME NEW m \in Created, memory[m].status = "candidate"
      PROVE  \E row \in auditLog : /\ row.action = "run.start" /\ row.run = memory[m].run
                                   /\ memory[m].chunk \in row.requested
  <2>1. PICK r : r = memory[m].run
    OBVIOUS
  <2>2. memory[m] \in MemoryRow
    BY DEF StoreInv, TypeOK, Created
  <2>3. r \in Runs
    BY <1>1, <2>1, <2>2 DEF MemoryRow, StoreInv, MemoriesFromChunks
  <2>4. m \in CreatedBy(r)
    BY <2>1 DEF CreatedBy
  <2>5. RunKept(r) /\ run[r] # Null
    BY <2>3, <2>4 DEF RunsInv, RunKept
  <2>6. StartRow(r) \in auditLog /\ memory[m].chunk \in RowsOf(r)
    BY <2>4, <2>5 DEF RunKept, DraftsGrounded
  <2>7. StartRow(r).action = "run.start" /\ StartRow(r).run = r /\ StartRow(r).requested = RowsOf(r)
    BY DEF StartRow
  <2> QED
    BY <2>1, <2>6, <2>7
<1>2. \A row \in auditLog : row.action = "run.complete" =>
          row.created = {m \in Created : memory[m].run = row.run}
  BY DEF RunsInv, Completed, CreatedBy
<1> QED
  BY <1>1, <1>2 DEF CandidatesAccounted

\* A candidate is accounted for by the start of its run, and a run that is logged as complete by
\* what it has created (extract_from_chunks).
THEOREM CandidatesAreAccounted == Spec => []CandidatesAccounted
BY SourcesFitTogether, RunsFitTogether, RunsAccounted, PTL

LEMMA RunsDistinct == StoreInv /\ RunsInv => CandidatesDistinct
<1> SUFFICES ASSUME StoreInv, RunsInv, NEW r \in Runs, run[r] # Null
             PROVE  /\ Cardinality(run[r].created) <= MaxCandidates
                    /\ \E text \in Injection(run[r].created, TextsFor(run[r].method)) :
                          \A m \in run[r].created : memory[m].says = Cut[text[m]]
                    /\ run[r].method = "rule_based" =>
                          \A m \in run[r].created :
                             \E j \in DOMAIN SaidBy(memory[m].chunk) :
                                SaidBy(memory[m].chunk)[j] = memory[m].says
  BY DEF CandidatesDistinct
<1>1. /\ run[r].created = CreatedBy(r)
      /\ DraftsApart(r, run[r].drafts) /\ DraftsGrounded(r, run[r].drafts)
  BY DEF RunsInv, RunKept
<1>2. Cardinality(CreatedBy(r)) <= MaxCandidates
  <2>1. Cardinality(CreatedBy(r)) \in Nat
    BY <1>1, FS_CardinalityType DEF DraftsApart
  <2>2. run[r].drafts \in Seq(DraftRow)
    BY RunTyped DEF RunRow
  <2>3. Len(run[r].drafts) \in Nat
    BY <2>2
  <2> QED
    BY <1>1, <2>1, <2>3, IngestionAssumption DEF DraftsApart
<1>3. PICK text : TextsApart(text, r, run[r].drafts)
  BY <1>1 DEF DraftsApart
<1> QED
  BY <1>1, <1>2, <1>3 DEF TextsApart, DraftsGrounded, SaysChunk

\* The candidates of a run stand for different texts, each cut to what is stored, and are no more
\* than max_candidates; what a run proposes by rule is said by its chunk (parse_llm_candidates).
THEOREM CandidatesAreDistinct == Spec => []CandidatesDistinct
BY SourcesFitTogether, RunsFitTogether, RunsDistinct, PTL

===============================================================================
