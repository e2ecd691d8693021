-------------------------- MODULE EvaluationProofs ---------------------------
(***************************************************************************)
(* Proofs about Evaluation and Judging: a benchmark of any dataset, whose  *)
(* calls fail anywhere, which is killed and started again any number of    *)
(* times, and judged in between.                                           *)
(***************************************************************************)
EXTENDS Judging, FiniteSetTheorems, WellFoundedInduction, TLAPS

-------------------------------------------------------------------------------
(* Induction over the numbers, for sets of numbers instead of predicates. *)

LEMMA Least ==
  ASSUME NEW S, S \subseteq Nat, S # {}
  PROVE  \E x \in S : \A y \in S : x <= y
<1>1. PICK x \in S : \A y \in S : ~(<<y, x>> \in OpToRel(<, Nat))
  BY NatLessThanWellFounded, WFMin
<1>2. \A y \in S : ~(y < x)
  BY <1>1 DEF OpToRel
<1> QED BY <1>2

LEMMA SetInduction ==
  ASSUME NEW S, 0 \in S, \A n \in Nat : n \in S => n + 1 \in S
  PROVE  Nat \subseteq S
<1>1. SUFFICES ASSUME Nat \ S # {} PROVE FALSE
  OBVIOUS
<1>2. PICK x \in Nat \ S : \A y \in Nat \ S : x <= y
  BY <1>1, Least
<1>3. x # 0 /\ x - 1 \in Nat /\ x - 1 \in S
  BY <1>2
<1>4. (x - 1) + 1 \in S
  BY <1>3
<1> QED BY <1>2, <1>4

LEMMA MinOfPositions ==
  ASSUME NEW S, S \subseteq Nat, S # {}
  PROVE  Min(S) \in S /\ \A y \in S : Min(S) <= y
<1>1. \E x \in S : \A y \in S : x <= y
  BY Least
<1> QED BY <1>1 DEF Min

-------------------------------------------------------------------------------
(* The requests a conversation is split into. *)

Grown(before, t, fits) ==
    IF fits THEN [before EXCEPT ![Len(before)] = Append(@, t)] ELSE Append(before, <<t>>)

LEMMA GrownTyped ==
  ASSUME NEW T, NEW before \in Seq(Seq(T)), NEW t \in T, NEW fits \in BOOLEAN, fits => before # <<>>
  PROVE  Grown(before, t, fits) \in Seq(Seq(T))
<1>1. CASE fits
  <2>1. Len(before) \in DOMAIN before
    BY <1>1
  <2>2. Append(before[Len(before)], t) \in Seq(T)
    BY <2>1
  <2> QED BY <1>1, <2>1, <2>2 DEF Grown
<1>2. CASE ~fits
  <2>1. <<t>> \in Seq(T)
    OBVIOUS
  <2> QED BY <1>2, <2>1 DEF Grown
<1> QED BY <1>1, <1>2

\* Whether a turn joins the last of the requests.
Joins(before, t, says) ==
    /\ before # <<>>
    /\ Len(before[Len(before)]) < BatchSize
    /\ says[t].key # Null => \A j \in DOMAIN before[Len(before)] : says[before[Len(before)][j]].key # says[t].key

\* The requests that the first n turns make, for every n.
BatchSteps(h, turns, says, T) ==
    /\ Batches(turns, says) = h[Len(turns)]
    /\ h[0] = <<>>
    /\ \A n \in 0 .. Len(turns) : h[n] \in Seq(Seq(T))
    /\ \A n \in 1 .. Len(turns) : h[n] = Grown(h[n - 1], turns[n], Joins(h[n - 1], turns[n], says))

\* The function that Batches recurs over exists and has sequences of sequences as its values.
LEMMA BatchesRecur ==
  ASSUME NEW T, NEW turns \in Seq(T), NEW says
  PROVE  \E h : BatchSteps(h, turns, says, T)
<1> DEFINE
      Fits(before, t) == Joins(before, t, says)
      N == Len(turns)
      Body(f, n) == IF n = 0 THEN <<>> ELSE Grown(f[n - 1], turns[n], Fits(f[n - 1], turns[n]))
      Upto(k) == {f \in [0 .. k -> Seq(Seq(T))] : f = [n \in 0 .. k |-> Body(f, n)]}
      S == {k \in Nat : k <= N => Upto(k) # {}}
<1>1. \A before, t : Fits(before, t) \in BOOLEAN /\ (Fits(before, t) => before # <<>>)
  BY DEF Joins
<1> HIDE DEF Fits, Body, Upto, S
<1>2. 0 \in S
  <2>1. [n \in 0 .. 0 |-> <<>>] \in Upto(0)
    BY DEF Upto, Body
  <2> QED BY <2>1 DEF S
<1>3. \A n \in Nat : n \in S => n + 1 \in S
  <2> SUFFICES ASSUME NEW n \in Nat, n <= N => Upto(n) # {}, n + 1 <= N
               PROVE  Upto(n + 1) # {}
    BY DEF S
  <2>1. PICK f \in Upto(n) : TRUE
    BY n <= N
  <2> DEFINE new == Grown(f[n], turns[n + 1], Fits(f[n], turns[n + 1]))
             g == [i \in 0 .. n + 1 |-> IF i <= n THEN f[i] ELSE new]
  <2>2. f \in [0 .. n -> Seq(Seq(T))] /\ \A i \in 0 .. n : f[i] = Body(f, i)
    BY <2>1 DEF Upto
  <2>3. new \in Seq(Seq(T))
    <3>1. f[n] \in Seq(Seq(T)) /\ turns[n + 1] \in T
      BY <2>2
    <3> QED BY <1>1, <3>1, GrownTyped
  <2>4. g \in [0 .. n + 1 -> Seq(Seq(T))]
    BY <2>2, <2>3
  <2>5. \A i \in 0 .. n + 1 : g[i] = Body(g, i)
    <3> SUFFICES ASSUME NEW i \in 0 .. n + 1 PROVE g[i] = Body(g, i)
      OBVIOUS
    <3>1. CASE i = 0
      BY <3>1, <2>2 DEF Body
    <3>2. CASE i \in 1 .. n
      BY <3>2, <2>2 DEF Body
    <3>3. CASE i = n + 1
      BY <3>3 DEF Body
    <3> QED BY <3>1, <3>2, <3>3
  <2>6. g \in Upto(n + 1)
    BY <2>4, <2>5 DEF Upto
  <2> QED BY <2>6
<1>4. PICK f \in Upto(N) : TRUE
  <2>1. Nat \subseteq S
    BY <1>2, <1>3, SetInduction
  <2> QED BY <2>1 DEF S
<1> DEFINE h == CHOOSE g : g = [n \in 0 .. N |-> Body(g, n)]
<1>5. h = [n \in 0 .. N |-> Body(h, n)]
  BY <1>4 DEF Upto
<1> HIDE DEF h
<1> DEFINE R == {k \in Nat : k <= N => h[k] \in Seq(Seq(T))}
<1>6. 0 \in R
  BY <1>5 DEF Body
<1>7. \A n \in Nat : n \in R => n + 1 \in R
  <2> SUFFICES ASSUME NEW n \in Nat, n \in R, n + 1 <= N PROVE h[n + 1] \in Seq(Seq(T))
    OBVIOUS
  <2>1. h[n] \in Seq(Seq(T)) /\ turns[n + 1] \in T
    OBVIOUS
  <2>2. h[n + 1] = Grown(h[n], turns[n + 1], Fits(h[n], turns[n + 1]))
    BY <1>5 DEF Body
  <2> QED BY <1>1, <2>1, <2>2, GrownTyped
<1>8. \A n \in 0 .. N : h[n] \in Seq(Seq(T))
  <2> HIDE DEF R
  <2>1. Nat \subseteq R
    BY <1>6, <1>7, SetInduction
  <2> QED BY <2>1 DEF R
<1>9. Batches(turns, says) = h[N]
  BY DEF Batches, Split, h, Fits, Joins, Grown, Body
<1>10. h[0] = <<>> /\ \A n \in 1 .. N : h[n] = Grown(h[n - 1], turns[n], Fits(h[n - 1], turns[n]))
  BY <1>5 DEF Body
<1>11. BatchSteps(h, turns, says, T)
  BY <1>8, <1>9, <1>10 DEF BatchSteps, Fits
<1> QED BY <1>11

LEMMA BatchesTyped ==
  ASSUME NEW T, NEW turns \in Seq(T), NEW says
  PROVE  Batches(turns, says) \in Seq(Seq(T))
<1>1. Len(turns) \in 0 .. Len(turns)
  OBVIOUS
<1> QED BY <1>1, BatchesRecur DEF BatchSteps

-------------------------------------------------------------------------------
(* The inductive invariant. *)

Listed(m, s) == \E i \in DOMAIN s : s[i] = m

\* The turns at hand are turns of the case, and the memory of a key is one just stored.
TurnsOK ==
    work # Null =>
        /\ begun # 0
        /\ work.turn # 0
        /\ work.cases # <<>>
        /\ \A i \in DOMAIN work.pending : work.pending[i] \in DOMAIN Turns[Case]
        /\ \A i \in DOMAIN work.batches : \A j \in DOMAIN work.batches[i] :
              work.batches[i][j] \in DOMAIN Turns[Case]
        /\ work.at = "store" => \A k \in work.keys : Listed(k[2], work.stored)

\* A memory that the case at hand stored.
Mine(m) == m \in DOMAIN row /\ row[m].by = begun /\ row[m].in = Workspace

\* What a case notes is its own.
NotesOK ==
    work # Null =>
        /\ \A m \in DOMAIN row : row[m].by = begun => Mine(m)
        /\ \A m : Listed(m, work.created) \/ Listed(m, work.stored) \/ Listed(m, work.doomed) => Mine(m)
        /\ \A k \in work.keys : Mine(k[2])

\* What the case at hand has stored is noted, as long as nothing went wrong.
Noticed(m) ==
    CASE work.at = "record" -> row[m].by \in IF row[m].in = 0 THEN troubled ELSE kept
      [] work.at = "clean_up" ->
            begun \in troubled \/ Config.isolate \/ ~Config.cleanup \/ Listed(m, work.doomed)
      [] work.at = "delete" -> begun \in troubled \/ Listed(m, work.doomed)
      [] work.at = "approve" ->
            \/ begun \in troubled
            \/ Listed(m, work.created) \/ Listed(m, work.stored) \/ Listed(m, work.doomed)
      [] work.at = "store" -> begun \in troubled \/ Listed(m, work.created) \/ Listed(m, work.stored)
      [] OTHER -> begun \in troubled \/ Listed(m, work.created)

Owed ==
    \A m \in DOMAIN row : row[m].status \in Live =>
        IF work # Null /\ row[m].by = begun THEN Noticed(m)
        ELSE row[m].by \in IF row[m].in = 0 THEN troubled ELSE kept

\* A case has one answer, a group one of every case, or none.
AnswersOK ==
    work # Null =>
        /\ runner.left # {}
        /\ work.cases = IF Config.grouped THEN Dataset ELSE <<Dataset[Min(runner.left)]>>
        /\ Len(work.answers) <= Len(work.cases)
        /\ \A i \in DOMAIN work.answers : work.answers[i].case = work.cases[i]
        /\ work.at \notin {"ask", "clean_up", "record"} => work.answers = <<>>
        /\ work.at = "ask" => Len(work.answers) < Len(work.cases)
        /\ work.at \in {"clean_up", "record"} =>
              Len(work.answers) = Len(work.cases) \/ (Config.grouped /\ work.answers = <<>>)

Before(c, l) == \E k \in DOMAIN Dataset : k < l /\ c = Dataset[k]

\* The output is in the order of the dataset, and what it lacks comes after it.
OrderOK ==
    /\ \A i, j \in DOMAIN csv : i < j =>
          \E k, l \in DOMAIN Dataset : k < l /\ csv[i].case = Dataset[k] /\ csv[j].case = Dataset[l]
    /\ \A l \in DOMAIN Dataset :
          Dataset[l] \in Completed \/ \A i \in DOMAIN csv : Before(csv[i].case, l)
    /\ runner # Null /\ ~Config.grouped =>
          /\ \A l \in DOMAIN Dataset : Dataset[l] \in Completed \/ l \in runner.left
          /\ \A i \in DOMAIN csv, l \in runner.left : Before(csv[i].case, l)

EvaluationInv ==
    /\ EvaluationTypeOK
    /\ TurnsOK
    /\ NotesOK
    /\ Owed
    /\ AnswersOK
    /\ OrderOK

\* Every verdict that was given is among these rows.
HasVerdicts(rows) == \A c \in paid : \E i \in DOMAIN rows : rows[i].case = c /\ rows[i].judged

\* The rows the judge works on hold every verdict that was given, and so does its output
\* unless it is about to write it.
JudgeInv ==
    /\ TypeOK
    /\ ~torn => HasVerdicts(IF judge # Null THEN judge.rows ELSE judged)
    /\ judge # Null /\ judge.at = "judge" => judged = judge.rows
    /\ judged = Null => paid = {}

LEMMA SeqOfFunction ==
  ASSUME NEW S, NEW n \in Nat, NEW f, f = [j \in 1 .. n |-> f[j]], \A j \in 1 .. n : f[j] \in S
  PROVE  f \in Seq(S) /\ Len(f) = n
<1>1. f \in [1 .. n -> S]
  OBVIOUS
<1> QED BY <1>1

LEMMA ConcatParts ==
  ASSUME NEW S, NEW c \in Seq(S), NEW d \in Seq(S)
  PROVE  /\ c \o d \in Seq(S) /\ Len(c \o d) = Len(c) + Len(d)
         /\ DOMAIN (c \o d) = 1 .. Len(c) + Len(d)
         /\ \A i \in 1 .. Len(c) : (c \o d)[i] = c[i] /\ i \in 1 .. Len(c) + Len(d)
         /\ \A i \in 1 .. Len(d) :
               (c \o d)[Len(c) + i] = d[i] /\ Len(c) + i \in 1 .. Len(c) + Len(d)
<1>1. c \o d \in Seq(S) /\ Len(c \o d) = Len(c) + Len(d)
  OBVIOUS
<1>2. \A i \in 1 .. Len(c) : (c \o d)[i] = c[i] /\ i \in 1 .. Len(c) + Len(d)
  OBVIOUS
<1>3. \A i \in 1 .. Len(d) : (c \o d)[Len(c) + i] = d[i] /\ Len(c) + i \in 1 .. Len(c) + Len(d)
  OBVIOUS
<1> QED BY <1>1, <1>2, <1>3

LEMMA ListedConcat ==
  ASSUME NEW S, NEW c \in Seq(S), NEW d \in Seq(S)
  PROVE  c \o d \in Seq(S) /\ \A m : Listed(m, c \o d) <=> Listed(m, c) \/ Listed(m, d)
<1>1. c \o d \in Seq(S) /\ Len(c \o d) = Len(c) + Len(d)
  OBVIOUS
<1>2. \A i \in 1 .. Len(c) : (c \o d)[i] = c[i] /\ i \in 1 .. Len(c) + Len(d)
  OBVIOUS
<1>3. \A i \in 1 .. Len(d) : (c \o d)[Len(c) + i] = d[i] /\ Len(c) + i \in 1 .. Len(c) + Len(d)
  OBVIOUS
<1>4. \A i \in 1 .. Len(c) + Len(d) :
         i \in 1 .. Len(c) \/ (i - Len(c) \in 1 .. Len(d) /\ (c \o d)[i] = d[i - Len(c)])
  OBVIOUS
<1>5. DOMAIN c = 1 .. Len(c) /\ DOMAIN d = 1 .. Len(d) /\ DOMAIN (c \o d) = 1 .. Len(c) + Len(d)
  BY <1>1
<1> QED BY <1>1, <1>2, <1>3, <1>4, <1>5 DEF Listed

LEMMA ListedAppend ==
  ASSUME NEW S, NEW s \in Seq(S), NEW e \in S
  PROVE  Append(s, e) \in Seq(S) /\ \A m : Listed(m, Append(s, e)) <=> Listed(m, s) \/ m = e
<1>1. /\ Append(s, e) \in Seq(S) /\ DOMAIN Append(s, e) = 1 .. Len(s) + 1
      /\ Append(s, e)[Len(s) + 1] = e /\ \A i \in 1 .. Len(s) : Append(s, e)[i] = s[i]
      /\ Len(s) \in Nat /\ DOMAIN s = 1 .. Len(s)
  OBVIOUS
<1>2. \A i \in 1 .. Len(s) + 1 : i \in 1 .. Len(s) \/ i = Len(s) + 1
  BY <1>1
<1>3. Len(s) + 1 \in 1 .. Len(s) + 1 /\ \A i \in 1 .. Len(s) : i \in 1 .. Len(s) + 1
  BY <1>1
<1> QED BY <1>1, <1>2, <1>3 DEF Listed

LEMMA ListedHead ==
  ASSUME NEW S, NEW s \in Seq(S), s # <<>>
  PROVE  /\ Tail(s) \in Seq(S) /\ Head(s) \in S /\ Listed(Head(s), s)
         /\ \A m : Listed(m, s) <=> m = Head(s) \/ Listed(m, Tail(s))
<1>1. /\ Tail(s) \in Seq(S) /\ Head(s) = s[1] /\ Len(s) \in Nat \ {0}
      /\ DOMAIN s = 1 .. Len(s) /\ DOMAIN Tail(s) = 1 .. Len(s) - 1
      /\ \A i \in 1 .. Len(s) - 1 : Tail(s)[i] = s[i + 1]
  OBVIOUS
<1>2. \A i \in 1 .. Len(s) : i = 1 \/ (i - 1 \in 1 .. Len(s) - 1 /\ Tail(s)[i - 1] = s[i])
  BY <1>1
<1>3. s[1] \in S /\ 1 \in DOMAIN s
  BY <1>1
<1>4. \A m : Listed(m, s) => m = Head(s) \/ Listed(m, Tail(s))
  BY <1>1, <1>2 DEF Listed
<1>5. \A m : Listed(m, Tail(s)) => Listed(m, s)
  <2> SUFFICES ASSUME NEW i \in 1 .. Len(s) - 1 PROVE Listed(Tail(s)[i], s)
    BY <1>1 DEF Listed
  <2> QED BY <1>1 DEF Listed
<1>6. Listed(Head(s), s)
  BY <1>1, <1>3 DEF Listed
<1> QED BY <1>1, <1>3, <1>4, <1>5, <1>6

-------------------------------------------------------------------------------
(* A step of the case at hand. *)

\* The store gets memories of the case at hand, and only the status of those may change.
Grows ==
    /\ row' \in Seq(MemoryRow)
    /\ DOMAIN row \subseteq DOMAIN row'
    /\ \A m \in DOMAIN row : /\ row'[m].by = row[m].by /\ row'[m].in = row[m].in
                             /\ row[m].by # begun => row'[m] = row[m]
    /\ \A m \in DOMAIN row' \ DOMAIN row : row'[m].by = begun /\ row'[m].in = Workspace

Continues ==
    /\ work # Null
    /\ Grows
    /\ work' \in WorkRow
    /\ work'.cases = work.cases
    /\ UNCHANGED <<runner, csv, starts, kills, begun>>
    /\ troubled' \in {troubled, troubled \cup {begun}}
    /\ kept' \in {kept, kept \cup {begun}}

LEMMA ContinuesTyped ==
  ASSUME EvaluationInv, Continues,
         \A m : Listed(m, work'.created) => Mine(m)'
  PROVE  EvaluationTypeOK'
<1>1. begun \in 1 .. begun
  BY DEF EvaluationInv, EvaluationTypeOK, TurnsOK, Continues
<1>2. \A m \in DOMAIN row' : row'[m].by \in 1 .. begun
  BY <1>1 DEF EvaluationInv, EvaluationTypeOK, Continues, Grows
<1>3. \A i \in DOMAIN work'.created : work'.created[i] \in DOMAIN row'
  BY DEF Listed, Mine
<1> QED BY <1>1, <1>2, <1>3, EvaluationNullAssumption
        DEF EvaluationInv, EvaluationTypeOK, Continues, Grows

\* It keeps the invariant if it does so for the case at hand.
LEMMA ContinuesKeeps ==
  ASSUME EvaluationInv, Continues, TurnsOK', AnswersOK',
         \A m : Listed(m, work'.created) \/ Listed(m, work'.stored) \/ Listed(m, work'.doomed)
                   => Mine(m)',
         \A k \in work'.keys : Mine(k[2])',
         \A m \in DOMAIN row' : row'[m].by = begun /\ row'[m].status \in Live => Noticed(m)'
  PROVE  EvaluationInv'
<1>1. EvaluationTypeOK'
  BY ContinuesTyped
<1>2. work' # Null /\ work # Null
  BY EvaluationNullAssumption DEF Continues
<1>3. NotesOK'
  <2>1. \A m \in DOMAIN row' : row'[m].by = begun => Mine(m)'
    BY <1>2 DEF Continues, Grows, EvaluationInv, NotesOK, Mine, Workspace, Config
  <2> QED BY <2>1 DEF NotesOK, Continues
<1>4. Owed'
  <2> SUFFICES ASSUME NEW m \in DOMAIN row', row'[m].status \in Live
               PROVE  IF row'[m].by = begun THEN Noticed(m)'
                      ELSE row'[m].by \in IF row'[m].in = 0 THEN troubled' ELSE kept'
    BY <1>2 DEF Owed, Continues
  <2>1. CASE row'[m].by = begun
    BY <2>1
  <2>2. CASE row'[m].by # begun
    <3>1. m \in DOMAIN row /\ row'[m] = row[m] /\ row[m].by # begun
      BY <2>2 DEF Continues, Grows
    <3>2. row[m].by \in IF row[m].in = 0 THEN troubled ELSE kept
      BY <3>1 DEF EvaluationInv, Owed
    <3>3. troubled \subseteq troubled' /\ kept \subseteq kept'
      BY DEF Continues
    <3> QED BY <2>2, <3>1, <3>2, <3>3
  <2> QED BY <2>1, <2>2
<1>5. OrderOK'
  BY DEF EvaluationInv, OrderOK, Continues, Completed, Config, Before
<1> QED BY <1>1, <1>3, <1>4, <1>5 DEF EvaluationInv
\* The row of the case at hand, for steps that only replace parts of it.
Numbers == Seq(Nat)
Requests == Seq(Seq(Nat))
Groups == Seq(Cases)
Answers == Seq(ResultRow)

LEMMA RowForm ==
  /\ WorkRow = [cases : Groups, at : Steps, turn : Nat, pending : Numbers, batches : Requests,
                keys : SUBSET (Keys \X Nat), stored : Numbers, created : Numbers,
                doomed : Numbers, answers : Answers]
  /\ <<>> \in Numbers
BY DEF WorkRow, Numbers, Requests, Groups, Answers

LEMMA AtHand ==
  ASSUME EvaluationInv, work # Null
  PROVE  /\ work \in WorkRow /\ runner \in RunnerRow /\ runner # Null
         /\ Case \in Cases
         /\ Config \in CommandLines
         /\ \A f \in {"isolate", "cleanup", "extraction", "grouped", "resume"} : Config[f] \in BOOLEAN
<1>1. work \in WorkRow /\ runner \in RunnerRow /\ runner # Null
  BY DEF EvaluationInv, EvaluationTypeOK
<1>2. work.cases \in Seq(Cases) /\ work.cases # <<>>
  BY <1>1 DEF WorkRow, EvaluationInv, TurnsOK
<1>3. Config \in CommandLines
  BY <1>1, EvaluationAssumption DEF RunnerRow, Config
<1> QED BY <1>1, <1>2, <1>3 DEF Case, CommandLines

LEMMA CleaningUpRow ==
  ASSUME NEW w \in WorkRow
  PROVE  LET to == CleaningUp(w) IN
         /\ to \in WorkRow
         /\ to.at = "clean_up"
         /\ to.cases = w.cases /\ to.turn = w.turn /\ to.pending = w.pending
         /\ to.batches = w.batches /\ to.keys = w.keys /\ to.stored = w.stored
         /\ to.created = w.created /\ to.answers = w.answers
         /\ to.doomed = IF Config.cleanup /\ ~Config.isolate THEN w.created ELSE <<>>
<1> DEFINE doomed == IF Config.cleanup /\ ~Config.isolate THEN w.created ELSE <<>>
<1>1. doomed \in Seq(Nat)
  BY DEF WorkRow
<1>2. CleaningUp(w) = [w EXCEPT !.at = "clean_up", !.doomed = doomed]
  BY DEF CleaningUp
<1> HIDE DEF doomed
<1>3. LET to == [w EXCEPT !.at = "clean_up", !.doomed = doomed] IN
      /\ to \in WorkRow
      /\ to.at = "clean_up"
      /\ to.cases = w.cases /\ to.turn = w.turn /\ to.pending = w.pending
      /\ to.batches = w.batches /\ to.keys = w.keys /\ to.stored = w.stored
      /\ to.created = w.created /\ to.answers = w.answers
      /\ to.doomed = doomed
  BY <1>1 DEF WorkRow, Steps
<1> QED BY <1>2, <1>3 DEF doomed

\* A case that fails has its answer, and owes nothing.
LEMMA FailedKeeps ==
  ASSUME EvaluationInv, work # Null, work.at \notin {"ask", "clean_up", "record"}, Grows,
         work' = Failed, troubled' = troubled \cup {begun},
         UNCHANGED <<runner, csv, starts, kills, begun, kept>>
  PROVE  EvaluationInv'
<1>1. /\ work \in WorkRow /\ Case \in Cases /\ Config.grouped \in BOOLEAN
      /\ Config.isolate \in BOOLEAN /\ Config.cleanup \in BOOLEAN
  BY AtHand
<1>2. <<[case |-> Case, error |-> TRUE]>> \in Seq(ResultRow) /\ <<>> \in Seq(ResultRow)
  BY <1>1 DEF ResultRow
<1> DEFINE answers == IF Config.grouped THEN <<>> ELSE <<[case |-> Case, error |-> TRUE]>>
           failed == [work EXCEPT !.answers = answers]
<1>a. answers \in Seq(ResultRow) /\ work' = CleaningUp(failed)
  BY <1>1, <1>2 DEF Failed
<1>b. /\ failed \in WorkRow
      /\ failed.cases = work.cases /\ failed.turn = work.turn /\ failed.pending = work.pending
      /\ failed.batches = work.batches /\ failed.keys = work.keys /\ failed.stored = work.stored
      /\ failed.created = work.created /\ failed.answers = answers
  <2> HIDE DEF answers
  <2> QED BY <1>1, <1>a DEF WorkRow
<1>3. /\ work' \in WorkRow
      /\ work'.at = "clean_up"
      /\ work'.cases = work.cases /\ work'.turn = work.turn /\ work'.pending = work.pending
      /\ work'.batches = work.batches /\ work'.keys = work.keys /\ work'.stored = work.stored
      /\ work'.created = work.created /\ work'.doomed \in {<<>>, work.created}
      /\ work'.answers = answers
  <2> HIDE DEF failed, answers
  <2> QED BY <1>a, <1>b, CleaningUpRow
<1>4. Continues
  BY <1>3 DEF Continues
<1>5. TurnsOK'
  BY <1>3 DEF EvaluationInv, TurnsOK, Case
<1>6. AnswersOK'
  <2>1. /\ runner.left # {}
        /\ work.cases = IF Config.grouped THEN Dataset ELSE <<Dataset[Min(runner.left)]>>
        /\ work.cases \in Seq(Cases)
    BY <1>1 DEF EvaluationInv, AnswersOK, WorkRow
  <2>2. CASE Config.grouped
    BY <1>3, <2>1, <2>2 DEF AnswersOK, Config
  <2>3. CASE ~Config.grouped
    <3>1. Len(work.cases) = 1 /\ work.cases[1] = Case
      BY <2>1, <2>3 DEF Case
    <3>2. Len(work'.answers) = 1 /\ DOMAIN work'.answers = {1} /\ work'.answers[1].case = Case
      BY <1>3, <2>3
    <3> QED BY <1>3, <2>1, <2>3, <3>1, <3>2 DEF AnswersOK, Config
  <2> QED BY <1>1, <2>2, <2>3
<1>7. \A m : Mine(m) => Mine(m)'
  BY DEF Grows, Mine, Workspace, Config
<1>8. \A m : Listed(m, work'.created) \/ Listed(m, work'.stored) \/ Listed(m, work'.doomed) => Mine(m)'
  BY <1>3, <1>7 DEF EvaluationInv, NotesOK, Listed
<1>9. \A k \in work'.keys : Mine(k[2])'
  BY <1>3, <1>7 DEF EvaluationInv, NotesOK
<1>10. \A m \in DOMAIN row' : row'[m].by = begun /\ row'[m].status \in Live => Noticed(m)'
  BY <1>3 DEF Noticed
<1> QED BY <1>4, <1>5, <1>6, <1>8, <1>9, <1>10, ContinuesKeeps

\* Nothing grows when nothing is stored.
LEMMA SameGrows ==
  ASSUME EvaluationInv, UNCHANGED row
  PROVE  Grows
BY DEF EvaluationInv, EvaluationTypeOK, Grows

LEMMA FailCallKeeps ==
  ASSUME EvaluationInv, FailCall
  PROVE  EvaluationInv'
<1>1. Grows
  BY SameGrows DEF FailCall, storeVars
<1> QED BY <1>1, FailedKeeps DEF FailCall

LEMMA OpenWorkspaceKeeps ==
  ASSUME EvaluationInv, OpenWorkspace
  PROVE  EvaluationInv'
<1>1. work # Null /\ work.at = "open" /\ work \in WorkRow
  BY AtHand DEF OpenWorkspace, At
<1>2. /\ work' \in WorkRow
      /\ work'.at = "turns"
      /\ work'.cases = work.cases /\ work'.turn = work.turn /\ work'.pending = work.pending
      /\ work'.batches = work.batches /\ work'.keys = work.keys /\ work'.stored = work.stored
      /\ work'.created = work.created /\ work'.doomed = work.doomed /\ work'.answers = work.answers
  BY <1>1 DEF OpenWorkspace, WorkRow, Steps
<1>3. Grows
  BY SameGrows DEF OpenWorkspace, storeVars
<1>4. Continues
  BY <1>1, <1>2, <1>3 DEF Continues, OpenWorkspace, historyVars
<1>5. TurnsOK'
  BY <1>1, <1>2 DEF EvaluationInv, TurnsOK, Case, OpenWorkspace, historyVars
<1>6. AnswersOK'
  BY <1>1, <1>2 DEF EvaluationInv, AnswersOK, Config, OpenWorkspace
<1>7. \A m : Mine(m) => Mine(m)'
  BY <1>4 DEF Continues, Grows, Mine, Workspace, Config
<1>8. \A m : Listed(m, work'.created) \/ Listed(m, work'.stored) \/ Listed(m, work'.doomed) => Mine(m)'
  BY <1>1, <1>2, <1>7 DEF EvaluationInv, NotesOK
<1>9. \A k \in work'.keys : Mine(k[2])'
  BY <1>1, <1>2, <1>7 DEF EvaluationInv, NotesOK
<1>10. \A m \in DOMAIN row' : row'[m].by = begun /\ row'[m].status \in Live => Noticed(m)'
  BY <1>1, <1>2 DEF EvaluationInv, Owed, Noticed, OpenWorkspace, storeVars, historyVars
<1> QED BY <1>4, <1>5, <1>6, <1>8, <1>9, <1>10, ContinuesKeeps
\* A step before the answers that stays before them, or comes to them.
LEMMA MovesKeeps ==
  ASSUME EvaluationInv, Continues, TurnsOK',
         work.at \notin {"ask", "clean_up", "record"}, work'.at \notin {"clean_up", "record"},
         work'.answers = work.answers,
         \A m : Listed(m, work'.created) \/ Listed(m, work'.stored) \/ Listed(m, work'.doomed)
                   => Mine(m)',
         \A k \in work'.keys : Mine(k[2])',
         \A m \in DOMAIN row' : row'[m].by = begun /\ row'[m].status \in Live => Noticed(m)'
  PROVE  EvaluationInv'
<1>1. work.answers = <<>> /\ work.cases \in Seq(Cases) /\ work.cases # <<>>
  BY AtHand DEF EvaluationInv, AnswersOK, TurnsOK, Continues, WorkRow
<1>2. AnswersOK'
  BY <1>1 DEF EvaluationInv, AnswersOK, Continues, Config
<1> QED BY <1>2, ContinuesKeeps

\* The same when nothing is stored: what was the case's own is so still.
LEMMA SameMine ==
  ASSUME EvaluationInv, Continues, NEW m, Mine(m)
  PROVE  Mine(m)'
BY DEF Continues, Grows, Mine, Workspace, Config

LEMMA SeqOfMore ==
  ASSUME NEW S, NEW T, S \subseteq T, NEW s \in Seq(S)
  PROVE  s \in Seq(T)
<1>1. Len(s) \in Nat /\ s = [i \in 1 .. Len(s) |-> s[i]] /\ \A i \in 1 .. Len(s) : s[i] \in T
  OBVIOUS
<1> QED BY <1>1

LEMMA StoringRow ==
  ASSUME EvaluationInv, work # Null
  PROVE  /\ Storing \in WorkRow
         /\ Storing.at = "store" /\ Storing.cases = work.cases /\ Storing.turn = work.turn
         /\ Storing.pending = <<>> /\ Storing.keys = {} /\ Storing.stored = <<>>
         /\ Storing.created = work.created /\ Storing.doomed = work.doomed
         /\ Storing.answers = work.answers /\ Storing.batches = Batches(work.pending, Turns[Case])
         /\ \A i \in DOMAIN Storing.batches : \A j \in DOMAIN Storing.batches[i] :
               Storing.batches[i][j] \in DOMAIN Turns[Case]
<1> DEFINE T == DOMAIN Turns[Case]
           batches == Batches(work.pending, Turns[Case])
<1>1. work \in WorkRow /\ Case \in Cases
  BY AtHand
<1>2. work.pending \in Seq(T) /\ T \subseteq Nat
  <2>1. T \subseteq Nat
    BY <1>1, DatasetAssumption
  <2>2. work.pending \in Seq(Nat) /\ \A i \in DOMAIN work.pending : work.pending[i] \in T
    BY <1>1 DEF WorkRow, EvaluationInv, TurnsOK
  <2> HIDE DEF T
  <2> QED BY <2>1, <2>2
<1>3. batches \in Seq(Seq(T))
  <2> HIDE DEF T
  <2> QED BY <1>2, BatchesTyped
<1>4. batches \in Seq(Seq(Nat))
  <2> HIDE DEF T, batches
  <2>1. \A i \in DOMAIN batches : batches[i] \in Seq(Nat)
    <3> SUFFICES ASSUME NEW i \in DOMAIN batches PROVE batches[i] \in Seq(Nat)
      OBVIOUS
    <3>1. batches[i] \in Seq(T)
      BY <1>3
    <3> QED BY <1>2, <3>1, SeqOfMore
  <2> QED BY <1>3, <2>1
<1>5. Storing = [work EXCEPT !.at = "store", !.pending = <<>>, !.batches = batches,
                             !.keys = {}, !.stored = <<>>]
  BY DEF Storing
<1>6. \A i \in DOMAIN batches : \A j \in DOMAIN batches[i] : batches[i][j] \in T
  <2> HIDE DEF T, batches
  <2> QED BY <1>3
<1> HIDE DEF T, batches
<1>7. LET to == [work EXCEPT !.at = "store", !.pending = <<>>, !.batches = batches,
                             !.keys = {}, !.stored = <<>>] IN
      /\ to \in WorkRow
      /\ to.at = "store" /\ to.cases = work.cases /\ to.turn = work.turn
      /\ to.pending = <<>> /\ to.keys = {} /\ to.stored = <<>>
      /\ to.created = work.created /\ to.doomed = work.doomed
      /\ to.answers = work.answers
      /\ to.batches = batches
  <2>1. batches \in Requests
    BY <1>4 DEF Requests
  <2> QED BY <1>1, <2>1, RowForm DEF Steps
<1> QED BY <1>5, <1>6, <1>7 DEF T, batches
-------------------------------------------------------------------------------
(* The turns of the conversation. *)

LEMMA ReadTurnKeeps ==
  ASSUME EvaluationInv, ReadTurn
  PROVE  EvaluationInv'
<1>1. work # Null /\ work.at = "turns" /\ work \in WorkRow /\ Case \in Cases
  BY AtHand DEF ReadTurn, At
<1>2. Grows
  BY SameGrows DEF ReadTurn, storeVars
<1>3. SUFFICES
        /\ work' \in WorkRow
        /\ work'.at \in {"store", "turns", "import"}
        /\ work'.cases = work.cases /\ work'.created = work.created /\ work'.doomed = work.doomed
        /\ work'.answers = work.answers /\ work'.turn # 0
        /\ work'.stored \in {<<>>, work.stored} /\ work'.keys \in {{}, work.keys}
        /\ \A i \in DOMAIN work'.pending : work'.pending[i] \in DOMAIN Turns[Case]
        /\ \A i \in DOMAIN work'.batches : \A j \in DOMAIN work'.batches[i] :
              work'.batches[i][j] \in DOMAIN Turns[Case]
        /\ work'.at = "store" => work'.keys = {}
  <2> SUFFICES ASSUME
        /\ work' \in WorkRow
        /\ work'.at \in {"store", "turns", "import"}
        /\ work'.cases = work.cases /\ work'.created = work.created /\ work'.doomed = work.doomed
        /\ work'.answers = work.answers /\ work'.turn # 0
        /\ work'.stored \in {<<>>, work.stored} /\ work'.keys \in {{}, work.keys}
        /\ \A i \in DOMAIN work'.pending : work'.pending[i] \in DOMAIN Turns[Case]
        /\ \A i \in DOMAIN work'.batches : \A j \in DOMAIN work'.batches[i] :
              work'.batches[i][j] \in DOMAIN Turns[Case]
        /\ work'.at = "store" => work'.keys = {}
               PROVE EvaluationInv'
    OBVIOUS
  <2>1. Continues
    BY <1>1, <1>2 DEF Continues, ReadTurn, historyVars
  <2>2. TurnsOK'
    BY <1>1 DEF EvaluationInv, TurnsOK, Case, ReadTurn, historyVars
  <2>3. \A m : Listed(m, work'.created) \/ Listed(m, work'.stored) \/ Listed(m, work'.doomed) => Mine(m)
    BY <1>1 DEF EvaluationInv, NotesOK, Listed
  <2>4. \A k \in work'.keys : Mine(k[2])
    BY <1>1 DEF EvaluationInv, NotesOK
  <2>5. \A m \in DOMAIN row' : row'[m].by = begun /\ row'[m].status \in Live => Noticed(m)'
    BY <1>1 DEF EvaluationInv, Owed, Noticed, ReadTurn, storeVars, historyVars
  <2> QED BY <1>1, <2>1, <2>2, <2>3, <2>4, <2>5, SameMine, MovesKeeps
<1>4. /\ work.turn # 0
      /\ \A i \in DOMAIN work.pending : work.pending[i] \in DOMAIN Turns[Case]
      /\ \A i \in DOMAIN work.batches : \A j \in DOMAIN work.batches[i] :
            work.batches[i][j] \in DOMAIN Turns[Case]
  BY <1>1 DEF EvaluationInv, TurnsOK
<1>5. CASE work' = Storing
  BY <1>1, <1>4, <1>5, StoringRow
<1>6. CASE work' = [work EXCEPT !.turn = @ + 1]
  BY <1>1, <1>4, <1>6, RowForm
<1>7. CASE work' = [work EXCEPT !.at = "import"]
  BY <1>1, <1>4, <1>7, RowForm DEF Steps
<1>8. CASE /\ work' = [work EXCEPT !.pending = Append(@, work.turn), !.turn = @ + 1]
           /\ ~(work.turn > Len(Turns[Case]))
  <2> DEFINE pending == Append(work.pending, work.turn)
  <2>1. work.turn \in DOMAIN Turns[Case] /\ work.turn \in Nat /\ work.pending \in Seq(Nat)
    BY <1>1, <1>4, <1>8, DatasetAssumption DEF WorkRow
  <2>2. pending \in Numbers /\ \A i \in DOMAIN pending : pending[i] \in DOMAIN Turns[Case]
    BY <1>4, <2>1 DEF Numbers
  <2> DEFINE turn == work.turn + 1
  <2>3. work' = [work EXCEPT !.pending = pending, !.turn = turn] /\ turn \in Nat /\ turn # 0
    BY <1>8, <2>1
  <2> HIDE DEF pending, turn
  <2>4. /\ work' \in WorkRow
        /\ work'.at = work.at /\ work'.cases = work.cases /\ work'.created = work.created
        /\ work'.doomed = work.doomed /\ work'.answers = work.answers
        /\ work'.stored = work.stored /\ work'.keys = work.keys /\ work'.batches = work.batches
        /\ work'.pending = pending /\ work'.turn = turn
    BY <1>1, <2>2, <2>3, RowForm
  <2> QED BY <1>1, <1>4, <2>2, <2>3, <2>4
<1> QED BY <1>5, <1>6, <1>7, <1>8 DEF ReadTurn

LEMMA NotedListed ==
  ASSUME work \in WorkRow
  PROVE  /\ Noted \in Numbers
         /\ \A m : Listed(m, Noted) <=> Listed(m, work.created) \/ Listed(m, work.stored)
<1> DEFINE c == work.created
           d == work.stored
<1>1. c \in Seq(Nat) /\ d \in Seq(Nat)
  BY DEF WorkRow
<1> HIDE DEF c, d
<1>2. c \o d \in Seq(Nat) /\ \A m : Listed(m, c \o d) <=> Listed(m, c) \/ Listed(m, d)
  BY <1>1, ListedConcat
<1> QED BY <1>2 DEF c, d, Numbers, Noted

LEMMA BatchesStoredKeeps ==
  ASSUME EvaluationInv, BatchesStored
  PROVE  EvaluationInv'
<1>1. work # Null /\ work.at = "store" /\ work \in WorkRow
  BY AtHand DEF BatchesStored, At
<1> DEFINE noted == work.created \o work.stored
<1>2. /\ noted \in Numbers
      /\ \A m : Listed(m, noted) <=> Listed(m, work.created) \/ Listed(m, work.stored)
  BY <1>1, NotedListed DEF Noted
<1>3. Grows
  BY SameGrows DEF BatchesStored, storeVars
<1> HIDE DEF noted
<1>4. /\ work' \in WorkRow
      /\ work'.cases = work.cases /\ work'.created = noted /\ work'.doomed \in {<<>>, noted}
      /\ work'.stored = work.stored /\ work'.keys = work.keys
      /\ work'.answers = work.answers /\ work'.turn = work.turn
      /\ work'.pending = work.pending /\ work'.batches = work.batches
      /\ work'.at = "ask" \/ (work'.at = "delete" /\ work'.doomed = noted)
  <2>1. CASE work.turn > Len(Turns[Case])
    <3>1. work' = [work EXCEPT !.created = noted, !.doomed = <<>>, !.at = "ask"]
      BY <2>1 DEF BatchesStored, Noted, noted
    <3> QED BY <1>1, <1>2, <3>1, RowForm DEF Steps
  <2>2. CASE ~(work.turn > Len(Turns[Case]))
    <3>1. work' = [work EXCEPT !.created = noted, !.doomed = noted, !.at = "delete"]
      BY <2>2 DEF BatchesStored, Noted, noted
    <3> QED BY <1>1, <1>2, <3>1, RowForm DEF Steps
  <2> QED BY <2>1, <2>2
<1>5. Continues
  BY <1>1, <1>3, <1>4 DEF Continues, BatchesStored, historyVars
<1>6. TurnsOK'
  BY <1>1, <1>4 DEF EvaluationInv, TurnsOK, Case, BatchesStored, historyVars
<1>7. \A m : Listed(m, work'.created) \/ Listed(m, work'.stored) \/ Listed(m, work'.doomed) => Mine(m)
  BY <1>1, <1>2, <1>4 DEF EvaluationInv, NotesOK, Listed
<1>8. \A k \in work'.keys : Mine(k[2])
  BY <1>1, <1>4 DEF EvaluationInv, NotesOK
<1>9. \A m \in DOMAIN row' : row'[m].by = begun /\ row'[m].status \in Live => Noticed(m)'
  BY <1>1, <1>2, <1>4 DEF EvaluationInv, Owed, Noticed, BatchesStored, storeVars, historyVars
<1> QED BY <1>1, <1>4, <1>5, <1>6, <1>7, <1>8, <1>9, SameMine, MovesKeeps
\* The status of one memory of the case changes.
LEMMA ChangedRow ==
  ASSUME EvaluationInv, NEW m, Mine(m), NEW status \in Live \cup {"archived", "gone"},
         row' = [row EXCEPT ![m].status = status]
  PROVE  /\ Grows /\ DOMAIN row' = DOMAIN row
         /\ row'[m].status = status
         /\ \A i \in DOMAIN row : i # m => row'[i] = row[i]
         /\ \A i \in DOMAIN row : row'[i].by = row[i].by /\ row'[i].in = row[i].in
<1>1. row \in Seq(MemoryRow) /\ m \in DOMAIN row /\ row[m].by = begun /\ row[m] \in MemoryRow
  BY DEF EvaluationInv, EvaluationTypeOK, Mine
<1> DEFINE new == [row[m] EXCEPT !.status = status]
<1>2. new \in MemoryRow /\ new.status = status /\ new.by = row[m].by /\ new.in = row[m].in
  BY <1>1 DEF MemoryRow
<1>3. row' = [row EXCEPT ![m] = new]
  OBVIOUS
<1> HIDE DEF new
<1>4. row' \in Seq(MemoryRow) /\ DOMAIN row' = DOMAIN row /\ row'[m] = new
      /\ \A i \in DOMAIN row : i # m => row'[i] = row[i]
  BY <1>1, <1>2, <1>3
<1> QED BY <1>1, <1>2, <1>4 DEF Grows

LEMMA DeleteMemoryKeeps ==
  ASSUME EvaluationInv, DeleteMemory
  PROVE  EvaluationInv'
<1>1. work # Null /\ work.at = "delete" /\ work \in WorkRow /\ work.doomed # <<>>
  BY AtHand DEF DeleteMemory, At
<1> DEFINE m0 == Head(work.doomed)
           rest == Tail(work.doomed)
<1>2. rest \in Numbers /\ \A m : Listed(m, work.doomed) <=> m = m0 \/ Listed(m, rest)
  BY <1>1, ListedHead DEF WorkRow, Numbers
<1>3. Mine(m0)
  BY <1>1, <1>2 DEF EvaluationInv, NotesOK
<1> HIDE DEF m0, rest
<1>4. row' = [row EXCEPT ![m0].status = "archived"]
  BY DEF DeleteMemory, Archive, m0
<1>5. /\ Grows /\ DOMAIN row' = DOMAIN row
      /\ row'[m0].status = "archived"
      /\ \A i \in DOMAIN row : i # m0 => row'[i] = row[i]
      /\ \A i \in DOMAIN row : row'[i].by = row[i].by
  BY <1>3, <1>4, ChangedRow
<1>6. CASE work' = Failed /\ troubled' = troubled \cup {begun}
  BY <1>1, <1>5, <1>6, FailedKeeps DEF DeleteMemory
<1>7. CASE work' = [work EXCEPT !.doomed = rest] /\ UNCHANGED troubled
  <2>1. /\ work' \in WorkRow
        /\ work'.at = "delete" /\ work'.cases = work.cases /\ work'.created = work.created
        /\ work'.doomed = rest /\ work'.answers = work.answers
        /\ work'.stored = work.stored /\ work'.keys = work.keys /\ work'.batches = work.batches
        /\ work'.pending = work.pending /\ work'.turn = work.turn
    BY <1>1, <1>2, <1>7, RowForm
  <2>2. Continues
    BY <1>1, <1>5, <1>7, <2>1 DEF Continues, DeleteMemory
  <2>3. TurnsOK'
    BY <1>1, <2>1 DEF EvaluationInv, TurnsOK, Case, DeleteMemory
  <2>4. \A m : Listed(m, work'.created) \/ Listed(m, work'.stored) \/ Listed(m, work'.doomed) => Mine(m)
    BY <1>1, <1>2, <2>1 DEF EvaluationInv, NotesOK
  <2>5. \A k \in work'.keys : Mine(k[2])
    BY <1>1, <2>1 DEF EvaluationInv, NotesOK
  <2>6. \A m \in DOMAIN row' : row'[m].by = begun /\ row'[m].status \in Live => Noticed(m)'
    <3> SUFFICES ASSUME NEW m \in DOMAIN row', row'[m].by = begun, row'[m].status \in Live
                 PROVE  begun \in troubled \/ Listed(m, rest)
      BY <1>7, <2>1, <2>2 DEF Noticed, Continues
    <3>1. m # m0 /\ m \in DOMAIN row /\ row[m].by = begun /\ row[m].status \in Live
      BY <1>5 DEF Live
    <3>2. begun \in troubled \/ Listed(m, work.doomed)
      BY <1>1, <3>1 DEF EvaluationInv, Owed, Noticed
    <3> QED BY <1>2, <3>1, <3>2
  <2> QED BY <1>1, <2>1, <2>2, <2>3, <2>4, <2>5, <2>6, SameMine, MovesKeeps
<1> QED BY <1>6, <1>7 DEF DeleteMemory, Answered, rest

LEMMA AllDeletedKeeps ==
  ASSUME EvaluationInv, AllDeleted
  PROVE  EvaluationInv'
<1>1. work # Null /\ work.at = "delete" /\ work \in WorkRow /\ work.doomed = <<>>
  BY AtHand DEF AllDeleted, At
<1> DEFINE turn == work.turn + 1
<1>2. turn \in Nat /\ turn # 0 /\ \A m : ~Listed(m, <<>>)
  BY <1>1 DEF WorkRow, Listed
<1>3. work' = [work EXCEPT !.at = "turns", !.turn = turn, !.created = <<>>]
  BY DEF AllDeleted
<1> HIDE DEF turn
<1>4. /\ work' \in WorkRow
      /\ work'.at = "turns" /\ work'.cases = work.cases /\ work'.created = <<>>
      /\ work'.doomed = <<>> /\ work'.answers = work.answers
      /\ work'.stored = work.stored /\ work'.keys = work.keys /\ work'.batches = work.batches
      /\ work'.pending = work.pending /\ work'.turn = turn
  BY <1>1, <1>2, <1>3, RowForm DEF Steps
<1>5. Grows
  BY SameGrows DEF AllDeleted, storeVars
<1>6. Continues
  BY <1>1, <1>4, <1>5 DEF Continues, AllDeleted, historyVars
<1>7. TurnsOK'
  BY <1>1, <1>2, <1>4 DEF EvaluationInv, TurnsOK, Case, AllDeleted, historyVars
<1>8. \A m : Listed(m, work'.created) \/ Listed(m, work'.stored) \/ Listed(m, work'.doomed) => Mine(m)
  BY <1>1, <1>2, <1>4 DEF EvaluationInv, NotesOK
<1>9. \A k \in work'.keys : Mine(k[2])
  BY <1>1, <1>4 DEF EvaluationInv, NotesOK
<1>10. \A m \in DOMAIN row' : row'[m].by = begun /\ row'[m].status \in Live => Noticed(m)'
  BY <1>1, <1>2, <1>4 DEF EvaluationInv, Owed, Noticed, AllDeleted, storeVars, historyVars
<1> QED BY <1>1, <1>4, <1>6, <1>7, <1>8, <1>9, <1>10, SameMine, MovesKeeps
-------------------------------------------------------------------------------
(* Extraction. *)

LEMMA ImportTurnKeeps ==
  ASSUME EvaluationInv, ImportTurn
  PROVE  EvaluationInv'
<1>1. work # Null /\ work.at = "import" /\ work \in WorkRow
  BY AtHand DEF ImportTurn, At
<1>2. Grows
  BY SameGrows DEF ImportTurn
<1>3. CASE work' = Failed /\ troubled' = troubled \cup {begun}
  BY <1>1, <1>2, <1>3, FailedKeeps DEF ImportTurn
<1>4. CASE work' = [work EXCEPT !.at = "extract"] /\ UNCHANGED troubled
  <2>1. /\ work' \in WorkRow
        /\ work'.at = "extract" /\ work'.cases = work.cases /\ work'.created = work.created
        /\ work'.doomed = work.doomed /\ work'.answers = work.answers
        /\ work'.stored = work.stored /\ work'.keys = work.keys /\ work'.batches = work.batches
        /\ work'.pending = work.pending /\ work'.turn = work.turn
    BY <1>1, <1>4, RowForm DEF Steps
  <2>2. Continues
    BY <1>1, <1>2, <1>4, <2>1 DEF Continues, ImportTurn
  <2>3. TurnsOK'
    BY <1>1, <2>1 DEF EvaluationInv, TurnsOK, Case, ImportTurn
  <2>4. \A m : Listed(m, work'.created) \/ Listed(m, work'.stored) \/ Listed(m, work'.doomed) => Mine(m)
    BY <1>1, <2>1 DEF EvaluationInv, NotesOK
  <2>5. \A k \in work'.keys : Mine(k[2])
    BY <1>1, <2>1 DEF EvaluationInv, NotesOK
  <2>6. \A m \in DOMAIN row' : row'[m].by = begun /\ row'[m].status \in Live => Noticed(m)'
    BY <1>1, <1>4, <2>1 DEF EvaluationInv, Owed, Noticed, ImportTurn
  <2> QED BY <1>1, <2>1, <2>2, <2>3, <2>4, <2>5, <2>6, SameMine, MovesKeeps
<1> QED BY <1>3, <1>4 DEF ImportTurn, Answered

\* New memories come after the others, and are the case's own.
NewRows(turns, status) == [j \in DOMAIN turns |-> NewRow(turns[j], status)]

LEMMA AddedRows ==
  ASSUME EvaluationInv, work # Null, NEW old \in Seq(MemoryRow), NEW turns \in Seq(Nat),
         NEW status \in Live,
         DOMAIN old = DOMAIN row,
         \A m \in DOMAIN row : /\ old[m].by = row[m].by /\ old[m].in = row[m].in
                               /\ row[m].by # begun => old[m] = row[m],
         row' = old \o NewRows(turns, status), UNCHANGED <<runner, begun>>
  PROVE  /\ Grows
         /\ Len(row) \in Nat /\ DOMAIN row = 1 .. Len(row)
         /\ DOMAIN row' = 1 .. Len(row) + Len(turns)
         /\ \A m \in DOMAIN row : row'[m] = old[m]
         /\ \A j \in 1 .. Len(turns) : Len(row) + j \in DOMAIN row' \ DOMAIN row
         /\ \A m \in DOMAIN row' \ DOMAIN row : Mine(m)'
<1> DEFINE new == NewRows(turns, status)
           n == Len(turns)
<1>1. /\ row \in Seq(MemoryRow) /\ begun \in Nat /\ Config.isolate \in BOOLEAN
      /\ n \in Nat /\ DOMAIN turns = 1 .. n /\ \A j \in 1 .. n : turns[j] \in Nat
  BY AtHand DEF EvaluationInv, EvaluationTypeOK
<1>2. Workspace \in Nat
  BY <1>1 DEF Workspace
<1>3. \A j \in 1 .. n : new[j] \in MemoryRow /\ new[j].by = begun /\ new[j].in = Workspace
  BY <1>1, <1>2 DEF NewRows, NewRow, MemoryRow
<1>4. new = [j \in 1 .. n |-> new[j]]
  BY <1>1 DEF NewRows
<1> HIDE DEF new, n
<1>5. new \in Seq(MemoryRow) /\ Len(new) = n
  <2>1. n \in Nat /\ \A j \in 1 .. n : new[j] \in MemoryRow
    BY <1>1, <1>3
  <2> QED BY <1>4, <2>1, SeqOfFunction
<1>6. Len(old) = Len(row) /\ Len(row) \in Nat /\ DOMAIN row = 1 .. Len(row)
  BY <1>1
<1>7. /\ row' \in Seq(MemoryRow) /\ DOMAIN row' = 1 .. Len(row) + n
      /\ \A m \in 1 .. Len(row) : row'[m] = old[m]
      /\ \A j \in 1 .. n : row'[Len(row) + j] = new[j] /\ Len(row) + j \in 1 .. Len(row) + n
  <2>1. row' = old \o new
    BY DEF new
  <2>2. new \in Seq(MemoryRow) /\ old \in Seq(MemoryRow)
    BY <1>5
  <2>3. old \o new \in Seq(MemoryRow) /\ DOMAIN (old \o new) = 1 .. Len(old) + Len(new)
    BY ONLY <2>2, ConcatParts
  <2>4. \A i \in 1 .. Len(old) : (old \o new)[i] = old[i]
    BY ONLY <2>2, ConcatParts
  <2>5. \A i \in 1 .. Len(new) : /\ (old \o new)[Len(old) + i] = new[i]
                                 /\ Len(old) + i \in 1 .. Len(old) + Len(new)
    BY ONLY <2>2, ConcatParts
  <2> QED BY <1>5, <1>6, <2>1, <2>3, <2>4, <2>5
<1>8. \A m \in DOMAIN row' \ DOMAIN row : row'[m].by = begun /\ row'[m].in = Workspace
  <2> SUFFICES ASSUME NEW m \in DOMAIN row' \ DOMAIN row
               PROVE  row'[m].by = begun /\ row'[m].in = Workspace
    OBVIOUS
  <2>1. m - Len(row) \in 1 .. n /\ m = Len(row) + (m - Len(row))
    BY <1>1, <1>6, <1>7
  <2>2. row'[m] = new[m - Len(row)]
    BY <1>7, <2>1
  <2> QED BY <1>3, <2>1, <2>2
<1>9. DOMAIN row \subseteq DOMAIN row'
  BY <1>1, <1>6, <1>7
<1>10. Grows
  BY <1>6, <1>7, <1>8, <1>9 DEF Grows
<1>11. \A m \in DOMAIN row' \ DOMAIN row : Mine(m)'
  BY <1>8 DEF Mine, Workspace, Config
<1>12. \A j \in 1 .. n : Len(row) + j \in DOMAIN row' \ DOMAIN row
  BY <1>1, <1>6, <1>7
<1> QED BY <1>6, <1>7, <1>10, <1>11, <1>12 DEF n
LEMMA ExtractCandidatesKeeps ==
  ASSUME EvaluationInv, ExtractCandidates
  PROVE  EvaluationInv'
<1>1. work # Null /\ work.at = "extract" /\ work \in WorkRow
  BY AtHand DEF ExtractCandidates, At
<1>2. PICK n \in Candidates :
        /\ row' = row \o [i \in 1 .. n |-> NewRow(work.turn, "candidate")]
        /\ Answered([work EXCEPT !.at = "approve", !.doomed = [i \in 1 .. n |-> Len(row) + i],
                                 !.stored = <<>>])
  BY DEF ExtractCandidates
<1>3. n \in Nat /\ work.turn \in Nat /\ row \in Seq(MemoryRow)
  BY <1>1, EvaluationAssumption DEF WorkRow, EvaluationInv, EvaluationTypeOK
<1> DEFINE turns == [i \in 1 .. n |-> work.turn]
           new == [i \in 1 .. n |-> Len(row) + i]
<1>4. turns \in Seq(Nat) /\ Len(turns) = n
  BY <1>3, SeqOfFunction
<1>5. new \in Seq(Nat) /\ Len(new) = n
  BY <1>3, SeqOfFunction
<1>6. row' = row \o NewRows(turns, "candidate")
  BY <1>2 DEF NewRows
<1> HIDE DEF turns
<1>7. /\ Grows
      /\ Len(row) \in Nat /\ DOMAIN row = 1 .. Len(row) /\ DOMAIN row' = 1 .. Len(row) + n
      /\ \A m \in DOMAIN row : row'[m] = row[m]
      /\ \A j \in 1 .. n : Len(row) + j \in DOMAIN row' \ DOMAIN row
      /\ \A m \in DOMAIN row' \ DOMAIN row : Mine(m)'
  BY <1>1, <1>3, <1>4, <1>6, AddedRows DEF ExtractCandidates, Live
<1>8. \A m : Listed(m, new) <=> m \in DOMAIN row' \ DOMAIN row
  <2>1. \A m \in DOMAIN row' \ DOMAIN row : m - Len(row) \in 1 .. n /\ m = Len(row) + (m - Len(row))
    BY <1>3, <1>7
  <2>2. \A m \in DOMAIN row' \ DOMAIN row : Listed(m, new)
    BY <2>1 DEF Listed
  <2> QED BY <1>7, <2>2 DEF Listed
<1> HIDE DEF new
<1>9. CASE work' = Failed /\ troubled' = troubled \cup {begun}
  BY <1>1, <1>7, <1>9, FailedKeeps DEF ExtractCandidates
<1>10. CASE /\ work' = [work EXCEPT !.at = "approve", !.doomed = new, !.stored = <<>>]
            /\ UNCHANGED troubled
  <2>1. new \in Numbers
    BY <1>5 DEF Numbers
  <2>2. /\ work' \in WorkRow
        /\ work'.at = "approve" /\ work'.cases = work.cases /\ work'.created = work.created
        /\ work'.doomed = new /\ work'.answers = work.answers
        /\ work'.stored = <<>> /\ work'.keys = work.keys /\ work'.batches = work.batches
        /\ work'.pending = work.pending /\ work'.turn = work.turn
    BY <1>1, <1>10, <2>1, RowForm DEF Steps
  <2>3. Continues
    BY <1>1, <1>7, <1>10, <2>2 DEF Continues, ExtractCandidates
  <2>4. TurnsOK'
    BY <1>1, <2>2 DEF EvaluationInv, TurnsOK, Case, ExtractCandidates
  <2>5. \A m : Listed(m, work'.created) \/ Listed(m, work'.stored) \/ Listed(m, work'.doomed) => Mine(m)'
    <3>1. \A m : ~Listed(m, <<>>)
      BY DEF Listed
    <3>2. \A m : Listed(m, work.created) => Mine(m)'
      BY <1>1, <2>3, SameMine DEF EvaluationInv, NotesOK
    <3> QED BY <1>7, <1>8, <2>2, <3>1, <3>2
  <2>6. \A k \in work'.keys : Mine(k[2])
    BY <1>1, <2>2 DEF EvaluationInv, NotesOK
  <2>7. \A m \in DOMAIN row' : row'[m].by = begun /\ row'[m].status \in Live => Noticed(m)'
    <3> SUFFICES ASSUME NEW m \in DOMAIN row', row'[m].by = begun, row'[m].status \in Live
                 PROVE  begun \in troubled \/ Listed(m, work.created) \/ Listed(m, new)
      BY <1>10, <2>2, <2>3 DEF Noticed, Continues
    <3>1. CASE m \in DOMAIN row
      BY <1>1, <1>7, <3>1 DEF EvaluationInv, Owed, Noticed
    <3> QED BY <1>8, <3>1
  <2> QED BY <1>1, <2>2, <2>3, <2>4, <2>5, <2>6, <2>7, SameMine, MovesKeeps
<1> QED BY <1>2, <1>9, <1>10 DEF Answered, new

LEMMA ApproveCandidateKeeps ==
  ASSUME EvaluationInv, ApproveCandidate
  PROVE  EvaluationInv'
<1>1. work # Null /\ work.at = "approve" /\ work \in WorkRow /\ work.doomed # <<>>
  BY AtHand DEF ApproveCandidate, At
<1> DEFINE m0 == Head(work.doomed)
           rest == Tail(work.doomed)
           stored == Append(work.stored, m0)
<1>2. /\ rest \in Numbers /\ m0 \in Nat
      /\ \A m : Listed(m, work.doomed) <=> m = m0 \/ Listed(m, rest)
  BY <1>1, ListedHead DEF WorkRow, Numbers
<1>3. Mine(m0)
  BY <1>1, <1>2 DEF EvaluationInv, NotesOK
<1>4. row' = [row EXCEPT ![m0].status = "active"]
  BY DEF ApproveCandidate
<1>5. /\ Grows /\ DOMAIN row' = DOMAIN row
      /\ \A i \in DOMAIN row : i # m0 => row'[i] = row[i]
      /\ \A i \in DOMAIN row : row'[i].by = row[i].by
  <2> HIDE DEF m0
  <2> QED BY <1>3, <1>4, ChangedRow DEF Live
<1>6. stored \in Numbers /\ \A m : Listed(m, stored) <=> Listed(m, work.stored) \/ m = m0
  <2> DEFINE s == work.stored
  <2>1. s \in Seq(Nat)
    BY <1>1 DEF WorkRow
  <2> HIDE DEF s, m0
  <2>2. Append(s, m0) \in Seq(Nat) /\ \A m : Listed(m, Append(s, m0)) <=> Listed(m, s) \/ m = m0
    BY <1>2, <2>1, ListedAppend
  <2> QED BY <2>2 DEF s, Numbers
<1>7. Answered([work EXCEPT !.doomed = rest, !.stored = stored])
  BY DEF ApproveCandidate
<1> HIDE DEF m0, rest, stored
<1>8. CASE work' = Failed /\ troubled' = troubled \cup {begun}
  BY <1>1, <1>5, <1>8, FailedKeeps DEF ApproveCandidate
<1>9. CASE work' = [work EXCEPT !.doomed = rest, !.stored = stored] /\ UNCHANGED troubled
  <2>1. /\ work' \in WorkRow
        /\ work'.at = "approve" /\ work'.cases = work.cases /\ work'.created = work.created
        /\ work'.doomed = rest /\ work'.answers = work.answers
        /\ work'.stored = stored /\ work'.keys = work.keys /\ work'.batches = work.batches
        /\ work'.pending = work.pending /\ work'.turn = work.turn
    BY <1>1, <1>2, <1>6, <1>9, RowForm
  <2>2. Continues
    BY <1>1, <1>5, <1>9, <2>1 DEF Continues, ApproveCandidate
  <2>3. TurnsOK'
    BY <1>1, <2>1 DEF EvaluationInv, TurnsOK, Case, ApproveCandidate
  <2>4. \A m : Listed(m, work'.created) \/ Listed(m, work'.stored) \/ Listed(m, work'.doomed) => Mine(m)
    BY <1>1, <1>2, <1>3, <1>6, <2>1 DEF EvaluationInv, NotesOK
  <2>5. \A k \in work'.keys : Mine(k[2])
    BY <1>1, <2>1 DEF EvaluationInv, NotesOK
  <2>6. \A m \in DOMAIN row' : row'[m].by = begun /\ row'[m].status \in Live => Noticed(m)'
    <3> SUFFICES ASSUME NEW m \in DOMAIN row', row'[m].by = begun, row'[m].status \in Live
                 PROVE  \/ begun \in troubled
                        \/ Listed(m, work.created) \/ Listed(m, stored) \/ Listed(m, rest)
      BY <1>9, <2>1, <2>2 DEF Noticed, Continues
    <3>1. CASE m # m0
      <4>1. m \in DOMAIN row /\ row[m].by = begun /\ row[m].status \in Live
        BY <1>5, <3>1
      <4> QED BY <1>1, <1>2, <1>6, <3>1, <4>1 DEF EvaluationInv, Owed, Noticed
    <3> QED BY <1>6, <3>1
  <2> QED BY <1>1, <2>1, <2>2, <2>3, <2>4, <2>5, <2>6, SameMine, MovesKeeps
<1> QED BY <1>7, <1>8, <1>9 DEF Answered

LEMMA AllApprovedKeeps ==
  ASSUME EvaluationInv, AllApproved
  PROVE  EvaluationInv'
<1>1. work # Null /\ work.at = "approve" /\ work \in WorkRow /\ work.doomed = <<>>
  BY AtHand DEF AllApproved, At
<1> DEFINE turn == work.turn + 1
<1>2. turn \in Nat /\ turn # 0 /\ \A m : ~Listed(m, <<>>)
  BY <1>1 DEF WorkRow, Listed
<1>3. work' = [work EXCEPT !.at = "turns", !.turn = turn, !.created = Noted, !.stored = <<>>]
  BY DEF AllApproved
<1>4. /\ Noted \in Numbers
      /\ \A m : Listed(m, Noted) <=> Listed(m, work.created) \/ Listed(m, work.stored)
  BY <1>1, NotedListed
<1> HIDE DEF turn
<1>5. /\ work' \in WorkRow
      /\ work'.at = "turns" /\ work'.cases = work.cases /\ work'.created = Noted
      /\ work'.doomed = <<>> /\ work'.answers = work.answers
      /\ work'.stored = <<>> /\ work'.keys = work.keys /\ work'.batches = work.batches
      /\ work'.pending = work.pending /\ work'.turn = turn
  BY <1>1, <1>2, <1>3, <1>4, RowForm DEF Steps
<1>6. Grows
  BY SameGrows DEF AllApproved, storeVars
<1>7. Continues
  BY <1>1, <1>5, <1>6 DEF Continues, AllApproved, historyVars
<1>8. TurnsOK'
  BY <1>1, <1>2, <1>5 DEF EvaluationInv, TurnsOK, Case, AllApproved, historyVars
<1>9. \A m : Listed(m, work'.created) \/ Listed(m, work'.stored) \/ Listed(m, work'.doomed) => Mine(m)
  BY <1>1, <1>2, <1>4, <1>5 DEF EvaluationInv, NotesOK
<1>10. \A k \in work'.keys : Mine(k[2])
  BY <1>1, <1>5 DEF EvaluationInv, NotesOK
<1>11. \A m \in DOMAIN row' : row'[m].by = begun /\ row'[m].status \in Live => Noticed(m)'
  BY <1>1, <1>2, <1>4, <1>5 DEF EvaluationInv, Owed, Noticed, AllApproved, storeVars, historyVars
<1> QED BY <1>1, <1>5, <1>7, <1>8, <1>9, <1>10, <1>11, SameMine, MovesKeeps
-------------------------------------------------------------------------------
(* Requests with several memories. *)

LEMMA StoreBatchKeeps ==
  ASSUME EvaluationInv, StoreBatch
  PROVE  EvaluationInv'
<1> DEFINE batch == Head(work.batches)
           n == Len(batch)
           key(j) == Turns[Case][batch[j]].key
           keyed == {j \in DOMAIN batch : key(j) # Null}
           old == {k[2] : k \in {x \in work.keys : \E j \in keyed : x[1] = key(j)}}
           last == {j \in keyed : \A h \in keyed : key(h) = key(j) => h <= j}
           rest == Tail(work.batches)
           ids == [j \in DOMAIN batch |-> Len(row) + j]
           stored == work.stored \o ids
           keys == {k \in work.keys : k[2] \notin old} \cup {<<key(j), Len(row) + j>> : j \in last}
           before == [m \in DOMAIN row |->
                        IF m \in old THEN [row[m] EXCEPT !.status = "superseded"] ELSE row[m]]
<1>1. /\ work # Null /\ work.at = "store" /\ work \in WorkRow /\ work.batches # <<>>
      /\ Case \in Cases
  BY AtHand DEF StoreBatch, At
<1>2. /\ row' = before \o NewRows(batch, "active")
      /\ Answered([work EXCEPT !.batches = rest, !.stored = stored, !.keys = keys])
      /\ UNCHANGED <<runner, texts, csv, starts, kills, begun, kept>>
  BY DEF StoreBatch, NewRows
<1>3. /\ row \in Seq(MemoryRow) /\ Len(row) \in Nat /\ DOMAIN row = 1 .. Len(row)
      /\ \A m \in DOMAIN row : row[m] \in MemoryRow
  BY DEF EvaluationInv, EvaluationTypeOK
<1>4. /\ batch \in Seq(Nat) /\ n \in Nat /\ DOMAIN batch = 1 .. n
      /\ \A j \in 1 .. n : batch[j] \in DOMAIN Turns[Case]
  <2>1. batch = work.batches[1] /\ 1 \in DOMAIN work.batches /\ batch \in Seq(Nat)
    BY <1>1 DEF WorkRow
  <2>2. \A j \in DOMAIN batch : batch[j] \in DOMAIN Turns[Case]
    BY <1>1, <2>1 DEF EvaluationInv, TurnsOK
  <2> HIDE DEF batch
  <2> QED BY <2>1, <2>2
<1>5. /\ rest \in Requests
      /\ \A i \in DOMAIN rest : i + 1 \in DOMAIN work.batches /\ rest[i] = work.batches[i + 1]
  BY <1>1 DEF WorkRow, Requests
<1>6. \A j \in 1 .. n : key(j) \in Keys
  <2> HIDE DEF batch
  <2> QED BY <1>1, <1>4 DEF Keys
<1>7. /\ work.keys \subseteq Keys \X Nat /\ \A k \in work.keys : Mine(k[2])
      /\ work.stored \in Seq(Nat)
  BY <1>1 DEF WorkRow, EvaluationInv, NotesOK
<1>8. \A m \in old : Mine(m)
  BY <1>7
<1>9. ids \in Seq(Nat) /\ Len(ids) = n
  <2> HIDE DEF batch
  <2>1. ids = [j \in 1 .. n |-> ids[j]] /\ \A j \in 1 .. n : ids[j] \in Nat
    BY <1>3, <1>4
  <2> HIDE DEF ids, n
  <2> QED BY <1>4, <2>1, SeqOfFunction
<1>10. stored \in Numbers /\ \A m : Listed(m, stored) <=> Listed(m, work.stored) \/ Listed(m, ids)
  <2> DEFINE s == work.stored
  <2> HIDE DEF ids, s
  <2>1. s \in Seq(Nat)
    BY <1>7 DEF s
  <2>2. s \o ids \in Seq(Nat) /\ \A m : Listed(m, s \o ids) <=> Listed(m, s) \/ Listed(m, ids)
    BY <1>9, <2>1, ListedConcat
  <2> QED BY <2>2 DEF s, Numbers
<1>11. keys \subseteq Keys \X Nat
  <2>1. \A j \in last : key(j) \in Keys /\ Len(row) + j \in Nat
    <3> HIDE DEF key
    <3> QED BY <1>3, <1>4, <1>6
  <2> HIDE DEF key, last, old
  <2> QED BY <1>7, <2>1
<1>12. /\ before \in Seq(MemoryRow) /\ DOMAIN before = DOMAIN row
       /\ \A m \in DOMAIN row : /\ before[m].by = row[m].by /\ before[m].in = row[m].in
                                /\ row[m].by # begun => before[m] = row[m]
                                /\ before[m].status \in Live => m \in old \/ row[m].status \in Live
  <2>1. \A m \in DOMAIN row :
           LET gone == [row[m] EXCEPT !.status = "superseded"] IN
           gone \in MemoryRow /\ gone.by = row[m].by /\ gone.in = row[m].in
    BY <1>3 DEF MemoryRow, Live
  <2>2. \A m \in DOMAIN row :
           /\ before[m] \in MemoryRow /\ before[m].by = row[m].by /\ before[m].in = row[m].in
           /\ row[m].by # begun => before[m] = row[m]
           /\ before[m].status \in Live => m \in old \/ row[m].status \in Live
    <3> HIDE DEF old
    <3> SUFFICES ASSUME NEW m \in DOMAIN row
                 PROVE  /\ before[m] \in MemoryRow /\ before[m].by = row[m].by
                        /\ before[m].in = row[m].in
                        /\ row[m].by # begun => before[m] = row[m]
                        /\ before[m].status \in Live => m \in old \/ row[m].status \in Live
      OBVIOUS
    <3>1. CASE m \in old
      <4>1. before[m] = [row[m] EXCEPT !.status = "superseded"] /\ row[m].by = begun
        BY <1>8, <3>1 DEF Mine
      <4> HIDE DEF before
      <4> QED BY <2>1, <3>1, <4>1
    <3>2. CASE m \notin old
      <4>1. before[m] = row[m]
        BY <3>2
      <4> HIDE DEF before
      <4> QED BY <1>3, <4>1
    <3> QED BY <3>1, <3>2
  <2>3. before = [m \in 1 .. Len(row) |-> before[m]]
    BY <1>3
  <2> HIDE DEF before, old
  <2>4. before \in Seq(MemoryRow)
    BY <1>3, <2>2, <2>3, SeqOfFunction
  <2> QED BY <1>3, <2>2, <2>3, <2>4
<1> HIDE DEF before, batch
<1>13. /\ Grows
       /\ DOMAIN row' = 1 .. Len(row) + n
       /\ \A m \in DOMAIN row : row'[m] = before[m]
       /\ \A j \in 1 .. n : Len(row) + j \in DOMAIN row' \ DOMAIN row
       /\ \A m \in DOMAIN row' \ DOMAIN row : Mine(m)'
  BY <1>1, <1>2, <1>4, <1>12, AddedRows DEF Live
<1>14. \A m : Listed(m, ids) <=> m \in DOMAIN row' \ DOMAIN row
  <2>1. \A m \in DOMAIN row' \ DOMAIN row : m - Len(row) \in 1 .. n /\ m = Len(row) + (m - Len(row))
    BY <1>3, <1>4, <1>13
  <2>2. \A m \in DOMAIN row' \ DOMAIN row : Listed(m, ids)
    BY <1>4, <2>1 DEF Listed
  <2> QED BY <1>4, <1>13, <2>2 DEF Listed
<1>15. /\ \A k \in keys : k \in work.keys \/ k[2] \in DOMAIN row' \ DOMAIN row
       /\ \A k \in work.keys : Listed(k[2], work.stored)
  <2>1. \A j \in last : Len(row) + j \in DOMAIN row' \ DOMAIN row
    BY <1>4, <1>13
  <2>2. \A k \in work.keys : Listed(k[2], work.stored)
    BY <1>1 DEF EvaluationInv, TurnsOK
  <2> HIDE DEF key, last, old
  <2> QED BY <2>1, <2>2
<1> HIDE DEF ids, keys, stored, rest, n
<1>17. CASE work' = Failed /\ troubled' = troubled \cup {begun}
  BY <1>1, <1>2, <1>13, <1>17, FailedKeeps
<1>18. CASE /\ work' = [work EXCEPT !.batches = rest, !.stored = stored, !.keys = keys]
            /\ UNCHANGED troubled
  <2>1. /\ work' \in WorkRow
        /\ work'.at = "store" /\ work'.cases = work.cases /\ work'.created = work.created
        /\ work'.doomed = work.doomed /\ work'.answers = work.answers
        /\ work'.stored = stored /\ work'.keys = keys /\ work'.batches = rest
        /\ work'.pending = work.pending /\ work'.turn = work.turn
    <3>1. keys \in SUBSET (Keys \X Nat)
      BY <1>11
    <3> QED BY <1>1, <1>5, <1>10, <1>18, <3>1, RowForm
  <2>2. Continues
    BY <1>1, <1>2, <1>13, <1>18, <2>1 DEF Continues
  <2>3. TurnsOK'
    <3>1. \A i \in DOMAIN rest : \A j \in DOMAIN rest[i] : rest[i][j] \in DOMAIN Turns[Case]
      BY <1>1, <1>5 DEF EvaluationInv, TurnsOK
    <3>2. \A k \in keys : Listed(k[2], stored)
      BY <1>10, <1>14, <1>15
    <3> QED BY <1>1, <1>2, <2>1, <3>1, <3>2 DEF EvaluationInv, TurnsOK, Case
  <2>4. \A m : Listed(m, work'.created) \/ Listed(m, work'.stored) \/ Listed(m, work'.doomed) => Mine(m)'
    <3>1. \A m : Listed(m, work.created) \/ Listed(m, work.stored) \/ Listed(m, work.doomed) => Mine(m)'
      BY <1>1, <2>2, SameMine DEF EvaluationInv, NotesOK
    <3> QED BY <1>10, <1>13, <1>14, <2>1, <3>1
  <2>5. \A k \in work'.keys : Mine(k[2])'
    <3> SUFFICES ASSUME NEW k \in keys PROVE Mine(k[2])'
      BY <2>1
    <3>1. CASE k \in work.keys
      BY <1>7, <2>2, <3>1, SameMine
    <3>2. CASE k[2] \in DOMAIN row' \ DOMAIN row
      BY <1>13, <3>2
    <3> QED BY <1>15, <3>1, <3>2
  <2>6. \A m \in DOMAIN row' : row'[m].by = begun /\ row'[m].status \in Live => Noticed(m)'
    <3> SUFFICES ASSUME NEW m \in DOMAIN row', row'[m].by = begun, row'[m].status \in Live
                 PROVE  begun \in troubled \/ Listed(m, work.created) \/ Listed(m, stored)
      BY <1>18, <2>1, <2>2 DEF Noticed, Continues
    <3>1. CASE m \in DOMAIN row /\ row[m].status \in Live
      BY <1>1, <1>10, <1>12, <1>13, <3>1 DEF EvaluationInv, Owed, Noticed
    <3>2. CASE m \in old
      BY <1>10, <1>15, <3>2
    <3>3. CASE m \notin DOMAIN row
      BY <1>10, <1>14, <3>3
    <3> QED BY <1>12, <1>13, <3>1, <3>2, <3>3
  <2> QED BY <1>1, <2>1, <2>2, <2>3, <2>4, <2>5, <2>6, MovesKeeps
<1> QED BY <1>2, <1>17, <1>18 DEF Answered
-------------------------------------------------------------------------------
(* The answers and the clean-up. *)

LEMMA AskKeeps ==
  ASSUME EvaluationInv, Ask
  PROVE  EvaluationInv'
<1>1. /\ work # Null /\ work.at = "ask" /\ work \in WorkRow
      /\ Config.grouped \in BOOLEAN /\ Config.isolate \in BOOLEAN /\ Config.cleanup \in BOOLEAN
  BY AtHand DEF Ask, At
<1>2. PICK error \in BOOLEAN :
        LET asked == [work EXCEPT !.answers = Results(error)] IN
        /\ work' = IF Len(asked.answers) = Len(work.cases) THEN CleaningUp(asked) ELSE asked
        /\ troubled' = IF error THEN troubled \cup {begun} ELSE troubled
  BY DEF Ask
<1> DEFINE answers == Results(error)
           asked == [work EXCEPT !.answers = answers]
<1>3. /\ work.cases \in Seq(Cases) /\ work.answers \in Seq(ResultRow)
      /\ Len(work.answers) < Len(work.cases)
      /\ \A i \in DOMAIN work.answers : work.answers[i].case = work.cases[i]
  BY <1>1 DEF WorkRow, EvaluationInv, AnswersOK
<1>4. /\ answers \in Seq(ResultRow) /\ Len(answers) = Len(work.answers) + 1
      /\ \A i \in DOMAIN answers : answers[i].case = work.cases[i]
  <2> DEFINE c == work.cases[Len(work.answers) + 1]
             new == [case |-> c, error |-> error]
             a == work.answers
  <2>1. c \in Cases
    BY <1>3
  <2>2. new \in ResultRow /\ new.case = c
    BY <2>1 DEF ResultRow
  <2>3. answers = Append(a, new) /\ a \in Seq(ResultRow)
    BY <1>3 DEF Results
  <2> HIDE DEF new, a, c, answers
  <2>4. /\ answers \in Seq(ResultRow) /\ Len(answers) = Len(a) + 1
        /\ DOMAIN answers = 1 .. Len(a) + 1 /\ answers[Len(a) + 1] = new
        /\ \A i \in 1 .. Len(a) : answers[i] = a[i] /\ i \in DOMAIN a
        /\ Len(a) \in Nat
    BY <2>2, <2>3
  <2>5. \A i \in 1 .. Len(a) + 1 : i \in 1 .. Len(a) \/ i = Len(a) + 1
    BY <2>4
  <2> QED BY <1>3, <2>2, <2>4, <2>5 DEF a, c
<1> HIDE DEF answers
<1>5. /\ asked \in WorkRow /\ asked.answers = answers
      /\ asked.at = "ask" /\ asked.cases = work.cases /\ asked.created = work.created
      /\ asked.doomed = work.doomed
      /\ asked.stored = work.stored /\ asked.keys = work.keys /\ asked.batches = work.batches
      /\ asked.pending = work.pending /\ asked.turn = work.turn
  <2>1. answers \in Answers
    BY <1>4 DEF Answers
  <2> QED BY <1>1, <2>1, RowForm DEF Steps
<1>6. work' = IF Len(answers) = Len(work.cases) THEN CleaningUp(asked) ELSE asked
  BY <1>2, <1>5 DEF answers
<1> HIDE DEF asked
<1>7. /\ work' \in WorkRow /\ work'.answers = answers
      /\ work'.cases = work.cases /\ work'.created = work.created
      /\ work'.stored = work.stored /\ work'.keys = work.keys /\ work'.batches = work.batches
      /\ work'.pending = work.pending /\ work'.turn = work.turn
      /\ IF Len(answers) = Len(work.cases)
         THEN /\ work'.at = "clean_up"
              /\ work'.doomed = IF Config.cleanup /\ ~Config.isolate THEN work.created ELSE <<>>
         ELSE work'.at = "ask" /\ work'.doomed = work.doomed
  <2>1. CASE Len(answers) = Len(work.cases)
    BY <1>5, <1>6, <2>1, CleaningUpRow
  <2>2. CASE Len(answers) # Len(work.cases)
    BY <1>5, <1>6, <2>2
  <2> QED BY <2>1, <2>2
<1>8. Grows
  BY SameGrows DEF Ask, storeVars
<1>9. Continues
  BY <1>1, <1>2, <1>7, <1>8 DEF Continues, Ask
<1>10. TurnsOK'
  BY <1>1, <1>7 DEF EvaluationInv, TurnsOK, Case, Ask
<1>11. AnswersOK'
  BY <1>1, <1>3, <1>4, <1>7, <1>9 DEF EvaluationInv, AnswersOK, Continues, Config
<1>12. \A m : Listed(m, work'.created) \/ Listed(m, work'.stored) \/ Listed(m, work'.doomed) => Mine(m)
  <2>1. \A m : ~Listed(m, <<>>)
    BY DEF Listed
  <2> QED BY <1>1, <1>7, <2>1 DEF EvaluationInv, NotesOK
<1>13. \A k \in work'.keys : Mine(k[2])
  BY <1>1, <1>7 DEF EvaluationInv, NotesOK
<1>14. \A m \in DOMAIN row' : row'[m].by = begun /\ row'[m].status \in Live => Noticed(m)'
  BY <1>1, <1>7, <1>9 DEF EvaluationInv, Owed, Noticed, Ask, storeVars, Config, Continues
<1> QED BY <1>9, <1>10, <1>11, <1>12, <1>13, <1>14, SameMine, ContinuesKeeps

LEMMA CleanMemoryKeeps ==
  ASSUME EvaluationInv, CleanMemory
  PROVE  EvaluationInv'
<1>1. work # Null /\ work.at = "clean_up" /\ work \in WorkRow /\ work.doomed # <<>>
  BY AtHand DEF CleanMemory, At
<1> DEFINE m0 == Head(work.doomed)
           rest == Tail(work.doomed)
<1>2. rest \in Numbers /\ \A m : Listed(m, work.doomed) <=> m = m0 \/ Listed(m, rest)
  BY <1>1, ListedHead DEF WorkRow, Numbers
<1>3. Mine(m0)
  BY <1>1, <1>2 DEF EvaluationInv, NotesOK
<1>4. /\ row' = [row EXCEPT ![m0].status = "archived"]
      /\ work' = [work EXCEPT !.doomed = rest]
  BY DEF CleanMemory, Archive
<1> HIDE DEF m0, rest
<1>5. /\ Grows /\ DOMAIN row' = DOMAIN row
      /\ row'[m0].status = "archived"
      /\ \A i \in DOMAIN row : i # m0 => row'[i] = row[i]
      /\ \A i \in DOMAIN row : row'[i].by = row[i].by
  BY <1>3, <1>4, ChangedRow
<1>6. /\ work' \in WorkRow
      /\ work'.at = "clean_up" /\ work'.cases = work.cases /\ work'.created = work.created
      /\ work'.doomed = rest /\ work'.answers = work.answers
      /\ work'.stored = work.stored /\ work'.keys = work.keys /\ work'.batches = work.batches
      /\ work'.pending = work.pending /\ work'.turn = work.turn
  BY <1>1, <1>2, <1>4, RowForm
<1>7. Continues
  BY <1>1, <1>5, <1>6 DEF Continues, CleanMemory, historyVars
<1>8. TurnsOK'
  BY <1>1, <1>6 DEF EvaluationInv, TurnsOK, Case, CleanMemory, historyVars
<1>9. AnswersOK'
  BY <1>1, <1>6, <1>7 DEF EvaluationInv, AnswersOK, Continues, Config
<1>10. \A m : Listed(m, work'.created) \/ Listed(m, work'.stored) \/ Listed(m, work'.doomed) => Mine(m)
  BY <1>1, <1>2, <1>6 DEF EvaluationInv, NotesOK
<1>11. \A k \in work'.keys : Mine(k[2])
  BY <1>1, <1>6 DEF EvaluationInv, NotesOK
<1>12. \A m \in DOMAIN row' : row'[m].by = begun /\ row'[m].status \in Live => Noticed(m)'
  <2> SUFFICES ASSUME NEW m \in DOMAIN row', row'[m].by = begun, row'[m].status \in Live
               PROVE  begun \in troubled \/ Config.isolate \/ ~Config.cleanup \/ Listed(m, rest)
    BY <1>6, <1>7 DEF Noticed, Continues, CleanMemory, historyVars, Config
  <2>1. m # m0 /\ m \in DOMAIN row /\ row[m].by = begun /\ row[m].status \in Live
    BY <1>5 DEF Live
  <2> QED BY <1>1, <1>2, <2>1 DEF EvaluationInv, Owed, Noticed
<1> QED BY <1>7, <1>8, <1>9, <1>10, <1>11, <1>12, SameMine, ContinuesKeeps

LEMMA FailCleaningKeeps ==
  ASSUME EvaluationInv, FailCleaning
  PROVE  EvaluationInv'
<1>1. /\ work # Null /\ work.at = "clean_up" /\ work \in WorkRow
      /\ Config.grouped \in BOOLEAN /\ Config.isolate \in BOOLEAN /\ begun # 0
  BY AtHand DEF FailCleaning, At, EvaluationInv, TurnsOK
<1> DEFINE answers == IF Config.grouped THEN <<>> ELSE work.answers
<1>2. answers \in Answers
  BY <1>1 DEF Answers, WorkRow
<1>3. work' = [work EXCEPT !.at = "record", !.doomed = <<>>, !.answers = answers]
  BY DEF FailCleaning
<1> HIDE DEF answers
<1>4. /\ work' \in WorkRow
      /\ work'.at = "record" /\ work'.cases = work.cases /\ work'.created = work.created
      /\ work'.doomed = <<>> /\ work'.answers = answers
      /\ work'.stored = work.stored /\ work'.keys = work.keys /\ work'.batches = work.batches
      /\ work'.pending = work.pending /\ work'.turn = work.turn
  BY <1>1, <1>2, <1>3, RowForm DEF Steps
<1>5. Grows
  BY SameGrows DEF FailCleaning, storeVars
<1>6. Continues
  BY <1>1, <1>4, <1>5 DEF Continues, FailCleaning
<1>7. TurnsOK'
  BY <1>1, <1>4 DEF EvaluationInv, TurnsOK, Case, FailCleaning
<1>8. AnswersOK'
  BY <1>1, <1>4, <1>6 DEF EvaluationInv, AnswersOK, Continues, Config, answers
<1>9. \A m : Listed(m, work'.created) \/ Listed(m, work'.stored) \/ Listed(m, work'.doomed) => Mine(m)
  <2>1. \A m : ~Listed(m, <<>>)
    BY DEF Listed
  <2> QED BY <1>1, <1>4, <2>1 DEF EvaluationInv, NotesOK
<1>10. \A k \in work'.keys : Mine(k[2])
  BY <1>1, <1>4 DEF EvaluationInv, NotesOK
<1>11. \A m \in DOMAIN row' : row'[m].by = begun /\ row'[m].status \in Live => Noticed(m)'
  <2>1. begun \in troubled' /\ (Config.isolate => begun \in kept') /\ row' = row
    BY DEF FailCleaning, storeVars
  <2>2. \A m \in DOMAIN row : row[m].by = begun => row[m].in = Workspace
    BY <1>1 DEF EvaluationInv, NotesOK, Mine
  <2> QED BY <1>1, <1>4, <2>1, <2>2 DEF Noticed, Workspace
<1> QED BY <1>6, <1>7, <1>8, <1>9, <1>10, <1>11, SameMine, ContinuesKeeps

LEMMA CleanedKeeps ==
  ASSUME EvaluationInv, Cleaned
  PROVE  EvaluationInv'
<1>1. /\ work # Null /\ work.at = "clean_up" /\ work \in WorkRow /\ work.doomed = <<>>
      /\ Config.cleanup \in BOOLEAN /\ Config.isolate \in BOOLEAN /\ begun # 0
  BY AtHand DEF Cleaned, At, EvaluationInv, TurnsOK
<1> DEFINE gone == Config.isolate /\ Config.cleanup
<1>2. /\ row' = [m \in DOMAIN row |-> IF gone /\ row[m].by = begun
                                      THEN [row[m] EXCEPT !.status = "gone"] ELSE row[m]]
      /\ work' = [work EXCEPT !.at = "record"]
      /\ troubled' = IF Config.cleanup THEN troubled ELSE troubled \cup {begun}
      /\ kept' = IF Config.cleanup \/ ~Config.isolate THEN kept ELSE kept \cup {begun}
      /\ UNCHANGED <<runner, csv, starts, kills, begun>>
  BY DEF Cleaned
<1> HIDE DEF gone
<1>3. /\ work' \in WorkRow
      /\ work'.at = "record" /\ work'.cases = work.cases /\ work'.created = work.created
      /\ work'.doomed = <<>> /\ work'.answers = work.answers
      /\ work'.stored = work.stored /\ work'.keys = work.keys /\ work'.batches = work.batches
      /\ work'.pending = work.pending /\ work'.turn = work.turn
  BY <1>1, <1>2, RowForm DEF Steps
<1>4. /\ row \in Seq(MemoryRow) /\ DOMAIN row = 1 .. Len(row) /\ Len(row) \in Nat
      /\ \A m \in DOMAIN row : row[m] \in MemoryRow
  BY DEF EvaluationInv, EvaluationTypeOK
<1>5. \A m \in DOMAIN row :
         /\ row'[m] \in MemoryRow /\ row'[m].by = row[m].by /\ row'[m].in = row[m].in
         /\ row[m].by # begun => row'[m] = row[m]
         /\ row[m].by = begun /\ row'[m].status \in Live => ~gone /\ row[m].status \in Live
  <2> SUFFICES ASSUME NEW m \in DOMAIN row
               PROVE  /\ row'[m] \in MemoryRow /\ row'[m].by = row[m].by
                      /\ row'[m].in = row[m].in
                      /\ row[m].by # begun => row'[m] = row[m]
                      /\ row[m].by = begun /\ row'[m].status \in Live
                            => ~gone /\ row[m].status \in Live
    OBVIOUS
  <2>1. CASE gone /\ row[m].by = begun
    <3>1. row'[m] = [row[m] EXCEPT !.status = "gone"] /\ row[m] \in MemoryRow
      BY <1>2, <1>4, <2>1
    <3>2. /\ row'[m] \in MemoryRow /\ row'[m].by = row[m].by /\ row'[m].in = row[m].in
          /\ row'[m].status = "gone"
      BY <3>1 DEF MemoryRow
    <3> QED BY <2>1, <3>2 DEF Live
  <2>2. CASE ~(gone /\ row[m].by = begun)
    <3>1. row'[m] = row[m]
      BY <1>2, <2>2
    <3> QED BY <1>4, <2>2, <3>1
  <2> QED BY <2>1, <2>2
<1>6. Grows
  <2>1. row' = [m \in 1 .. Len(row) |-> row'[m]]
    BY <1>2, <1>4
  <2>2. row' \in Seq(MemoryRow)
    BY <1>4, <1>5, <2>1, SeqOfFunction
  <2> QED BY <1>4, <1>5, <2>1, <2>2 DEF Grows
<1>7. Continues
  BY <1>1, <1>2, <1>3, <1>6 DEF Continues
<1>8. TurnsOK'
  BY <1>1, <1>2, <1>3 DEF EvaluationInv, TurnsOK, Case
<1>9. AnswersOK'
  BY <1>1, <1>3, <1>7 DEF EvaluationInv, AnswersOK, Continues, Config
<1>10. \A m : Listed(m, work'.created) \/ Listed(m, work'.stored) \/ Listed(m, work'.doomed) => Mine(m)
  BY <1>1, <1>3 DEF EvaluationInv, NotesOK
<1>11. \A k \in work'.keys : Mine(k[2])
  BY <1>1, <1>3 DEF EvaluationInv, NotesOK
<1>12. \A m \in DOMAIN row' : row'[m].by = begun /\ row'[m].status \in Live => Noticed(m)'
  <2> SUFFICES ASSUME NEW m \in DOMAIN row', row'[m].by = begun, row'[m].status \in Live
               PROVE  row'[m].by \in IF row'[m].in = 0 THEN troubled' ELSE kept'
    BY <1>2, <1>3 DEF Noticed
  <2>1. /\ m \in DOMAIN row /\ row[m].by = begun /\ row[m].status \in Live /\ ~gone
        /\ row'[m].in = row[m].in
    BY <1>2, <1>5
  <2>2. row[m].in = Workspace
    BY <1>1, <2>1 DEF EvaluationInv, NotesOK, Mine
  <2>3. begun \in troubled \/ Config.isolate \/ ~Config.cleanup
    BY <1>1, <2>1 DEF EvaluationInv, Owed, Noticed, Listed
  <2> QED BY <1>1, <1>2, <2>1, <2>2, <2>3 DEF Workspace, gone
<1> QED BY <1>7, <1>8, <1>9, <1>10, <1>11, <1>12, SameMine, ContinuesKeeps
-------------------------------------------------------------------------------
(* Between two cases. *)

\* What is in the output stays in order when the next case is added, and nothing is
\* missing before it.
LEMMA RecordKeepsOrder ==
  ASSUME EvaluationInv, Record
  PROVE  csv' \in Seq(ResultRow) /\ runner' \in RunnerRow /\ OrderOK'
<1>1. /\ work # Null /\ work.at = "record" /\ work \in WorkRow /\ Config.grouped \in BOOLEAN
      /\ runner # Null /\ runner \in RunnerRow
  BY AtHand DEF Record, At
<1>2. /\ csv \in Seq(ResultRow) /\ work.answers \in Seq(ResultRow)
      /\ Dataset \in Seq(Cases) /\ runner.left \subseteq DOMAIN Dataset
  BY <1>1, DatasetAssumption DEF WorkRow, RunnerRow, EvaluationInv, EvaluationTypeOK
<1>3. /\ runner.left # {}
      /\ work.cases = IF Config.grouped THEN Dataset ELSE <<Dataset[Min(runner.left)]>>
      /\ \A i \in DOMAIN work.answers : work.answers[i].case = work.cases[i]
      /\ Len(work.answers) = Len(work.cases) \/ (Config.grouped /\ work.answers = <<>>)
  BY <1>1 DEF EvaluationInv, AnswersOK
<1>4. OrderOK
  BY DEF EvaluationInv
<1>5. CASE ~Config.grouped
  <2> DEFINE k == Min(runner.left)
             n == Len(csv)
             new == work.answers[1]
  <2>1. runner' = [runner EXCEPT !.left = @ \ {k}] /\ csv' = csv \o work.answers
    BY <1>5 DEF Record, RecordCase, RecordGroup
  <2>2. k \in runner.left /\ \A l \in runner.left : k <= l
    <3>1. runner.left \subseteq Nat /\ runner.left # {}
      BY <1>2, <1>3
    <3> QED BY <3>1, MinOfPositions
  <2> HIDE DEF k
  <2>3. Len(work.answers) = 1 /\ new \in ResultRow /\ new.case = Dataset[k]
    <3>1. work.cases = <<Dataset[k]>>
      BY <1>3, <1>5 DEF k
    <3>2. Len(work.answers) = 1
      BY <1>3, <1>5, <3>1
    <3>3. 1 \in DOMAIN work.answers
      BY <1>2, <3>2
    <3> QED BY <1>2, <1>3, <3>1, <3>2, <3>3
  <2>4. /\ csv' \in Seq(ResultRow) /\ DOMAIN csv' = 1 .. n + 1 /\ csv'[n + 1] = new
        /\ n \in Nat /\ DOMAIN csv = 1 .. n
        /\ \A i \in 1 .. n : csv'[i] = csv[i] /\ i \in 1 .. n + 1
        /\ \A i \in 1 .. n + 1 : i \in 1 .. n \/ i = n + 1
    <3> DEFINE a == work.answers
    <3>1. a \in Seq(ResultRow) /\ Len(a) = 1 /\ csv' = csv \o a
      BY <1>2, <2>1, <2>3
    <3> HIDE DEF a
    <3>2. /\ csv \o a \in Seq(ResultRow) /\ DOMAIN (csv \o a) = 1 .. Len(csv) + Len(a)
          /\ \A i \in 1 .. Len(csv) : (csv \o a)[i] = csv[i]
          /\ (csv \o a)[Len(csv) + 1] = a[1]
      <4>1. csv \in Seq(ResultRow) /\ a \in Seq(ResultRow)
        BY <1>2, <3>1
      <4>2. csv \o a \in Seq(ResultRow) /\ DOMAIN (csv \o a) = 1 .. Len(csv) + Len(a)
        BY ONLY <4>1, ConcatParts
      <4>3. \A i \in 1 .. Len(csv) : (csv \o a)[i] = csv[i]
        BY ONLY <4>1, ConcatParts
      <4>4. \A i \in 1 .. Len(a) : (csv \o a)[Len(csv) + i] = a[i]
        BY ONLY <4>1, ConcatParts
      <4> QED BY <3>1, <4>2, <4>3, <4>4
    <3> QED BY <1>2, <3>1, <3>2 DEF a
  <2> HIDE DEF new
  <2>5. runner' \in RunnerRow /\ runner'.left = runner.left \ {k} /\ runner'.config = runner.config
    BY <1>1, <2>1 DEF RunnerRow
  <2>6. Completed' = Completed \cup {Dataset[k]}
    <3> HIDE DEF n
    <3> QED BY <2>3, <2>4 DEF Completed
  <2>7. /\ \A i \in DOMAIN csv, l \in runner.left : Before(csv[i].case, l)
        /\ \A l \in DOMAIN Dataset : Dataset[l] \in Completed \/ l \in runner.left
    BY <1>1, <1>4, <1>5 DEF OrderOK
  <2>8. \A l \in runner.left \ {k} : k < l
    BY <1>2, <2>2
  <2>9. \A i \in DOMAIN csv', l \in runner'.left : Before(csv'[i].case, l)
    <3> SUFFICES ASSUME NEW i \in DOMAIN csv', NEW l \in runner.left, l # k
                 PROVE  Before(csv'[i].case, l)
      BY <2>5
    <3>1. CASE i \in 1 .. n
      BY <2>4, <2>7, <3>1
    <3>2. CASE i = n + 1
      BY <1>2, <2>2, <2>3, <2>4, <2>8, <3>2 DEF Before
    <3> QED BY <2>4, <3>1, <3>2
  <2>10. \A l \in DOMAIN Dataset : Dataset[l] \in Completed' \/ l \in runner'.left
    BY <2>5, <2>6, <2>7
  <2>11. \A i, j \in DOMAIN csv' : i < j =>
           \E h, l \in DOMAIN Dataset :
              h < l /\ csv'[i].case = Dataset[h] /\ csv'[j].case = Dataset[l]
    <3> SUFFICES ASSUME NEW i \in DOMAIN csv', NEW j \in DOMAIN csv', i < j
                 PROVE  \E h, l \in DOMAIN Dataset :
                           h < l /\ csv'[i].case = Dataset[h] /\ csv'[j].case = Dataset[l]
      OBVIOUS
    <3>1. i \in 1 .. n
      BY <2>4
    <3>2. CASE j \in 1 .. n
      BY <1>4, <2>4, <3>1, <3>2 DEF OrderOK
    <3>3. CASE j = n + 1
      <4>1. Before(csv[i].case, k)
        BY <2>2, <2>4, <2>7, <3>1
      <4> QED BY <1>2, <2>2, <2>3, <2>4, <3>1, <3>3, <4>1 DEF Before
    <3> QED BY <2>4, <3>2, <3>3
  <2>12. \A l \in DOMAIN Dataset :
            Dataset[l] \in Completed' \/ \A i \in DOMAIN csv' : Before(csv'[i].case, l)
    BY <2>9, <2>10
  <2> QED BY <2>4, <2>5, <2>9, <2>10, <2>11, <2>12 DEF OrderOK, Before
<1>6. CASE Config.grouped
  <2>1. /\ runner' = [runner EXCEPT !.left = {}]
        /\ csv' = IF work.answers # <<>> THEN work.answers ELSE csv
    BY <1>6 DEF Record, RecordCase, RecordGroup
  <2>2. runner' \in RunnerRow /\ runner'.left = {} /\ runner'.config = runner.config
    BY <1>1, <2>1 DEF RunnerRow
  <2>3. Config'.grouped
    BY <1>6, <2>2 DEF Config
  <2>4. CASE work.answers = <<>>
    <3>1. csv' = csv
      BY <2>1, <2>4
    <3> QED BY <1>2, <1>4, <2>2, <2>3, <3>1 DEF OrderOK, Completed, Before
  <2>5. CASE work.answers # <<>>
    <3>1. csv' = work.answers /\ DOMAIN csv' = DOMAIN Dataset
      BY <1>2, <1>3, <1>6, <2>1, <2>5
    <3>2. \A i \in DOMAIN csv' : csv'[i].case = Dataset[i]
      BY <1>3, <1>6, <3>1
    <3>3. \A l \in DOMAIN Dataset : Dataset[l] \in Completed'
      BY <3>1, <3>2 DEF Completed
    <3>4. \A i, j \in DOMAIN csv' : i < j =>
            \E h, l \in DOMAIN Dataset :
               h < l /\ csv'[i].case = Dataset[h] /\ csv'[j].case = Dataset[l]
      BY <3>1, <3>2
    <3> QED BY <1>2, <2>2, <2>3, <3>1, <3>3, <3>4 DEF OrderOK
  <2> QED BY <2>4, <2>5
<1> QED BY <1>1, <1>5, <1>6

LEMMA RecordKeeps ==
  ASSUME EvaluationInv, Record
  PROVE  EvaluationInv'
<1>1. csv' \in Seq(ResultRow) /\ runner' \in RunnerRow /\ OrderOK'
  BY RecordKeepsOrder
<1>2. work # Null /\ work.at = "record" /\ work' = Null /\ UNCHANGED <<storeVars, historyVars>>
  BY DEF Record, At
<1>3. EvaluationTypeOK'
  BY <1>1, <1>2 DEF EvaluationInv, EvaluationTypeOK, storeVars, historyVars
<1>4. TurnsOK' /\ NotesOK' /\ AnswersOK'
  BY <1>2 DEF TurnsOK, NotesOK, AnswersOK
<1>5. Owed'
  BY <1>2 DEF EvaluationInv, Owed, Noticed, storeVars, historyVars
<1> QED BY <1>1, <1>3, <1>4, <1>5 DEF EvaluationInv

LEMMA BeginCaseKeeps ==
  ASSUME EvaluationInv, BeginCase
  PROVE  EvaluationInv'
<1>1. /\ runner # Null /\ runner \in RunnerRow /\ work = Null /\ runner.left # {}
      /\ begun \in Nat /\ begun' = begun + 1
      /\ UNCHANGED <<runner, storeVars, csv, starts, kills, troubled, kept>>
  BY DEF BeginCase, EvaluationInv, EvaluationTypeOK
<1>2. Dataset \in Seq(Cases) /\ runner.left \subseteq DOMAIN Dataset /\ Config.grouped \in BOOLEAN
  BY <1>1, DatasetAssumption, EvaluationAssumption DEF RunnerRow, Config, CommandLines
<1> DEFINE cases == IF Config.grouped THEN Dataset ELSE <<Dataset[Min(runner.left)]>>
<1>3. cases \in Seq(Cases) /\ Len(cases) \in Nat /\ cases # <<>> /\ Len(cases) # 0
  <2>1. Min(runner.left) \in DOMAIN Dataset
    BY <1>1, <1>2, MinOfPositions
  <2>2. Dataset # <<>> /\ Len(Dataset) # 0
    BY <1>2, <2>1
  <2>3. Dataset[Min(runner.left)] \in Cases
    BY <1>2, <2>1
  <2> QED BY <1>2, <2>2, <2>3
<1>4. work' = [cases |-> cases, at |-> "open", turn |-> 1, pending |-> <<>>, batches |-> <<>>,
               keys |-> {}, stored |-> <<>>, created |-> <<>>, doomed |-> <<>>, answers |-> <<>>]
  BY DEF BeginCase
<1> HIDE DEF cases
<1>5. work' \in WorkRow
  <2>1. cases \in Groups /\ <<>> \in Requests /\ <<>> \in Answers
    BY <1>3 DEF Groups, Requests, Answers
  <2> QED BY <1>4, <2>1, RowForm DEF Steps
<1>6. \A m \in DOMAIN row : row[m].by \in 1 .. begun
  BY DEF EvaluationInv, EvaluationTypeOK
<1>7. EvaluationTypeOK'
  BY <1>1, <1>4, <1>5, <1>6 DEF EvaluationInv, EvaluationTypeOK, storeVars
<1>8. TurnsOK'
  BY <1>1, <1>3, <1>4 DEF TurnsOK
<1>9. NotesOK'
  BY <1>1, <1>4, <1>6 DEF NotesOK, Listed, storeVars
<1>10. Owed'
  BY <1>1, <1>6 DEF EvaluationInv, Owed, storeVars
<1>11. AnswersOK'
  BY <1>1, <1>3, <1>4 DEF AnswersOK, Config, cases
<1>12. OrderOK'
  BY <1>1 DEF EvaluationInv, OrderOK, Completed, Config, Before
<1> QED BY <1>7, <1>8, <1>9, <1>10, <1>11, <1>12 DEF EvaluationInv

LEMMA StartKeeps ==
  ASSUME EvaluationInv, NEW config \in Configs, Start(config)
  PROVE  EvaluationInv'
<1>1. /\ runner = Null /\ work = Null /\ starts' = starts + 1 /\ starts < MaxStarts
      /\ UNCHANGED <<work, storeVars, kills, begun, troubled, kept>>
      /\ config.grouped \in BOOLEAN /\ config.resume \in BOOLEAN
  BY EvaluationAssumption
     DEF Start, StartRun, StartGroup, Runner, EvaluationInv, EvaluationTypeOK, CommandLines
<1>2. starts' \in 0 .. MaxStarts
  BY <1>1, EvaluationAssumption DEF EvaluationInv, EvaluationTypeOK
<1>3. csv' \in Seq(ResultRow) /\ runner' \in RunnerRow /\ OrderOK'
  <2>1. OrderOK /\ csv \in Seq(ResultRow)
    BY DEF EvaluationInv, EvaluationTypeOK
  <2>2. CASE ~config.grouped
    <3> DEFINE left == {i \in DOMAIN Dataset : ~(config.resume /\ Dataset[i] \in Completed)}
    <3>1. /\ runner' = [config |-> config, left |-> left]
          /\ csv' = IF config.resume THEN csv ELSE <<>>
      BY <2>2 DEF Start, StartRun, StartGroup, Runner
    <3>2. runner' \in RunnerRow /\ runner'.left = left /\ runner'.config = config
      BY <3>1 DEF RunnerRow
    <3>3. csv' \in Seq(ResultRow)
      BY <2>1, <3>1
    <3>4. CASE config.resume
      <4>1. csv' = csv
        BY <3>1, <3>4
      <4> QED BY <2>1, <3>2, <3>3, <3>4, <4>1 DEF OrderOK, Completed, Before, Config
    <3>5. CASE ~config.resume
      <4>1. csv' = <<>> /\ left = DOMAIN Dataset
        BY <3>1, <3>5
      <4> QED BY <3>2, <3>3, <4>1 DEF OrderOK, Before
    <3> QED BY <1>1, <3>4, <3>5
  <2>3. CASE config.grouped
    <3>1. runner' = [config |-> config, left |-> DOMAIN Dataset] /\ csv' = csv
      BY <2>3 DEF Start, StartRun, StartGroup, Runner
    <3>2. runner' \in RunnerRow /\ runner'.config = config
      BY <3>1 DEF RunnerRow
    <3> QED BY <2>1, <2>3, <3>1, <3>2 DEF OrderOK, Completed, Before, Config
  <2> QED BY <1>1, <2>2, <2>3
<1>4. EvaluationTypeOK'
  BY <1>1, <1>2, <1>3 DEF EvaluationInv, EvaluationTypeOK, storeVars
<1>5. TurnsOK' /\ NotesOK' /\ AnswersOK'
  BY <1>1 DEF TurnsOK, NotesOK, AnswersOK
<1>6. Owed'
  BY <1>1 DEF EvaluationInv, Owed, storeVars
<1> QED BY <1>3, <1>4, <1>5, <1>6 DEF EvaluationInv

LEMMA FinishKeeps ==
  ASSUME EvaluationInv, Finish
  PROVE  EvaluationInv'
<1>1. /\ runner' = Null /\ work = Null /\ UNCHANGED <<work, storeVars, csv, historyVars>>
  BY DEF Finish
<1>2. EvaluationTypeOK' /\ TurnsOK' /\ NotesOK' /\ AnswersOK'
  BY <1>1 DEF EvaluationInv, EvaluationTypeOK, TurnsOK, NotesOK, AnswersOK, storeVars, historyVars
<1>3. Owed'
  BY <1>1 DEF EvaluationInv, Owed, storeVars, historyVars
<1>4. OrderOK'
  BY <1>1 DEF EvaluationInv, OrderOK, Completed, Before
<1> QED BY <1>2, <1>3, <1>4 DEF EvaluationInv

LEMMA KillKeeps ==
  ASSUME EvaluationInv, Kill
  PROVE  EvaluationInv'
<1>1. /\ runner # Null /\ kills < MaxKills /\ kills' = kills + 1 /\ runner' = Null /\ work' = Null
      /\ troubled' = IF work = Null THEN troubled ELSE troubled \cup {begun}
      /\ kept' = IF work # Null /\ Config.isolate THEN kept \cup {begun} ELSE kept
      /\ UNCHANGED <<storeVars, csv, starts, begun>>
  BY DEF Kill
<1>2. kills' \in 0 .. MaxKills
  BY <1>1, EvaluationAssumption DEF EvaluationInv, EvaluationTypeOK
<1>3. begun \in Nat /\ (work # Null => begun \in 1 .. begun)
  BY DEF EvaluationInv, EvaluationTypeOK, TurnsOK
<1>4. EvaluationTypeOK'
  BY <1>1, <1>2, <1>3 DEF EvaluationInv, EvaluationTypeOK, storeVars
<1>5. TurnsOK' /\ NotesOK' /\ AnswersOK'
  BY <1>1 DEF TurnsOK, NotesOK, AnswersOK
<1>6. Owed'
  <2> SUFFICES ASSUME NEW m \in DOMAIN row, row[m].status \in Live
               PROVE  row[m].by \in IF row[m].in = 0 THEN troubled' ELSE kept'
    BY <1>1 DEF Owed, storeVars
  <2>1. CASE work # Null /\ row[m].by = begun
    <3>1. row[m].in = Workspace /\ Config.isolate \in BOOLEAN
      BY <2>1, AtHand DEF EvaluationInv, NotesOK, Mine
    <3> QED BY <1>1, <2>1, <3>1 DEF Workspace
  <2>2. CASE ~(work # Null /\ row[m].by = begun)
    BY <1>1, <2>2 DEF EvaluationInv, Owed
  <2> QED BY <2>1, <2>2
<1>7. OrderOK'
  BY <1>1 DEF EvaluationInv, OrderOK, Completed, Before
<1> QED BY <1>4, <1>5, <1>6, <1>7 DEF EvaluationInv
\* The judge only counts its kills.
LEMMA JudgeKeepsEvaluation ==
  ASSUME EvaluationInv, kills' \in 0 .. MaxKills,
         UNCHANGED <<runner, work, storeVars, csv, starts, begun, troubled, kept>>
  PROVE  EvaluationInv'
<1>1. EvaluationTypeOK' /\ TurnsOK' /\ NotesOK' /\ AnswersOK'
  BY DEF EvaluationInv, EvaluationTypeOK, TurnsOK, NotesOK, AnswersOK, Mine, Workspace, Case,
         Config, storeVars
<1>2. Owed'
  BY DEF EvaluationInv, Owed, Noticed, Config, storeVars
<1>3. OrderOK'
  BY DEF EvaluationInv, OrderOK, Completed, Before, Config
<1> QED BY <1>1, <1>2, <1>3 DEF EvaluationInv

LEMMA RunnerStepKeeps ==
  ASSUME EvaluationInv, RunnerStep
  PROVE  EvaluationInv'
BY BeginCaseKeeps, OpenWorkspaceKeeps, ReadTurnKeeps, StoreBatchKeeps, BatchesStoredKeeps,
   DeleteMemoryKeeps, AllDeletedKeeps, ImportTurnKeeps, ExtractCandidatesKeeps,
   ApproveCandidateKeeps, AllApprovedKeeps, AskKeeps, FailCallKeeps, CleanMemoryKeeps,
   CleanedKeeps, FailCleaningKeeps, RecordKeeps, FinishKeeps
   DEF RunnerStep

-------------------------------------------------------------------------------
(* The judge. *)

LEMMA UnjudgedRows ==
  ASSUME EvaluationInv
  PROVE  Unjudged \in Seq(JudgedRows)
<1>1. csv \in Seq(ResultRow) /\ Len(csv) \in Nat /\ DOMAIN csv = 1 .. Len(csv)
  BY DEF EvaluationInv, EvaluationTypeOK
<1>2. \A i \in 1 .. Len(csv) : csv[i] \in ResultRow
  BY <1>1
<1>3. \A i \in 1 .. Len(csv) : [case |-> csv[i].case, judged |-> FALSE] \in JudgedRows
  BY <1>2 DEF ResultRow, JudgedRows
<1> DEFINE rows == Unjudged
<1>4. rows = [i \in 1 .. Len(csv) |-> rows[i]] /\ \A i \in 1 .. Len(csv) : rows[i] \in JudgedRows
  BY <1>1, <1>3 DEF Unjudged
<1> HIDE DEF rows
<1>5. rows \in Seq(JudgedRows)
  BY <1>1, <1>4, SeqOfFunction
<1> QED BY <1>5 DEF rows

LEMMA StartJudgeKeeps ==
  ASSUME EvaluationInv, JudgeInv, StartJudge
  PROVE  JudgeInv'
<1>1. /\ judge = Null /\ judges < MaxJudges /\ judges' = judges + 1
      /\ judge' = [at |-> "write", rows |-> SourceRows, next |-> 1, attempt |-> 1]
      /\ UNCHANGED <<evaluationVars, judged, paid, torn>>
  BY DEF StartJudge
<1>2. SourceRows \in Seq(JudgedRows) /\ Len(SourceRows) \in Nat
  BY UnjudgedRows DEF SourceRows, JudgeInv, TypeOK
<1> DEFINE rows == SourceRows
<1>3. /\ judge' \in JudgeRow /\ judge'.rows = rows /\ judge'.at = "write" /\ judge'.next = 1
      /\ judge' # Null
  <2>1. rows \in Seq(JudgedRows)
    BY <1>2
  <2>2. judge' = [at |-> "write", rows |-> rows, next |-> 1, attempt |-> 1]
    BY <1>1
  <2> HIDE DEF rows
  <2> QED BY <2>1, <2>2, JudgingAssumption DEF JudgeRow
<1>4. judges' \in 0 .. MaxJudges
  BY <1>1, JudgingAssumption DEF JudgeInv, TypeOK
<1>5. TypeOK'
  <2>1. EvaluationTypeOK'
    BY <1>1 DEF JudgeInv, TypeOK, EvaluationTypeOK, evaluationVars, storeVars, historyVars
  <2> QED BY <1>1, <1>2, <1>3, <1>4, <2>1 DEF JudgeInv, TypeOK
<1>6. ~torn => HasVerdicts(rows)
  BY <1>1 DEF JudgeInv, HasVerdicts, SourceRows
<1> HIDE DEF rows
<1> QED BY <1>1, <1>3, <1>5, <1>6 DEF JudgeInv, HasVerdicts

LEMMA WriteRowsKeeps ==
  ASSUME JudgeInv, WriteRows
  PROVE  JudgeInv'
<1>1. /\ judge # Null /\ judge.at = "write" /\ judged' = judge.rows
      /\ judge' = [judge EXCEPT !.at = "judge"]
      /\ UNCHANGED <<evaluationVars, judges, paid, torn>>
  BY DEF WriteRows
<1>2. judge \in JudgeRow
  BY <1>1 DEF JudgeInv, TypeOK
<1>3. /\ judge' \in JudgeRow /\ judge'.at = "judge" /\ judge'.rows = judge.rows
      /\ judge'.next = judge.next /\ judge' # Null
  BY <1>1, <1>2, JudgingAssumption DEF JudgeRow
<1>4. judged' \in Seq(JudgedRows) /\ judged' # Null
  BY <1>1, <1>2, JudgingAssumption DEF JudgeRow
<1>5. TypeOK'
  <2>1. EvaluationTypeOK'
    BY <1>1 DEF JudgeInv, TypeOK, EvaluationTypeOK, evaluationVars, storeVars, historyVars
  <2> QED BY <1>1, <1>3, <1>4, <2>1 DEF JudgeInv, TypeOK
<1> QED BY <1>1, <1>3, <1>4, <1>5 DEF JudgeInv, HasVerdicts

\* Steps of the judge between two writes.
LEMMA SkipJudgedKeeps ==
  ASSUME JudgeInv, SkipJudged
  PROVE  JudgeInv'
<1>1. /\ judge # Null /\ judge.at = "judge" /\ judge.next <= Len(judge.rows)
      /\ judge' = [judge EXCEPT !.next = @ + 1]
      /\ UNCHANGED <<evaluationVars, judges, judged, paid, torn>>
  BY DEF SkipJudged, Judging
<1>2. judge \in JudgeRow /\ Len(judge.rows) \in Nat
  BY <1>1 DEF JudgeInv, TypeOK, JudgeRow
<1>3. /\ judge' \in JudgeRow /\ judge'.at = "judge" /\ judge'.rows = judge.rows
      /\ judge'.next = judge.next + 1 /\ judge' # Null /\ judge.next \in Nat
  <2> DEFINE next == judge.next + 1
  <2>1. next \in Nat \ {0} /\ judge.next \in Nat
    BY <1>2 DEF JudgeRow
  <2>2. judge' = [judge EXCEPT !.next = next]
    BY <1>1
  <2> HIDE DEF next
  <2>3. judge' \in JudgeRow /\ judge'.at = "judge" /\ judge'.rows = judge.rows /\ judge'.next = next
    BY <1>1, <1>2, <2>1, <2>2 DEF JudgeRow
  <2> QED BY <2>1, <2>3, JudgingAssumption DEF next
<1>4. judge'.next <= Len(judge'.rows) + 1
  BY <1>1, <1>2, <1>3
<1>5. TypeOK'
  <2>1. EvaluationTypeOK'
    BY <1>1 DEF JudgeInv, TypeOK, EvaluationTypeOK, evaluationVars, storeVars, historyVars
  <2> QED BY <1>1, <1>3, <1>4, <2>1 DEF JudgeInv, TypeOK
<1> QED BY <1>1, <1>3, <1>5 DEF JudgeInv, HasVerdicts

LEMMA GiveVerdictKeeps ==
  ASSUME JudgeInv, GiveVerdict
  PROVE  JudgeInv'
<1> DEFINE i0 == judge.next
           new == WithVerdict(judge.rows[i0])
           rows == [judge.rows EXCEPT ![i0] = new]
           next == i0 + 1
<1>1. /\ judge # Null /\ judge.at = "judge" /\ i0 <= Len(judge.rows)
      /\ judge' = [judge EXCEPT !.at = "write", !.rows = rows, !.next = next, !.attempt = 1]
      /\ paid' = paid \cup {judge.rows[i0].case}
      /\ UNCHANGED <<evaluationVars, judges, judged, torn>>
  BY DEF GiveVerdict, Judging, Answer
<1>2. judge \in JudgeRow /\ judged = judge.rows /\ judged # Null
  BY <1>1, JudgingAssumption DEF JudgeInv, TypeOK, JudgeRow
<1>3. /\ judge.rows \in Seq(JudgedRows) /\ i0 \in DOMAIN judge.rows /\ next \in Nat \ {0}
      /\ judge.rows[i0] \in JudgedRows /\ Len(judge.rows) \in Nat
  BY <1>1, <1>2 DEF JudgeRow
<1>4. new \in JudgedRows /\ new.case = judge.rows[i0].case /\ new.judged /\ new.case \in Cases
  BY <1>3 DEF WithVerdict, JudgedRows
<1> HIDE DEF new
<1>5. /\ rows \in Seq(JudgedRows) /\ Len(rows) = Len(judge.rows)
      /\ DOMAIN rows = DOMAIN judge.rows /\ rows[i0] = new
      /\ \A i \in DOMAIN rows : i # i0 => rows[i] = judge.rows[i]
  BY <1>3, <1>4
<1>6. next <= Len(rows) + 1
  BY <1>1, <1>3, <1>5
<1> HIDE DEF rows, next, i0
<1>7. /\ judge' \in JudgeRow /\ judge'.rows = rows /\ judge'.next = next /\ judge'.at = "write"
      /\ judge' # Null
  <2> DEFINE R == Seq(JudgedRows)
             A == 1 .. Attempts
             N == Nat \ {0}
  <2>2. 1 \in A /\ rows \in R /\ next \in N
    BY <1>3, <1>5, JudgingAssumption
  <2>3. JudgeRow = [at : {"write", "judge"}, rows : R, next : N, attempt : A]
    BY DEF JudgeRow
  <2> HIDE DEF R, A, N
  <2>1. judge' \in JudgeRow /\ judge'.rows = rows /\ judge'.next = next /\ judge'.at = "write"
    BY <1>1, <1>2, <2>2, <2>3
  <2> QED BY <2>1, JudgingAssumption
<1>8. TypeOK'
  <2>1. EvaluationTypeOK'
    BY <1>1 DEF JudgeInv, TypeOK, EvaluationTypeOK, evaluationVars, storeVars, historyVars
  <2> QED BY <1>1, <1>4, <1>6, <1>7, <2>1 DEF JudgeInv, TypeOK
<1>9. ~torn => \A c \in paid' : \E i \in DOMAIN rows : rows[i].case = c /\ rows[i].judged
  <2> SUFFICES ASSUME ~torn, NEW c \in paid'
               PROVE  \E i \in DOMAIN rows : rows[i].case = c /\ rows[i].judged
    OBVIOUS
  <2>1. CASE c = new.case
    BY <1>3, <1>4, <1>5, <2>1
  <2>2. CASE c \in paid /\ c # new.case
    <3>1. PICK i \in DOMAIN judge.rows : judge.rows[i].case = c /\ judge.rows[i].judged
      BY <1>1, <2>2 DEF JudgeInv, HasVerdicts
    <3>2. i # i0
      BY <1>4, <2>2, <3>1
    <3> QED BY <1>5, <3>1, <3>2
  <2> QED BY <1>1, <1>4, <2>1, <2>2
<1> QED BY <1>1, <1>2, <1>7, <1>8, <1>9 DEF JudgeInv, HasVerdicts
LEMMA FailVerdictKeeps ==
  ASSUME JudgeInv, FailVerdict
  PROVE  JudgeInv'
<1>1. /\ judge # Null /\ judge.at = "judge"
      /\ judge' = IF judge.attempt < Attempts THEN [judge EXCEPT !.attempt = @ + 1] ELSE Null
      /\ UNCHANGED <<evaluationVars, judges, judged, paid, torn>>
  BY DEF FailVerdict, Judging
<1>2. judge \in JudgeRow /\ judged = judge.rows
  BY <1>1 DEF JudgeInv, TypeOK
<1>3. EvaluationTypeOK'
  BY <1>1 DEF JudgeInv, TypeOK, EvaluationTypeOK, evaluationVars, storeVars, historyVars
<1>4. CASE judge' = Null
  BY <1>1, <1>2, <1>3, <1>4 DEF JudgeInv, TypeOK, HasVerdicts
<1>5. CASE judge' = [judge EXCEPT !.attempt = @ + 1] /\ judge.attempt < Attempts
  <2> DEFINE attempt == judge.attempt + 1
             A == 1 .. Attempts
  <2>1. attempt \in A /\ judge' = [judge EXCEPT !.attempt = attempt]
    BY <1>2, <1>5, JudgingAssumption DEF JudgeRow
  <2> HIDE DEF attempt
  <2>2. JudgeRow = [at : {"write", "judge"}, rows : Seq(JudgedRows), next : Nat \ {0}, attempt : A]
    BY DEF JudgeRow
  <2> HIDE DEF A
  <2>3. /\ judge' \in JudgeRow /\ judge'.at = "judge" /\ judge'.rows = judge.rows
        /\ judge'.next = judge.next
    BY <1>1, <1>2, <2>1, <2>2
  <2>4. judge' # Null
    BY <2>3, JudgingAssumption
  <2>5. TypeOK'
    BY <1>1, <1>3, <2>3 DEF JudgeInv, TypeOK
  <2> QED BY <1>1, <2>3, <2>4, <2>5 DEF JudgeInv, HasVerdicts
<1> QED BY <1>1, <1>4, <1>5

LEMMA FinishJudgingKeeps ==
  ASSUME JudgeInv, FinishJudging
  PROVE  JudgeInv'
<1>1. /\ judge # Null /\ judge.at = "judge" /\ judge' = Null
      /\ UNCHANGED <<evaluationVars, judges, judged, paid, torn>>
  BY DEF FinishJudging
<1>2. TypeOK'
  BY <1>1 DEF JudgeInv, TypeOK, EvaluationTypeOK, evaluationVars, storeVars, historyVars
<1> QED BY <1>1, <1>2 DEF JudgeInv, HasVerdicts

LEMMA KillJudgeKeeps ==
  ASSUME EvaluationInv, JudgeInv, KillJudge
  PROVE  EvaluationInv' /\ JudgeInv'
<1>1. /\ judge # Null /\ kills < MaxKills /\ kills' = kills + 1 /\ judge' = Null
      /\ UNCHANGED <<runner, work, storeVars, csv, starts, begun, troubled, kept, judges, paid>>
  BY DEF KillJudge
<1>2. judge \in JudgeRow
  BY <1>1 DEF JudgeInv, TypeOK
<1>3. kills' \in 0 .. MaxKills
  BY <1>1, EvaluationAssumption DEF EvaluationInv, EvaluationTypeOK
<1>4. EvaluationInv'
  BY <1>1, <1>3, JudgeKeepsEvaluation
<1>5. CASE judge.at = "write"
  <2>1. PICK n \in 0 .. Len(judge.rows) : judged' = SubSeq(judge.rows, 1, n)
    BY <1>5 DEF KillJudge
  <2>2. judged' \in Seq(JudgedRows) /\ judged' # Null /\ torn' = TRUE
    <3> DEFINE rows == judge.rows
    <3>1. rows \in Seq(JudgedRows) /\ n \in 0 .. Len(rows) /\ judged' = SubSeq(rows, 1, n)
      BY <1>2, <2>1 DEF JudgeRow
    <3> HIDE DEF rows
    <3>2. \A i \in 1 .. n : rows[i] \in JudgedRows
      BY <3>1
    <3>3. judged' = [i \in 1 .. n |-> rows[i]] /\ n \in Nat
      BY <3>1
    <3>4. judged' \in Seq(JudgedRows)
      BY <3>2, <3>3
    <3> QED BY <1>5, <3>4, JudgingAssumption DEF KillJudge
  <2>3. TypeOK'
    BY <1>1, <1>4, <2>2 DEF JudgeInv, TypeOK, EvaluationInv
  <2> QED BY <1>1, <1>4, <2>2, <2>3 DEF JudgeInv
<1>6. CASE judge.at # "write"
  <2>1. judge.at = "judge" /\ UNCHANGED <<judged, torn>>
    BY <1>2, <1>6 DEF KillJudge, JudgeRow
  <2>2. TypeOK'
    BY <1>1, <1>4, <2>1 DEF JudgeInv, TypeOK, EvaluationInv
  <2> QED BY <1>1, <1>4, <2>1, <2>2 DEF JudgeInv, HasVerdicts
<1> QED BY <1>5, <1>6

-------------------------------------------------------------------------------
(* What is in the store while a conversation is replayed. *)

\* A case that is replayed on its own, turn by turn.
Single == work # Null /\ ~Config.extraction /\ ~Config.grouped

Active(r, n) == {m \in DOMAIN r : r[m].by = n /\ r[m].status = "active"}

\* The memories of a conversation after the last request to forget before turn t.
Since(says, t) ==
    {i \in DOMAIN says :
        /\ i < t /\ says[i].kind = "memory"
        /\ \A j \in i + 1 .. t - 1 : says[j].kind # "forget"}

\* One of these turns replaces the memory of turn i.
Replaced(says, turns, i) == says[i].key # Null /\ \E j \in turns : i < j /\ says[j].key = says[i].key

Sent(requests) == UNION {{requests[a][j] : j \in DOMAIN requests[a]} : a \in DOMAIN requests}
StoredTurns(w, r) == {r[w.stored[i]].turn : i \in DOMAIN w.stored}

Increasing(s) == \A i, j \in DOMAIN s : i < j => s[i] < s[j]

\* Of the turns of a request no two are memories of one key.
OneOfAKey(s, says) ==
    \A i, j \in DOMAIN s : i # j /\ says[s[i]].key # Null => says[s[j]].key # says[s[i]].key

AllBefore(s, t) == \A i \in DOMAIN s, j \in DOMAIN t : s[i] < t[j]

\* Requests in the order of the conversation, with one memory of every key in each.
InSequence(requests, says) ==
    /\ \A a \in DOMAIN requests : Increasing(requests[a]) /\ OneOfAKey(requests[a], says)
    /\ \A a, b \in DOMAIN requests : a < b => AllBefore(requests[a], requests[b])

\* The turns after the last request to forget are collected, and nothing of them is stored.
Collecting(w, r, n, says) ==
    /\ w.turn \in 1 .. Len(says) + 1
    /\ w.created = <<>> /\ Active(r, n) = {}
    /\ Increasing(w.pending)
    /\ {w.pending[i] : i \in DOMAIN w.pending} = Since(says, w.turn)

AtPause(w, says) ==
    \/ w.turn = Len(says) + 1
    \/ w.turn \in DOMAIN says /\ says[w.turn].kind = "forget"

\* These turns are stored or in a request to come, once each, and the newest memory of every
\* key is the active one, known by its key.
StoringOK(w, r, n, says) ==
    /\ AtPause(w, says)
    /\ w.created = <<>> /\ w.pending = <<>>
    /\ \A m \in Active(r, n) : Listed(m, w.stored)
    /\ \A m : Listed(m, w.stored) => m \in DOMAIN r /\ r[m].by = n
    /\ \A l, m : Listed(l, w.stored) /\ Listed(m, w.stored) /\ r[l].turn = r[m].turn => l = m
    /\ StoredTurns(w, r) \cup Sent(w.batches) = Since(says, w.turn)
    /\ \A i \in StoredTurns(w, r), j \in Sent(w.batches) : i < j
    /\ \A m : Listed(m, w.stored) =>
          (r[m].status = "active" <=> ~Replaced(says, StoredTurns(w, r), r[m].turn))
    /\ \A k, m : <<k, m>> \in w.keys <=> m \in Active(r, n) /\ k = says[r[m].turn].key /\ k # Null
    /\ InSequence(w.batches, says)

Deleting(w, r, n, says) ==
    /\ w.turn \in DOMAIN says /\ says[w.turn].kind = "forget"
    /\ w.pending = <<>>
    /\ \A m \in Active(r, n) : Listed(m, w.doomed)

Compared(r, n, c) ==
    /\ {r[m].turn : m \in Active(r, n)} = LocalMemories(c)
    /\ Cardinality(Active(r, n)) = Cardinality(LocalMemories(c))

LiveOK(w, r, n) ==
    LET says == Turns[w.cases[1]] IN
    /\ w.at \notin {"import", "extract", "approve"}
    /\ w.at = "open" => w.turn = 1 /\ w.created = <<>> /\ w.pending = <<>> /\ Active(r, n) = {}
    /\ w.at = "turns" => Collecting(w, r, n, says)
    /\ w.at = "store" => StoringOK(w, r, n, says)
    /\ w.at = "delete" => Deleting(w, r, n, says)
    /\ w.at = "ask" => Compared(r, n, w.cases[1])

LiveInv == Single => LiveOK(work, row, begun)

-------------------------------------------------------------------------------
(* The requests are in the order of the conversation. *)

LEMMA SentIs ==
  ASSUME NEW requests
  PROVE  \A i : i \in Sent(requests) <=>
                \E a \in DOMAIN requests : \E j \in DOMAIN requests[a] : i = requests[a][j]
BY DEF Sent

\* One more turn, after all that are there.
LEMMA GrownInSequence ==
  ASSUME NEW before \in Seq(Seq(Nat)), NEW says, NEW t \in Nat, NEW fits \in BOOLEAN,
         fits => /\ before # <<>>
                 /\ says[t].key # Null =>
                       \A j \in DOMAIN before[Len(before)] : says[before[Len(before)][j]].key # says[t].key,
         InSequence(before, says),
         \A i \in Sent(before) : i < t
  PROVE  /\ InSequence(Grown(before, t, fits), says)
         /\ Sent(Grown(before, t, fits)) = Sent(before) \cup {t}
<1> DEFINE L == Len(before)
<1>1. L \in Nat /\ DOMAIN before = 1 .. L /\ \A a \in 1 .. L : before[a] \in Seq(Nat)
  OBVIOUS
<1>2. \A a \in 1 .. L : \A j \in DOMAIN before[a] : before[a][j] < t
  BY <1>1, SentIs
<1>3. \A a \in 1 .. L : Increasing(before[a]) /\ OneOfAKey(before[a], says)
  BY <1>1 DEF InSequence
<1>4. \A a, b \in 1 .. L : a < b => AllBefore(before[a], before[b])
  BY <1>1 DEF InSequence
<1>5. CASE fits
  <2> DEFINE new == Append(before[L], t)
             after == [before EXCEPT ![L] = new]
             n == Len(before[L])
  <2>1. L \in 1 .. L /\ before[L] \in Seq(Nat)
    BY <1>1, <1>5
  <2>2. /\ n \in Nat /\ DOMAIN before[L] = 1 .. n /\ DOMAIN new = 1 .. n + 1
        /\ new[n + 1] = t /\ \A j \in 1 .. n : new[j] = before[L][j]
    BY <2>1
  <2>3. Grown(before, t, fits) = after
    BY <1>5 DEF Grown
  <2> HIDE DEF new, n
  <2>4. /\ DOMAIN after = 1 .. L /\ after[L] = new
        /\ \A a \in 1 .. L : a # L => after[a] = before[a]
    BY <1>1, <2>1
  <2> HIDE DEF after, L
  <2>5. \A j \in 1 .. n + 1 : j \in 1 .. n \/ j = n + 1
    BY <2>2
  <2>6. Sent(after) = Sent(before) \cup {t}
    <3>1. ASSUME NEW a \in 1 .. L, NEW j \in DOMAIN after[a] PROVE after[a][j] \in Sent(before) \cup {t}
      <4>1. CASE a # L
        BY <1>1, <2>4, <3>1, <4>1, SentIs
      <4>2. CASE a = L
        BY <1>1, <2>1, <2>2, <2>4, <2>5, <3>1, <4>2, SentIs
      <4> QED BY <4>1, <4>2
    <3>2. ASSUME NEW a \in 1 .. L, NEW j \in DOMAIN before[a] PROVE before[a][j] \in Sent(after)
      <4>1. CASE a # L
        BY <2>4, <3>2, <4>1, SentIs
      <4>2. CASE a = L
        <5>1. j \in 1 .. n + 1 /\ after[L][j] = before[L][j]
          BY <2>2, <2>4, <3>2, <4>2
        <5> QED BY <2>1, <2>2, <2>4, <4>2, <5>1, SentIs
      <4> QED BY <4>1, <4>2
    <3>3. t \in Sent(after)
      <4>1. n + 1 \in 1 .. n + 1
        BY <2>2
      <4> QED BY <2>1, <2>2, <2>4, <4>1, SentIs
    <3>4. ASSUME NEW i \in Sent(after) PROVE i \in Sent(before) \cup {t}
      <4>1. PICK a \in DOMAIN after : \E j \in DOMAIN after[a] : i = after[a][j]
        BY SentIs
      <4> QED BY <2>4, <3>1, <4>1
    <3>5. ASSUME NEW i \in Sent(before) PROVE i \in Sent(after)
      <4>1. PICK a \in DOMAIN before : \E j \in DOMAIN before[a] : i = before[a][j]
        BY SentIs
      <4> QED BY <1>1, <3>2, <4>1
    <3> QED BY <3>3, <3>4, <3>5
  <2>7. \A j \in 1 .. n : new[j] < t /\ t \in Nat
    BY <1>2, <2>1, <2>2
  <2>8. Increasing(new)
    <3>1. Increasing(before[L])
      BY <1>3, <2>1
    <3> SUFFICES ASSUME NEW i \in 1 .. n + 1, NEW j \in 1 .. n + 1, i < j PROVE new[i] < new[j]
      BY <2>2 DEF Increasing
    <3>2. i \in 1 .. n
      BY <2>2
    <3>3. CASE j \in 1 .. n
      BY <2>2, <3>1, <3>2, <3>3 DEF Increasing
    <3>4. CASE j = n + 1
      BY <2>2, <2>7, <3>2, <3>4
    <3> QED BY <2>5, <3>3, <3>4
  <2>9. ASSUME NEW i \in 1 .. n + 1, NEW j \in 1 .. n + 1, i # j, says[new[i]].key # Null
        PROVE  says[new[j]].key # says[new[i]].key
    <3>1. CASE i \in 1 .. n /\ j \in 1 .. n
      <4>1. new[i] = before[L][i] /\ new[j] = before[L][j]
        BY <2>2, <3>1
      <4>2. OneOfAKey(before[L], says)
        BY <1>3, <2>1
      <4> QED BY <2>2, <2>9, <3>1, <4>1, <4>2 DEF OneOfAKey
    <3>2. CASE i = n + 1 /\ j \in 1 .. n
      BY <1>5, <2>2, <2>9, <3>2 DEF L
    <3>3. CASE i \in 1 .. n /\ j = n + 1
      BY <1>5, <2>2, <2>9, <3>3 DEF L
    <3> QED BY <2>5, <2>9, <3>1, <3>2, <3>3
  <2>10. ASSUME NEW a \in 1 .. L, NEW b \in 1 .. L, a < b,
                NEW i \in DOMAIN after[a], NEW j \in DOMAIN after[b]
         PROVE  after[a][i] < after[b][j]
    <3>1. a # L /\ after[a] = before[a]
      BY <1>1, <2>4, <2>10
    <3>2. CASE b # L
      BY <1>4, <2>4, <2>10, <3>1, <3>2 DEF AllBefore
    <3>3. CASE b = L /\ j = n + 1
      BY <1>2, <2>2, <2>4, <2>10, <3>1, <3>3
    <3>4. CASE b = L /\ j # n + 1
      <4>1. j \in DOMAIN before[L] /\ after[b][j] = before[L][j]
        BY <2>2, <2>4, <2>5, <2>10, <3>4
      <4> QED BY <1>4, <2>10, <3>1, <3>4, <4>1 DEF AllBefore
    <3> QED BY <3>2, <3>3, <3>4
  <2>11. ASSUME NEW a \in 1 .. L
         PROVE  Increasing(after[a]) /\ OneOfAKey(after[a], says)
    <3>1. CASE a # L
      BY <1>3, <2>4, <2>11, <3>1
    <3>2. CASE a = L
      BY <2>2, <2>4, <2>8, <2>9, <3>2 DEF OneOfAKey
    <3> QED BY <3>1, <3>2
  <2>12. InSequence(after, says)
    BY <2>4, <2>10, <2>11 DEF InSequence, AllBefore
  <2> QED BY <2>3, <2>6, <2>12
<1>6. CASE ~fits
  <2> DEFINE after == Append(before, <<t>>)
  <2>1. Grown(before, t, fits) = after
    BY <1>6 DEF Grown
  <2>2. /\ DOMAIN after = 1 .. L + 1 /\ after[L + 1] = <<t>>
        /\ \A a \in 1 .. L : after[a] = before[a]
    OBVIOUS
  <2>3. DOMAIN <<t>> = {1} /\ <<t>>[1] = t
    OBVIOUS
  <2> DEFINE one == <<t>>
  <2> HIDE DEF after, L
  <2>4. \A a \in 1 .. L + 1 : a \in 1 .. L \/ a = L + 1
    BY <1>1
  <2>5. DOMAIN one = {1} /\ one[1] = t /\ after[L + 1] = one
    BY <2>2, <2>3
  <2> HIDE DEF one
  <2>6. Sent(after) = Sent(before) \cup {t}
    <3>1. ASSUME NEW a \in 1 .. L + 1, NEW j \in DOMAIN after[a]
          PROVE  after[a][j] \in Sent(before) \cup {t}
      <4>1. CASE a \in 1 .. L
        BY <1>1, <2>2, <3>1, <4>1, SentIs
      <4>2. CASE a = L + 1
        BY <2>5, <3>1, <4>2
      <4> QED BY <2>4, <4>1, <4>2
    <3>2. ASSUME NEW i \in Sent(after) PROVE i \in Sent(before) \cup {t}
      <4>1. PICK a \in DOMAIN after : \E j \in DOMAIN after[a] : i = after[a][j]
        BY SentIs
      <4> QED BY <2>2, <3>1, <4>1
    <3>3. \A a \in 1 .. L : a \in 1 .. L + 1
      BY <1>1
    <3>4. ASSUME NEW i \in Sent(before) PROVE i \in Sent(after)
      <4>1. PICK a \in DOMAIN before : \E j \in DOMAIN before[a] : i = before[a][j]
        BY SentIs
      <4>2. a \in DOMAIN after /\ after[a] = before[a]
        BY <1>1, <2>2, <3>3
      <4> QED BY <4>1, <4>2, SentIs
    <3>5. t \in Sent(after)
      <4>1. L + 1 \in 1 .. L + 1 /\ 1 \in DOMAIN one
        BY <1>1, <2>5
      <4> QED BY <2>2, <2>5, <4>1, SentIs
    <3> QED BY <3>2, <3>4, <3>5
  <2>7. ASSUME NEW a \in 1 .. L + 1
        PROVE  Increasing(after[a]) /\ OneOfAKey(after[a], says)
    <3>1. CASE a \in 1 .. L
      BY <1>3, <2>2, <3>1
    <3>2. CASE a = L + 1
      BY <2>5, <3>2 DEF Increasing, OneOfAKey
    <3> QED BY <2>4, <2>7, <3>1, <3>2
  <2>8. ASSUME NEW a \in 1 .. L + 1, NEW b \in 1 .. L + 1, a < b,
               NEW i \in DOMAIN after[a], NEW j \in DOMAIN after[b]
        PROVE  after[a][i] < after[b][j]
    <3>1. a \in 1 .. L /\ after[a] = before[a]
      BY <1>1, <2>2, <2>8
    <3>2. CASE b \in 1 .. L
      BY <1>4, <2>2, <2>8, <3>1, <3>2 DEF AllBefore
    <3>3. CASE b = L + 1
      BY <1>2, <2>5, <2>8, <3>1, <3>3
    <3> QED BY <2>4, <2>8, <3>2, <3>3
  <2>9. InSequence(after, says)
    BY <2>2, <2>7, <2>8 DEF InSequence, AllBefore
  <2> QED BY <2>1, <2>6, <2>9
<1> QED BY <1>5, <1>6

\* However long the conversation is and however small the requests are.
LEMMA BatchesInSequence ==
  ASSUME NEW turns \in Seq(Nat), Increasing(turns), NEW says
  PROVE  /\ InSequence(Batches(turns, says), says)
         /\ Sent(Batches(turns, says)) = {turns[i] : i \in DOMAIN turns}
<1> DEFINE N == Len(turns)
           Upto(k) == {turns[i] : i \in 1 .. k}
           OK(before, k) == /\ before \in Seq(Seq(Nat))
                            /\ InSequence(before, says) /\ Sent(before) = Upto(k)
<1>1. N \in Nat /\ DOMAIN turns = 1 .. N /\ \A i \in 1 .. N : turns[i] \in Nat
  OBVIOUS
<1>2. PICK h : /\ Batches(turns, says) = h[Len(turns)]
               /\ h[0] = <<>>
               /\ \A n \in 0 .. Len(turns) : h[n] \in Seq(Seq(Nat))
               /\ \A n \in 1 .. Len(turns) :
                     h[n] = Grown(h[n - 1], turns[n], Joins(h[n - 1], turns[n], says))
  <2>1. PICK h : BatchSteps(h, turns, says, Nat)
    BY BatchesRecur
  <2> QED BY <2>1 DEF BatchSteps
<1> DEFINE S == {k \in Nat : k <= N => OK(h[k], k)}
<1>3. OK(<<>>, 0)
  <2>1. Sent(<<>>) = {}
    BY DEF Sent
  <2>2. InSequence(<<>>, says)
    BY DEF InSequence
  <2>3. Upto(0) = {}
    OBVIOUS
  <2>4. <<>> \in Seq(Seq(Nat))
    OBVIOUS
  <2> QED BY <2>1, <2>2, <2>3, <2>4
<1>4. ASSUME NEW n \in Nat, OK(h[n], n), n + 1 <= N PROVE OK(h[n + 1], n + 1)
  <2> DEFINE fits == Joins(h[n], turns[n + 1], says)
             t == turns[n + 1]
  <2>1. n + 1 \in 1 .. N /\ (n + 1) - 1 = n /\ n \in 0 .. N /\ \A i \in 1 .. n : i \in 1 .. N /\ i < n + 1
    BY <1>1, <1>4
  <2>2. h[n] \in Seq(Seq(Nat)) /\ InSequence(h[n], says) /\ Sent(h[n]) = Upto(n)
    BY <1>4
  <2>3. t \in Nat /\ \A i \in 1 .. n : turns[i] < t
    BY <1>1, <2>1 DEF Increasing
  <2>4. \A i \in Sent(h[n]) : i < t
    BY <2>2, <2>3
  <2>5. h[n + 1] = Grown(h[n], t, fits)
    BY <1>2, <2>1
  <2>6. /\ fits \in BOOLEAN
        /\ fits => /\ h[n] # <<>>
                   /\ says[t].key # Null =>
                         \A j \in DOMAIN h[n][Len(h[n])] : says[h[n][Len(h[n])][j]].key # says[t].key
    BY DEF Joins
  <2> HIDE DEF fits, t, Upto
  <2>7. InSequence(Grown(h[n], t, fits), says) /\ Sent(Grown(h[n], t, fits)) = Sent(h[n]) \cup {t}
    BY <2>2, <2>3, <2>4, <2>6, GrownInSequence
  <2>8. Grown(h[n], t, fits) \in Seq(Seq(Nat))
    BY <2>2, <2>3, <2>6, GrownTyped
  <2>9. Upto(n) \cup {t} = Upto(n + 1)
    <3>1. \A i : i \in 1 .. n + 1 <=> i \in 1 .. n \/ i = n + 1
      OBVIOUS
    <3> QED BY <3>1 DEF Upto, t
  <2> QED BY <2>2, <2>5, <2>7, <2>8, <2>9
<1> HIDE DEF OK
<1>5. 0 \in S
  BY <1>2, <1>3
<1>6. \A n \in Nat : n \in S => n + 1 \in S
  <2> SUFFICES ASSUME NEW n \in Nat, n \in S, n + 1 <= N PROVE OK(h[n + 1], n + 1)
    BY <1>1
  <2>1. OK(h[n], n)
    BY <1>1
  <2> QED BY <1>4, <2>1
<1>7. OK(h[N], N)
  <2> HIDE DEF S
  <2>1. Nat \subseteq S
    BY <1>5, <1>6, SetInduction
  <2> QED BY <1>1, <2>1 DEF S
<1> QED BY <1>1, <1>2, <1>7 DEF OK

-------------------------------------------------------------------------------
(* The steps of a case that is replayed turn by turn. *)

LEMMA SaysType ==
  ASSUME NEW c \in Cases
  PROVE  /\ Len(Turns[c]) \in Nat /\ DOMAIN Turns[c] = 1 .. Len(Turns[c])
         /\ \A i \in DOMAIN Turns[c] : Turns[c][i].kind \in {"memory", "forget", "query", "other"}
BY DatasetAssumption

LEMMA SinceSteps ==
  ASSUME NEW c \in Cases, NEW t \in DOMAIN Turns[c]
  PROVE  /\ Turns[c][t].kind = "memory" => Since(Turns[c], t + 1) = Since(Turns[c], t) \cup {t}
         /\ Turns[c][t].kind = "forget" => Since(Turns[c], t + 1) = {}
         /\ Turns[c][t].kind \in {"query", "other"} => Since(Turns[c], t + 1) = Since(Turns[c], t)
<1> DEFINE says == Turns[c]
           Quiet(i, n) == \A j \in i + 1 .. n : says[j].kind # "forget"
<1>1. Len(says) \in Nat /\ DOMAIN says = 1 .. Len(says) /\ t \in 1 .. Len(says)
  BY SaysType
<1>2. \A k \in {t, t + 1} : \A i : i \in Since(says, k) <=>
         i \in DOMAIN says /\ i < k /\ says[i].kind = "memory" /\ Quiet(i, k - 1)
  BY DEF Since
<1>3. (t + 1) - 1 = t
  BY <1>1
<1>4. \A i \in DOMAIN says : i < t => (Quiet(i, t) <=> Quiet(i, t - 1) /\ says[t].kind # "forget")
  <2> SUFFICES ASSUME NEW i \in DOMAIN says, i < t
               PROVE  Quiet(i, t) <=> Quiet(i, t - 1) /\ says[t].kind # "forget"
    OBVIOUS
  <2>1. \A j : j \in i + 1 .. t <=> j \in i + 1 .. t - 1 \/ j = t
    BY <1>1
  <2> HIDE DEF says
  <2> QED BY <2>1
<1>5. Quiet(t, t)
  BY <1>1
<1>6. \A i \in DOMAIN says : i < t + 1 <=> i < t \/ i = t
  BY <1>1
<1>7. ~(t < t)
  BY <1>1
<1> HIDE DEF says, Quiet
<1>8. \A i : i \in Since(says, t + 1) <=>
        \/ i = t /\ says[t].kind = "memory"
        \/ i \in Since(says, t) /\ says[t].kind # "forget"
  <2> SUFFICES ASSUME NEW i
               PROVE  i \in Since(says, t + 1) <=>
                        \/ i = t /\ says[t].kind = "memory"
                        \/ i \in Since(says, t) /\ says[t].kind # "forget"
    OBVIOUS
  <2>1. i \in Since(says, t + 1) <=>
          i \in DOMAIN says /\ i < t + 1 /\ says[i].kind = "memory" /\ Quiet(i, t)
    BY <1>2, <1>3
  <2>2. i \in Since(says, t) <=>
          i \in DOMAIN says /\ i < t /\ says[i].kind = "memory" /\ Quiet(i, t - 1)
    BY <1>2
  <2>3. t \in DOMAIN says
    BY <1>1
  <2>4. CASE i = t
    BY <1>5, <1>6, <1>7, <2>1, <2>2, <2>3, <2>4
  <2>5. CASE i # t
    BY <1>4, <1>6, <2>1, <2>2, <2>5
  <2> QED BY <2>4, <2>5
<1>9. /\ says[t].kind = "memory" => Since(says, t + 1) = Since(says, t) \cup {t}
      /\ says[t].kind \in {"query", "other"} => Since(says, t + 1) = Since(says, t)
  BY <1>8
<1>10. says[t].kind = "forget" => Since(says, t + 1) = {}
  BY <1>8
<1> QED BY <1>9, <1>10 DEF says

LEMMA StoredTurnsAre ==
  ASSUME NEW w, NEW r
  PROVE  \A i : i \in StoredTurns(w, r) <=> \E m : Listed(m, w.stored) /\ i = r[m].turn
BY DEF StoredTurns, Listed

\* What a single case knows at a step.
LEMMA SingleHas ==
  ASSUME EvaluationInv, LiveInv, Single
  PROVE  /\ work # Null /\ work \in WorkRow /\ Case \in Cases /\ LiveOK(work, row, begun)
         /\ row \in Seq(MemoryRow) /\ Len(row) \in Nat /\ DOMAIN row = 1 .. Len(row)
         /\ \A m \in DOMAIN row : row[m] \in MemoryRow
<1>1. work # Null
  BY DEF Single
<1>2. row \in Seq(MemoryRow)
  BY DEF EvaluationInv, EvaluationTypeOK
<1> QED BY <1>1, <1>2, AtHand DEF LiveInv

LEMMA SingleStays ==
  ASSUME work # Null, UNCHANGED runner, Single'
  PROVE  Single
BY DEF Single, Config

\* Nothing is said of a case that has failed or been answered.
LEMMA PastTheAnswer ==
  ASSUME work' = Null \/ work'.at \in {"clean_up", "record"}
  PROVE  LiveInv'
BY DEF LiveInv, LiveOK, Single

LEMMA FailedIsPast ==
  ASSUME EvaluationInv, work # Null
  PROVE  Failed.at = "clean_up"
<1> DEFINE answers == IF Config.grouped THEN <<>> ELSE <<[case |-> Case, error |-> TRUE]>>
           failed == [work EXCEPT !.answers = answers]
<1>1. work \in WorkRow
  BY AtHand
<1>2. Failed = CleaningUp(failed)
  BY DEF Failed
<1>3. failed = [f \in DOMAIN work |-> failed[f]] /\ "at" \in DOMAIN work
  BY <1>1 DEF WorkRow
<1> HIDE DEF failed
<1> QED BY <1>2, <1>3 DEF CleaningUp

LEMMA OpenWorkspaceLive ==
  ASSUME EvaluationInv, LiveInv, OpenWorkspace
  PROVE  LiveInv'
<1>1. work # Null /\ work.at = "open" /\ UNCHANGED <<runner, row, begun>>
  BY DEF OpenWorkspace, At, storeVars, historyVars
<1> SUFFICES ASSUME Single PROVE LiveOK(work', row', begun')
  BY <1>1, SingleStays DEF LiveInv
<1>2. work \in WorkRow /\ Case \in Cases /\ LiveOK(work, row, begun)
  BY SingleHas
<1>3. work'.at = "turns" /\ work'.cases = work.cases /\ work'.turn = work.turn
      /\ work'.pending = work.pending /\ work'.created = work.created
  BY <1>2, RowForm DEF OpenWorkspace
<1>4. work.turn = 1 /\ work.created = <<>> /\ work.pending = <<>> /\ Active(row, begun) = {}
  BY <1>1, <1>2 DEF LiveOK
<1>5. Since(Turns[Case], 1) = {} /\ 1 \in 1 .. Len(Turns[Case]) + 1
  BY <1>2, SaysType DEF Since
<1>6. Collecting(work', row', begun', Turns[Case])
  BY <1>1, <1>3, <1>4, <1>5 DEF Collecting, Increasing
<1> QED BY <1>3, <1>6 DEF LiveOK, Case

\* The turns collected are divided into requests.
LEMMA StoringLive ==
  ASSUME EvaluationInv, LiveInv, Single, work.at = "turns", AtPause(work, Turns[Case]),
         work' = Storing, UNCHANGED <<row, begun>>
  PROVE  LiveOK(work', row', begun')
<1> DEFINE says == Turns[Case]
           turns == work.pending
<1>1. work # Null /\ work \in WorkRow /\ Case \in Cases /\ Collecting(work, row, begun, says)
  BY SingleHas DEF LiveOK, Case
<1>2. /\ work'.at = "store" /\ work'.cases = work.cases /\ work'.turn = work.turn
      /\ work'.pending = <<>> /\ work'.keys = {} /\ work'.stored = <<>>
      /\ work'.created = work.created /\ work'.batches = Batches(turns, says)
  BY <1>1, StoringRow
<1>3. turns \in Seq(Nat) /\ Increasing(turns)
  BY <1>1 DEF WorkRow, Collecting
<1> HIDE DEF turns, says
<1>4. InSequence(work'.batches, says) /\ Sent(work'.batches) = {turns[i] : i \in DOMAIN turns}
  BY <1>2, <1>3, BatchesInSequence
<1>5. \A m : ~Listed(m, work'.stored)
  BY <1>2 DEF Listed
<1>6. StoredTurns(work', row') = {}
  BY <1>5, StoredTurnsAre
<1>7. Active(row', begun') = {} /\ work.created = <<>> /\ Sent(work'.batches) = Since(says, work.turn)
  BY <1>1, <1>4 DEF Collecting, turns
<1>8. AtPause(work', says)
  BY <1>2 DEF AtPause, says
<1>9. StoringOK(work', row', begun', says)
  BY <1>2, <1>4, <1>5, <1>6, <1>7, <1>8 DEF StoringOK
<1> QED BY <1>2, <1>9 DEF LiveOK, Case, says

LEMMA ReadTurnLive ==
  ASSUME EvaluationInv, LiveInv, ReadTurn
  PROVE  LiveInv'
<1>1. work # Null /\ work.at = "turns" /\ UNCHANGED <<runner, row, begun>>
  BY DEF ReadTurn, At, storeVars, historyVars
<1> SUFFICES ASSUME Single PROVE LiveOK(work', row', begun')
  BY <1>1, SingleStays DEF LiveInv
<1> DEFINE says == Turns[Case]
           t == work.turn
           turns == work.pending
<1>2. /\ work \in WorkRow /\ Case \in Cases /\ ~Config.extraction /\ ~Config.grouped
      /\ Collecting(work, row, begun, says)
  BY <1>1, SingleHas DEF LiveOK, Case, Single
<1>3. Len(says) \in Nat /\ DOMAIN says = 1 .. Len(says) /\ t \in 1 .. Len(says) + 1
  BY <1>2, SaysType DEF Collecting
<1>4. CASE t > Len(says)
  <2>1. work' = Storing /\ AtPause(work, says)
    BY <1>3, <1>4 DEF ReadTurn, AtPause
  <2> QED BY <1>1, <2>1, StoringLive
<1>5. CASE ~(t > Len(says)) /\ says[t].kind = "forget"
  <2>1. t \in DOMAIN says
    BY <1>3, <1>5
  <2>2. work' = Storing /\ AtPause(work, says)
    BY <1>2, <1>5, <2>1 DEF ReadTurn, AtPause, Turn
  <2> QED BY <1>1, <2>2, StoringLive
<1>6. CASE ~(t > Len(says)) /\ says[t].kind \in {"query", "other"}
  <2>1. t \in DOMAIN says /\ t + 1 \in 1 .. Len(says) + 1
    BY <1>3, <1>6
  <2>2. work' = [work EXCEPT !.turn = work.turn + 1]
    BY <1>2, <1>6 DEF ReadTurn, Turn
  <2>3. work'.at = "turns" /\ work'.cases = work.cases /\ work'.turn = t + 1
        /\ work'.pending = work.pending /\ work'.created = work.created
    BY <1>1, <1>2, <2>2, RowForm
  <2>4. Since(says, t + 1) = Since(says, t)
    BY <1>2, <1>6, <2>1, SinceSteps
  <2>5. Collecting(work', row', begun', says)
    <3> HIDE DEF says
    <3> QED BY <1>1, <1>2, <2>1, <2>3, <2>4 DEF Collecting
  <2> QED BY <2>3, <2>5 DEF LiveOK, Case
<1>7. CASE ~(t > Len(says)) /\ says[t].kind = "memory"
  <2> DEFINE more == Append(turns, t)
             n == Len(turns)
  <2>1. t \in DOMAIN says /\ t + 1 \in 1 .. Len(says) + 1 /\ t \in Nat
    BY <1>3, <1>7
  <2>2. work' = [work EXCEPT !.pending = more, !.turn = work.turn + 1]
    BY <1>2, <1>7 DEF ReadTurn, Turn
  <2>3. Since(says, t + 1) = Since(says, t) \cup {t}
    BY <1>2, <1>7, <2>1, SinceSteps
  <2>4. turns \in Seq(Nat) /\ Increasing(turns) /\ {turns[i] : i \in DOMAIN turns} = Since(says, t)
    BY <1>2 DEF WorkRow, Collecting
  <2>5. /\ n \in Nat /\ DOMAIN turns = 1 .. n /\ DOMAIN more = 1 .. n + 1
        /\ more[n + 1] = t /\ \A i \in 1 .. n : more[i] = turns[i]
    BY <2>1, <2>4
  <2> HIDE DEF more
  <2>6. work'.at = "turns" /\ work'.cases = work.cases /\ work'.turn = t + 1
        /\ work'.pending = more /\ work'.created = work.created
    BY <1>1, <1>2, <2>2, RowForm
  <2> HIDE DEF says, t, turns, n
  <2>7. \A i \in 1 .. n : turns[i] < t
    BY <2>4, <2>5 DEF Since
  <2>8. \A i \in 1 .. n + 1 : i \in 1 .. n \/ i = n + 1
    BY <2>5
  <2>9. Increasing(more)
    <3> SUFFICES ASSUME NEW i \in 1 .. n + 1, NEW j \in 1 .. n + 1, i < j PROVE more[i] < more[j]
      BY <2>5 DEF Increasing
    <3>1. i \in 1 .. n
      BY <2>5
    <3>2. CASE j \in 1 .. n
      BY <2>4, <2>5, <3>1, <3>2 DEF Increasing
    <3>3. CASE j = n + 1
      BY <2>5, <2>7, <3>1, <3>3
    <3> QED BY <2>8, <3>2, <3>3
  <2>10. {more[i] : i \in DOMAIN more} = Since(says, t) \cup {t}
    <3>1. n + 1 \in 1 .. n + 1 /\ \A i \in 1 .. n : i \in 1 .. n + 1
      BY <2>5
    <3>2. \A x : (\E i \in 1 .. n + 1 : x = more[i]) <=> (\E i \in 1 .. n : x = turns[i]) \/ x = t
      BY <2>5, <2>8, <3>1
    <3> QED BY <2>4, <2>5, <3>2
  <2>11. Collecting(work', row', begun', says)
    BY <1>1, <1>2, <2>1, <2>3, <2>6, <2>9, <2>10 DEF Collecting
  <2> QED BY <2>6, <2>11 DEF LiveOK, Case, says
<1>8. ~(t > Len(says)) => says[t].kind \in {"memory", "forget", "query", "other"}
  BY <1>2, <1>3, SaysType
<1> QED BY <1>4, <1>5, <1>6, <1>7, <1>8

\* What a request writes: its memories after all others, in place of those of their keys.
Keyed(batch) == {j \in DOMAIN batch : Turns[Case][batch[j]].key # Null}
KeyAt(batch, j) == Turns[Case][batch[j]].key
LastKeyed(batch) == {j \in Keyed(batch) : \A h \in Keyed(batch) : KeyAt(batch, h) = KeyAt(batch, j) => h <= j}
Replacing(batch) == {k[2] : k \in {x \in work.keys : \E j \in Keyed(batch) : x[1] = KeyAt(batch, j)}}

LEMMA StoreBatchWrites ==
  ASSUME EvaluationInv, StoreBatch, NEW batch, batch = Head(work.batches)
  PROVE  /\ work # Null /\ work.at = "store" /\ work.batches # <<>> /\ UNCHANGED <<runner, begun>>
         /\ batch \in Seq(Nat)
         /\ Len(row) \in Nat /\ DOMAIN row = 1 .. Len(row)
         /\ DOMAIN row' = 1 .. Len(row) + Len(batch)
         /\ \A m \in DOMAIN row :
               /\ row'[m].by = row[m].by /\ row'[m].turn = row[m].turn
               /\ row'[m].status = IF m \in Replacing(batch) THEN "superseded" ELSE row[m].status
         /\ \A j \in 1 .. Len(batch) :
               /\ row'[Len(row) + j].by = begun /\ row'[Len(row) + j].turn = batch[j]
               /\ row'[Len(row) + j].status = "active"
         /\ \/ work'.at = "clean_up"
            \/ /\ work'.at = "store" /\ work'.cases = work.cases /\ work'.turn = work.turn
               /\ work'.created = work.created /\ work'.pending = work.pending
               /\ work'.batches = Tail(work.batches)
               /\ \A m : Listed(m, work'.stored) <=>
                     Listed(m, work.stored) \/ \E j \in 1 .. Len(batch) : m = Len(row) + j
               /\ work'.keys = {k \in work.keys : k[2] \notin Replacing(batch)} \cup
                               {<<KeyAt(batch, j), Len(row) + j>> : j \in LastKeyed(batch)}
<1> DEFINE n == Len(batch)
           old == Replacing(batch)
           ids == [j \in DOMAIN batch |-> Len(row) + j]
           stored == work.stored \o ids
           keys == {k \in work.keys : k[2] \notin old} \cup
                   {<<KeyAt(batch, j), Len(row) + j>> : j \in LastKeyed(batch)}
           rest == Tail(work.batches)
           before == [m \in DOMAIN row |->
                        IF m \in old THEN [row[m] EXCEPT !.status = "superseded"] ELSE row[m]]
           new == NewRows(batch, "active")
<1>1. /\ work # Null /\ work.at = "store" /\ work \in WorkRow /\ work.batches # <<>>
      /\ Case \in Cases
  BY AtHand DEF StoreBatch, At
<1>2. /\ row' = before \o new
      /\ Answered([work EXCEPT !.batches = rest, !.stored = stored, !.keys = keys])
      /\ UNCHANGED <<runner, begun>>
  BY DEF StoreBatch, NewRows, Replacing, Keyed, KeyAt, LastKeyed
<1>3. /\ row \in Seq(MemoryRow) /\ Len(row) \in Nat /\ DOMAIN row = 1 .. Len(row)
      /\ \A m \in DOMAIN row : row[m] \in MemoryRow
  BY DEF EvaluationInv, EvaluationTypeOK
<1>4. batch \in Seq(Nat) /\ n \in Nat /\ DOMAIN batch = 1 .. n /\ \A j \in 1 .. n : batch[j] \in Nat
  <2>1. batch \in Seq(Nat)
    BY <1>1 DEF WorkRow
  <2> QED BY <2>1
<1>5. begun \in Nat /\ Workspace \in Nat
  BY <1>1, AtHand DEF EvaluationInv, EvaluationTypeOK, Workspace
<1> HIDE DEF old
<1>6. \A m \in DOMAIN row :
         /\ before[m] \in MemoryRow
         /\ before[m].by = row[m].by /\ before[m].turn = row[m].turn
         /\ before[m].status = IF m \in old THEN "superseded" ELSE row[m].status
  <2>1. \A m \in DOMAIN row :
           LET gone == [row[m] EXCEPT !.status = "superseded"] IN
           /\ gone \in MemoryRow /\ gone.by = row[m].by /\ gone.turn = row[m].turn
           /\ gone.status = "superseded"
    BY <1>3 DEF MemoryRow, Live
  <2> SUFFICES ASSUME NEW m \in DOMAIN row
               PROVE  /\ before[m] \in MemoryRow
                      /\ before[m].by = row[m].by /\ before[m].turn = row[m].turn
                      /\ before[m].status = IF m \in old THEN "superseded" ELSE row[m].status
    OBVIOUS
  <2>2. CASE m \in old
    <3>1. before[m] = [row[m] EXCEPT !.status = "superseded"]
      BY <2>2
    <3> HIDE DEF before
    <3> QED BY <2>1, <2>2, <3>1
  <2>3. CASE m \notin old
    <3>1. before[m] = row[m]
      BY <2>3
    <3> HIDE DEF before
    <3> QED BY <1>3, <2>3, <3>1
  <2> QED BY <2>2, <2>3
<1>7. before \in Seq(MemoryRow) /\ Len(before) = Len(row)
  <2>1. before = [m \in 1 .. Len(row) |-> before[m]]
    BY <1>3
  <2> HIDE DEF before
  <2> QED BY <1>3, <1>6, <2>1, SeqOfFunction
<1>8. \A j \in 1 .. n : /\ new[j] \in MemoryRow /\ new[j].by = begun /\ new[j].turn = batch[j]
                        /\ new[j].status = "active"
  BY <1>4, <1>5 DEF NewRows, NewRow, MemoryRow, Live
<1>9. new \in Seq(MemoryRow) /\ Len(new) = n
  <2>1. new = [j \in 1 .. n |-> new[j]]
    BY <1>4 DEF NewRows
  <2> HIDE DEF new, n
  <2> QED BY <1>4, <1>8, <2>1, SeqOfFunction
<1> HIDE DEF before, new
<1>10. /\ DOMAIN row' = 1 .. Len(row) + n
       /\ \A m \in DOMAIN row : row'[m] = before[m]
       /\ \A j \in 1 .. n : row'[Len(row) + j] = new[j]
  <2>1. DOMAIN (before \o new) = 1 .. Len(before) + Len(new)
    BY ONLY <1>7, <1>9, ConcatParts
  <2>2. \A i \in 1 .. Len(before) : (before \o new)[i] = before[i]
    BY ONLY <1>7, <1>9, ConcatParts
  <2>3. \A i \in 1 .. Len(new) : (before \o new)[Len(before) + i] = new[i]
    BY ONLY <1>7, <1>9, ConcatParts
  <2> QED BY <1>2, <1>3, <1>7, <1>9, <2>1, <2>2, <2>3
<1>11. \A m : Listed(m, stored) <=> Listed(m, work.stored) \/ \E j \in 1 .. n : m = Len(row) + j
  <2> DEFINE s == work.stored
  <2>1. s \in Seq(Nat)
    BY <1>1 DEF WorkRow
  <2>2. ids = [j \in 1 .. n |-> ids[j]] /\ \A j \in 1 .. n : ids[j] \in Nat /\ ids[j] = Len(row) + j
    BY <1>3, <1>4
  <2> HIDE DEF ids, s, n
  <2>3. ids \in Seq(Nat) /\ Len(ids) = n
    BY <1>4, <2>2, SeqOfFunction
  <2>4. \A m : Listed(m, s \o ids) <=> Listed(m, s) \/ Listed(m, ids)
    BY <2>1, <2>3, ListedConcat
  <2>5. \A m : Listed(m, ids) <=> \E j \in 1 .. n : m = Len(row) + j
    BY <2>2, <2>3 DEF Listed
  <2> QED BY <2>4, <2>5 DEF s
<1> HIDE DEF ids, stored, keys, rest
<1>12. CASE work' = Failed
  <2>1. work'.at = "clean_up"
    BY <1>1, <1>12, FailedIsPast
  <2>2. \A m \in DOMAIN row :
           /\ row'[m].by = row[m].by /\ row'[m].turn = row[m].turn
           /\ row'[m].status = IF m \in Replacing(batch) THEN "superseded" ELSE row[m].status
    BY <1>6, <1>10 DEF old
  <2> QED BY <1>1, <1>2, <1>3, <1>4, <1>8, <1>10, <2>1, <2>2
<1>13. CASE work' = [work EXCEPT !.batches = rest, !.stored = stored, !.keys = keys]
  <2>1. /\ work'.at = work.at /\ work'.cases = work.cases /\ work'.turn = work.turn
        /\ work'.created = work.created /\ work'.pending = work.pending
        /\ work'.batches = rest /\ work'.stored = stored /\ work'.keys = keys
    BY <1>1, <1>13, RowForm
  <2>2. work'.keys = {k \in work.keys : k[2] \notin Replacing(batch)} \cup
                     {<<KeyAt(batch, j), Len(row) + j>> : j \in LastKeyed(batch)}
    BY <2>1 DEF keys, old
  <2>3. \A m \in DOMAIN row :
           /\ row'[m].by = row[m].by /\ row'[m].turn = row[m].turn
           /\ row'[m].status = IF m \in Replacing(batch) THEN "superseded" ELSE row[m].status
    BY <1>6, <1>10 DEF old
  <2>4. \A m : Listed(m, work'.stored) <=>
              Listed(m, work.stored) \/ \E j \in 1 .. Len(batch) : m = Len(row) + j
    BY <1>11, <2>1
  <2>5. /\ work'.at = "store" /\ work'.cases = work.cases /\ work'.turn = work.turn
        /\ work'.created = work.created /\ work'.pending = work.pending
        /\ work'.batches = Tail(work.batches)
    BY <1>1, <2>1 DEF rest
  <2>6. \A j \in 1 .. Len(batch) :
           /\ row'[Len(row) + j].by = begun /\ row'[Len(row) + j].turn = batch[j]
           /\ row'[Len(row) + j].status = "active"
    BY <1>8, <1>10
  <2>7. DOMAIN row' = 1 .. Len(row) + Len(batch)
    BY <1>10
  <2> QED BY <1>1, <1>2, <1>3, <1>4, <2>2, <2>3, <2>4, <2>5, <2>6, <2>7
<1> QED BY <1>2, <1>12, <1>13 DEF Answered

\* The first request and those after it.
LEMMA FirstSent ==
  ASSUME NEW requests \in Seq(Seq(Nat)), requests # <<>>, NEW says, InSequence(requests, says),
         NEW batch, batch = Head(requests)
  PROVE  /\ \A i : i \in Sent(requests) <=>
               (\E j \in DOMAIN batch : i = batch[j]) \/ i \in Sent(Tail(requests))
         /\ \A j \in DOMAIN batch : \A i \in Sent(Tail(requests)) : batch[j] < i
         /\ InSequence(Tail(requests), says)
         /\ Increasing(batch) /\ OneOfAKey(batch, says)
<1> DEFINE L == Len(requests)
           rest == Tail(requests)
<1>1. /\ L \in Nat \ {0} /\ DOMAIN requests = 1 .. L /\ DOMAIN rest = 1 .. L - 1
      /\ \A a \in 1 .. L - 1 : rest[a] = requests[a + 1] /\ a + 1 \in 1 .. L /\ 1 < a + 1
      /\ batch = requests[1] /\ 1 \in 1 .. L
  OBVIOUS
<1>2. \A a \in 1 .. L : a = 1 \/ (a - 1 \in 1 .. L - 1 /\ rest[a - 1] = requests[a])
  BY <1>1
<1>3. \A a, b \in 1 .. L - 1 : a < b => a + 1 < b + 1
  BY <1>1
<1> HIDE DEF L, rest
<1>4. ASSUME NEW i
      PROVE  i \in Sent(requests) <=> (\E j \in DOMAIN batch : i = batch[j]) \/ i \in Sent(rest)
  <2>1. ASSUME i \in Sent(requests) PROVE (\E j \in DOMAIN batch : i = batch[j]) \/ i \in Sent(rest)
    <3>1. PICK a \in DOMAIN requests : \E j \in DOMAIN requests[a] : i = requests[a][j]
      BY <2>1, SentIs
    <3>2. CASE a = 1
      BY <1>1, <3>1, <3>2
    <3>3. CASE a # 1
      <4>1. a - 1 \in DOMAIN rest /\ rest[a - 1] = requests[a]
        BY <1>1, <1>2, <3>1, <3>3
      <4> QED BY <3>1, <4>1, SentIs
    <3> QED BY <3>2, <3>3
  <2>2. ASSUME i \in Sent(rest) PROVE i \in Sent(requests)
    <3>1. PICK a \in DOMAIN rest : \E j \in DOMAIN rest[a] : i = rest[a][j]
      BY <2>2, SentIs
    <3>2. a + 1 \in DOMAIN requests /\ rest[a] = requests[a + 1]
      BY <1>1, <3>1
    <3> QED BY <3>1, <3>2, SentIs
  <2>3. ASSUME NEW j \in DOMAIN batch, i = batch[j] PROVE i \in Sent(requests)
    <3>1. 1 \in DOMAIN requests /\ batch = requests[1]
      BY <1>1
    <3> QED BY <2>3, <3>1, SentIs
  <2> QED BY <2>1, <2>2, <2>3
<1>5. \A j \in DOMAIN batch : \A i \in Sent(rest) : batch[j] < i
  <2> SUFFICES ASSUME NEW j \in DOMAIN batch, NEW i \in Sent(rest) PROVE batch[j] < i
    OBVIOUS
  <2>1. PICK a \in DOMAIN rest : \E h \in DOMAIN rest[a] : i = rest[a][h]
    BY SentIs
  <2>2. a + 1 \in DOMAIN requests /\ 1 \in DOMAIN requests /\ 1 < a + 1 /\ rest[a] = requests[a + 1]
    BY <1>1, <2>1
  <2>3. AllBefore(requests[1], requests[a + 1])
    BY <2>2 DEF InSequence
  <2> QED BY <1>1, <2>1, <2>2, <2>3 DEF AllBefore
<1>6. InSequence(rest, says)
  <2>1. ASSUME NEW a \in 1 .. L - 1, NEW b \in 1 .. L - 1, a < b PROVE AllBefore(rest[a], rest[b])
    <3>1. a + 1 \in DOMAIN requests /\ b + 1 \in DOMAIN requests /\ a + 1 < b + 1
      BY <1>1, <1>3, <2>1
    <3> QED BY <1>1, <3>1 DEF InSequence
  <2>2. ASSUME NEW a \in 1 .. L - 1 PROVE Increasing(rest[a]) /\ OneOfAKey(rest[a], says)
    <3>1. a + 1 \in DOMAIN requests /\ rest[a] = requests[a + 1]
      BY <1>1
    <3> QED BY <3>1 DEF InSequence
  <2> QED BY <1>1, <2>1, <2>2 DEF InSequence
<1>7. Increasing(batch) /\ OneOfAKey(batch, says)
  BY <1>1 DEF InSequence
<1> QED BY <1>4, <1>5, <1>6, <1>7 DEF rest

LEMMA StoreBatchLive ==
  ASSUME EvaluationInv, LiveInv, StoreBatch
  PROVE  LiveInv'
<1> DEFINE batch == Head(work.batches)
           rest == Tail(work.batches)
           n == Len(batch)
           N == Len(row)
           says == Turns[Case]
           old == Replacing(batch)
           T == StoredTurns(work, row)
           T2 == StoredTurns(work', row')
<1>1. work # Null /\ work.at = "store" /\ work.batches # <<>> /\ UNCHANGED <<runner, begun>>
  BY StoreBatchWrites
<1> SUFFICES ASSUME work'.at # "clean_up", Single PROVE LiveOK(work', row', begun')
  BY <1>1, SingleStays, PastTheAnswer DEF LiveInv
<1>2. /\ batch \in Seq(Nat) /\ N \in Nat /\ DOMAIN row = 1 .. N /\ DOMAIN row' = 1 .. N + n
      /\ \A m \in DOMAIN row :
            /\ row'[m].by = row[m].by /\ row'[m].turn = row[m].turn
            /\ row'[m].status = IF m \in old THEN "superseded" ELSE row[m].status
      /\ \A j \in 1 .. n :
            /\ row'[N + j].by = begun /\ row'[N + j].turn = batch[j]
            /\ row'[N + j].status = "active"
      /\ work'.at = "store" /\ work'.cases = work.cases /\ work'.turn = work.turn
      /\ work'.created = work.created /\ work'.pending = work.pending
      /\ work'.batches = rest
      /\ \A m : Listed(m, work'.stored) <=>
            Listed(m, work.stored) \/ \E j \in 1 .. n : m = N + j
      /\ work'.keys = {k \in work.keys : k[2] \notin old} \cup
                      {<<KeyAt(batch, j), N + j>> : j \in LastKeyed(batch)}
  <2> DEFINE first == Head(work.batches)
  <2>1. batch = first /\ rest = Tail(work.batches)
    OBVIOUS
  <2> HIDE DEF batch, rest
  <2> QED BY <2>1, StoreBatchWrites
<1>3. /\ work \in WorkRow /\ Case \in Cases /\ StoringOK(work, row, begun, says)
      /\ work.batches \in Seq(Seq(Nat)) /\ work.keys \subseteq Keys \X Nat
  <2>1. work \in WorkRow /\ Case \in Cases /\ LiveOK(work, row, begun)
    BY SingleHas
  <2> QED BY <1>1, <2>1 DEF LiveOK, Case, WorkRow
<1>4. /\ \A i : i \in Sent(work.batches) <=> (\E j \in DOMAIN batch : i = batch[j]) \/ i \in Sent(rest)
      /\ \A j \in DOMAIN batch : \A i \in Sent(rest) : batch[j] < i
      /\ InSequence(rest, says)
      /\ Increasing(batch) /\ OneOfAKey(batch, says)
  <2> DEFINE requests == work.batches
  <2>1. InSequence(requests, says) /\ requests \in Seq(Seq(Nat)) /\ requests # <<>>
    BY <1>1, <1>3 DEF StoringOK
  <2>2. batch = Head(requests) /\ rest = Tail(requests)
    OBVIOUS
  <2> HIDE DEF says, requests, batch, rest
  <2>3. /\ \A i : i \in Sent(requests) <=> (\E j \in DOMAIN batch : i = batch[j]) \/ i \in Sent(Tail(requests))
        /\ \A j \in DOMAIN batch : \A i \in Sent(Tail(requests)) : batch[j] < i
        /\ InSequence(Tail(requests), says)
        /\ Increasing(batch) /\ OneOfAKey(batch, says)
    BY <2>1, <2>2, FirstSent
  <2> QED BY <2>2, <2>3 DEF requests
<1>5. n \in Nat /\ DOMAIN batch = 1 .. n /\ \A j \in 1 .. n : batch[j] \in Nat
  BY <1>2
<1>6. \A m : m \in old <=>
         /\ m \in Active(row, begun)
         /\ \E j \in 1 .. n : /\ says[batch[j]].key # Null
                              /\ says[row[m].turn].key = says[batch[j]].key
  <2>1. \A m : m \in old <=> \E x \in work.keys : m = x[2] /\ \E j \in Keyed(batch) : x[1] = KeyAt(batch, j)
    BY DEF Replacing
  <2>2. \A x \in work.keys : x = <<x[1], x[2]>>
    BY <1>3
  <2>3. \A k, m : <<k, m>> \in work.keys <=>
           m \in Active(row, begun) /\ k = says[row[m].turn].key /\ k # Null
    BY <1>3 DEF StoringOK
  <2>4. \A j : j \in Keyed(batch) <=> j \in 1 .. n /\ says[batch[j]].key # Null
    BY <1>5 DEF Keyed
  <2>5. \A j : KeyAt(batch, j) = says[batch[j]].key
    BY DEF KeyAt
  <2> HIDE DEF old, batch, says, n
  <2>6. \A m : m \in old => /\ m \in Active(row, begun)
                            /\ \E j \in 1 .. n : /\ says[batch[j]].key # Null
                                                 /\ says[row[m].turn].key = says[batch[j]].key
    BY <2>1, <2>2, <2>3, <2>4, <2>5
  <2>7. ASSUME NEW m \in Active(row, begun), NEW j \in 1 .. n,
               says[batch[j]].key # Null, says[row[m].turn].key = says[batch[j]].key
        PROVE  m \in old
    <3>1. <<says[row[m].turn].key, m>> \in work.keys
      BY <2>3, <2>7
    <3>2. <<says[row[m].turn].key, m>>[1] = KeyAt(batch, j) /\ <<says[row[m].turn].key, m>>[2] = m
      BY <2>5, <2>7
    <3>3. j \in Keyed(batch)
      BY <2>4, <2>7
    <3> QED BY <2>1, <3>1, <3>2, <3>3
  <2> QED BY <2>6, <2>7
<1>7. /\ \A j \in 1 .. n : N + j \in DOMAIN row' /\ N + j \notin DOMAIN row
      /\ \A m \in DOMAIN row' : m \in DOMAIN row \/ \E j \in 1 .. n : m = N + j
      /\ \A i, j \in 1 .. n : N + i = N + j => i = j
      /\ \A m \in DOMAIN row : m \in DOMAIN row'
  <2>1. \A m \in 1 .. N + n : m \in 1 .. N \/ (m - N \in 1 .. n /\ m = N + (m - N))
    BY <1>2, <1>5
  <2> HIDE DEF n, N
  <2>2. \A m \in 1 .. N + n : m \in 1 .. N \/ \E j \in 1 .. n : m = N + j
    BY <2>1
  <2>3. /\ \A j \in 1 .. n : N + j \in 1 .. N + n /\ N + j \notin 1 .. N
        /\ \A m \in 1 .. N : m \in 1 .. N + n
        /\ \A i, j \in 1 .. n : N + i = N + j => i = j
    BY <1>2, <1>5
  <2>4. DOMAIN row = 1 .. N /\ DOMAIN row' = 1 .. N + n
    BY <1>2
  <2> QED BY <2>2, <2>3, <2>4
<1> HIDE DEF batch, rest, n, N, says, old
<1>8. \A m : Listed(m, work.stored) => m \in DOMAIN row /\ row[m].by = begun
  BY <1>3 DEF StoringOK
<1>9. /\ \A i : i \in T <=> \E m : Listed(m, work.stored) /\ i = row[m].turn
      /\ \A i : i \in T2 <=> i \in T \/ \E j \in 1 .. n : i = batch[j]
  <2>1. \A i : i \in T <=> \E m : Listed(m, work.stored) /\ i = row[m].turn
    BY StoredTurnsAre
  <2>2. \A i : i \in T2 <=> \E m : Listed(m, work'.stored) /\ i = row'[m].turn
    BY StoredTurnsAre
  <2> HIDE DEF T, T2
  <2>3. \A m : Listed(m, work.stored) => row'[m].turn = row[m].turn /\ Listed(m, work'.stored)
    BY <1>2, <1>8
  <2>4. \A j \in 1 .. n : Listed(N + j, work'.stored) /\ row'[N + j].turn = batch[j]
    BY <1>2
  <2>5. \A i \in T2 : i \in T \/ \E j \in 1 .. n : i = batch[j]
    <3> SUFFICES ASSUME NEW m, Listed(m, work'.stored)
                 PROVE  row'[m].turn \in T \/ \E j \in 1 .. n : row'[m].turn = batch[j]
      BY <2>2
    <3>1. CASE Listed(m, work.stored)
      BY <2>1, <2>3, <3>1
    <3>2. ASSUME NEW j \in 1 .. n, m = N + j PROVE row'[m].turn = batch[j]
      BY <2>4, <3>2
    <3> QED BY <1>2, <3>1, <3>2
  <2>6. \A i \in T : i \in T2
    BY <2>1, <2>2, <2>3
  <2>7. \A j \in 1 .. n : batch[j] \in T2
    BY <2>2, <2>4
  <2> QED BY <2>1, <2>5, <2>6, <2>7
<1>10. /\ T \cup Sent(work.batches) = Since(says, work.turn)
       /\ \A i \in T, j \in Sent(work.batches) : i < j
       /\ \A m : Listed(m, work.stored) =>
             (row[m].status = "active" <=> ~Replaced(says, T, row[m].turn))
       /\ \A l, m : Listed(l, work.stored) /\ Listed(m, work.stored) /\ row[l].turn = row[m].turn => l = m
       /\ \A m \in Active(row, begun) : Listed(m, work.stored)
       /\ \A k, m : <<k, m>> \in work.keys <=>
             m \in Active(row, begun) /\ k = says[row[m].turn].key /\ k # Null
       /\ AtPause(work, says) /\ work.created = <<>> /\ work.pending = <<>>
  BY <1>3 DEF StoringOK
<1> HIDE DEF T, T2
<1>11. \A j \in 1 .. n : batch[j] \in Sent(work.batches) /\ \A i \in T : i < batch[j]
  BY <1>4, <1>5, <1>10
<1>12. \A i \in T : i \in Nat
  <2>1. \A i \in T : i \in DOMAIN says
    BY <1>10 DEF Since
  <2> QED BY <1>3, <2>1, SaysType DEF says
<1>13. \A m : m \in Active(row', begun) <=>
         \/ m \in Active(row, begun) /\ m \notin old
         \/ \E j \in 1 .. n : m = N + j
  <2>1. \A m \in DOMAIN row : m \in Active(row', begun) <=> m \in Active(row, begun) /\ m \notin old
    BY <1>2, <1>7 DEF Active
  <2>2. \A j \in 1 .. n : N + j \in Active(row', begun)
    BY <1>2, <1>7 DEF Active
  <2>3. \A m : m \in Active(row', begun) => m \in DOMAIN row'
    BY DEF Active
  <2>4. \A m : m \in Active(row, begun) => m \in DOMAIN row
    BY DEF Active
  <2> QED BY <1>7, <2>1, <2>2, <2>3, <2>4
<1>14. \A m \in Active(row', begun) : Listed(m, work'.stored)
  BY <1>2, <1>10, <1>13
<1>15. \A m : Listed(m, work'.stored) => m \in DOMAIN row' /\ row'[m].by = begun
  BY <1>2, <1>7, <1>8
<1>16. ASSUME NEW l, NEW m, Listed(l, work'.stored), Listed(m, work'.stored), row'[l].turn = row'[m].turn
       PROVE  l = m
  <2>1. CASE Listed(l, work.stored) /\ Listed(m, work.stored)
    BY <1>2, <1>8, <1>10, <1>16, <2>1
  <2>2. ASSUME NEW x, Listed(x, work.stored), NEW j \in 1 .. n PROVE row'[x].turn # row'[N + j].turn
    <3>1. row'[x].turn \in T /\ row'[x].turn = row[x].turn
      BY <1>2, <1>8, <1>9, <2>2
    <3>2. row'[x].turn < batch[j] /\ row'[x].turn \in Nat /\ batch[j] \in Nat
      BY <1>5, <1>11, <1>12, <3>1
    <3> QED BY <1>2, <3>2
  <2>3. ASSUME NEW i \in 1 .. n, NEW j \in 1 .. n, row'[N + i].turn = row'[N + j].turn PROVE i = j
    <3>1. batch[i] = batch[j] /\ batch[i] \in Nat
      BY <1>2, <1>5, <2>3
    <3>2. ~(i < j) /\ ~(j < i)
      BY <1>4, <1>5, <3>1 DEF Increasing
    <3> QED BY <1>5, <3>2
  <2>4. CASE Listed(l, work.stored) /\ ~Listed(m, work.stored)
    <3>1. PICK j \in 1 .. n : m = N + j
      BY <1>2, <1>16, <2>4
    <3> QED BY <1>16, <2>2, <2>4, <3>1
  <2>5. CASE ~Listed(l, work.stored) /\ Listed(m, work.stored)
    <3>1. PICK j \in 1 .. n : l = N + j
      BY <1>2, <1>16, <2>5
    <3> QED BY <1>16, <2>2, <2>5, <3>1
  <2>6. CASE ~Listed(l, work.stored) /\ ~Listed(m, work.stored)
    <3>1. PICK i \in 1 .. n, j \in 1 .. n : l = N + i /\ m = N + j
      BY <1>2, <1>16, <2>6
    <3> QED BY <1>16, <2>3, <3>1
  <2> QED BY <2>1, <2>4, <2>5, <2>6
<1>17. /\ T2 \cup Sent(rest) = Since(says, work.turn)
       /\ \A i \in T2, j \in Sent(rest) : i < j
  BY <1>4, <1>5, <1>9, <1>10
<1>18. ASSUME NEW m, Listed(m, work'.stored)
       PROVE  row'[m].status = "active" <=> ~Replaced(says, T2, row'[m].turn)
  <2>1. ASSUME Listed(m, work.stored)
        PROVE  row'[m].status = "active" <=> ~Replaced(says, T2, row'[m].turn)
    <3> DEFINE t == row[m].turn
               Same == says[t].key # Null /\ \E j \in 1 .. n : says[batch[j]].key = says[t].key
    <3>1. m \in DOMAIN row /\ row[m].by = begun /\ row'[m].turn = t /\ t \in T
      BY <1>2, <1>8, <1>9, <2>1
    <3>2. Replaced(says, T2, t) <=> Replaced(says, T, t) \/ Same
      BY <1>9, <1>11, <3>1 DEF Replaced
    <3>3. m \in Active(row, begun) <=> ~Replaced(says, T, t)
      BY <1>10, <2>1, <3>1 DEF Active
    <3>4. m \in old <=> m \in Active(row, begun) /\ Same
      BY <1>6
    <3>5. row'[m].status = "active" <=> m \in Active(row, begun) /\ m \notin old
      BY <1>2, <3>1 DEF Active
    <3> HIDE DEF Same, t
    <3> QED BY <3>1, <3>2, <3>3, <3>4, <3>5
  <2>2. ASSUME NEW j \in 1 .. n, m = N + j
        PROVE  row'[m].status = "active" <=> ~Replaced(says, T2, row'[m].turn)
    <3>1. row'[m].status = "active" /\ row'[m].turn = batch[j]
      BY <1>2, <2>2
    <3>2. ~Replaced(says, T2, batch[j])
      <4> SUFFICES ASSUME says[batch[j]].key # Null, NEW i \in T2, batch[j] < i,
                          says[i].key = says[batch[j]].key
                   PROVE  FALSE
        BY DEF Replaced
      <4>1. i \notin T
        <5> SUFFICES ASSUME i \in T PROVE FALSE
          OBVIOUS
        <5>1. i < batch[j] /\ i \in Nat /\ batch[j] \in Nat
          BY <1>5, <1>11, <1>12
        <5> QED BY <5>1
      <4>2. PICK h \in 1 .. n : i = batch[h]
        BY <1>9, <4>1
      <4>3. h # j
        BY <1>5, <4>2
      <4> QED BY <1>4, <1>5, <4>2, <4>3 DEF OneOfAKey
    <3> QED BY <3>1, <3>2
  <2> QED BY <1>2, <1>18, <2>1, <2>2
<1>19. ASSUME NEW k, NEW m
       PROVE  <<k, m>> \in work'.keys <=>
                m \in Active(row', begun) /\ k = says[row'[m].turn].key /\ k # Null
  <2>1. \A j : j \in Keyed(batch) <=> j \in 1 .. n /\ says[batch[j]].key # Null
    BY <1>5 DEF Keyed, says
  <2>2. \A j : KeyAt(batch, j) = says[batch[j]].key
    BY DEF KeyAt, says
  <2>3. LastKeyed(batch) = Keyed(batch)
    <3> SUFFICES ASSUME NEW j \in Keyed(batch), NEW h \in Keyed(batch), KeyAt(batch, h) = KeyAt(batch, j)
                 PROVE  h <= j
      BY DEF LastKeyed
    <3>1. h = j /\ h \in 1 .. n
      BY <1>4, <1>5, <2>1, <2>2 DEF OneOfAKey
    <3> QED BY <1>5, <3>1
  <2>4. <<k, m>> \in work'.keys <=>
          \/ <<k, m>> \in work.keys /\ m \notin old
          \/ \E j \in Keyed(batch) : k = KeyAt(batch, j) /\ m = N + j
    BY <1>2, <2>3
  <2>5. ASSUME m \in DOMAIN row
        PROVE  <<k, m>> \in work'.keys <=>
                 m \in Active(row', begun) /\ k = says[row'[m].turn].key /\ k # Null
    <3>1. \A j \in 1 .. n : m # N + j
      BY <1>7, <2>5
    <3>2. row'[m].turn = row[m].turn
      BY <1>2, <2>5
    <3> QED BY <1>10, <1>13, <2>1, <2>4, <3>1, <3>2
  <2>6. ASSUME NEW j \in 1 .. n, m = N + j
        PROVE  <<k, m>> \in work'.keys <=>
                 m \in Active(row', begun) /\ k = says[row'[m].turn].key /\ k # Null
    <3>1. m \notin DOMAIN row /\ row'[m].turn = batch[j] /\ m \in Active(row', begun)
      BY <1>2, <1>7, <1>13, <2>6
    <3>2. <<k, m>> \notin work.keys
      BY <1>10, <3>1 DEF Active
    <3>3. \A h \in 1 .. n : m = N + h => h = j
      BY <1>7, <2>6
    <3> QED BY <2>1, <2>2, <2>4, <2>6, <3>1, <3>2, <3>3
  <2>7. ASSUME m \notin DOMAIN row, \A j \in 1 .. n : m # N + j
        PROVE  <<k, m>> \notin work'.keys /\ m \notin Active(row', begun)
    BY <1>10, <1>13, <2>1, <2>4, <2>7 DEF Active
  <2> QED BY <2>5, <2>6, <2>7
<1>20. AtPause(work', says)
  BY <1>2, <1>10 DEF AtPause
<1>21. StoringOK(work', row', begun, says)
  BY <1>2, <1>4, <1>10, <1>14, <1>15, <1>16, <1>17, <1>18, <1>19, <1>20 DEF StoringOK, T2
<1> QED BY <1>1, <1>2, <1>21 DEF LiveOK, Case, says

\* When all requests are stored, what is active is what the conversation says.
LEMMA AllStored ==
  ASSUME EvaluationInv, LiveInv, Single, work.at = "store", work.batches = <<>>,
         work.turn > Len(Turns[Case])
  PROVE  Compared(row, begun, Case)
<1> DEFINE says == Turns[Case]
           T == StoredTurns(work, row)
           A == Active(row, begun)
           f == [m \in A |-> row[m].turn]
<1>1. /\ work \in WorkRow /\ Case \in Cases /\ StoringOK(work, row, begun, says)
      /\ Len(row) \in Nat /\ DOMAIN row = 1 .. Len(row)
  BY SingleHas DEF LiveOK, Case
<1>2. Len(says) \in Nat /\ DOMAIN says = 1 .. Len(says)
  BY <1>1, SaysType
<1>3. work.turn = Len(says) + 1
  BY <1>1, <1>2 DEF StoringOK, AtPause
<1>4. \A i : i \in Since(says, Len(says) + 1) <=>
        /\ i \in DOMAIN says /\ says[i].kind = "memory"
        /\ \A j \in i + 1 .. Len(says) : says[j].kind # "forget"
  <2>1. (Len(says) + 1) - 1 = Len(says) /\ \A i \in DOMAIN says : i < Len(says) + 1
    BY <1>2
  <2> HIDE DEF says
  <2> QED BY <2>1 DEF Since
<1> HIDE DEF says
<1>5. T = Since(says, Len(says) + 1)
  <2>1. Sent(work.batches) = {}
    BY DEF Sent
  <2> QED BY <1>1, <1>3, <2>1 DEF StoringOK
<1>6. /\ \A m \in A : Listed(m, work.stored)
      /\ \A m : Listed(m, work.stored) => m \in DOMAIN row /\ row[m].by = begun
      /\ \A l, m : Listed(l, work.stored) /\ Listed(m, work.stored) /\ row[l].turn = row[m].turn => l = m
      /\ \A m : Listed(m, work.stored) =>
            (row[m].status = "active" <=> ~Replaced(says, T, row[m].turn))
      /\ \A i : i \in T <=> \E m : Listed(m, work.stored) /\ i = row[m].turn
  BY <1>1, StoredTurnsAre DEF StoringOK
<1> HIDE DEF T
<1>7. \A i : i \in LocalMemories(Case) <=> i \in T /\ ~Replaced(says, T, i)
  <2> SUFFICES ASSUME NEW i PROVE i \in LocalMemories(Case) <=> i \in T /\ ~Replaced(says, T, i)
    OBVIOUS
  <2>1. i \in LocalMemories(Case) <=>
          /\ i \in DOMAIN says /\ says[i].kind = "memory"
          /\ \A j \in i + 1 .. Len(says) :
                /\ says[j].kind # "forget"
                /\ says[i].key # Null => ~(says[j].kind = "memory" /\ says[j].key = says[i].key)
    BY DEF LocalMemories, says
  <2>2. ASSUME i \in T, ~Replaced(says, T, i), NEW j \in i + 1 .. Len(says),
               says[i].key # Null, says[j].kind = "memory", says[j].key = says[i].key
        PROVE  FALSE
    <3>1. i \in 1 .. Len(says) /\ \A k \in i + 1 .. Len(says) : says[k].kind # "forget"
      BY <1>2, <1>4, <1>5, <2>2
    <3>2. /\ j \in DOMAIN says /\ i < j
          /\ \A k \in j + 1 .. Len(says) : k \in i + 1 .. Len(says)
      BY <1>2, <2>2, <3>1
    <3>3. j \in T
      BY <1>4, <1>5, <2>2, <3>1, <3>2
    <3> QED BY <2>2, <3>2, <3>3 DEF Replaced
  <2>3. ASSUME i \in LocalMemories(Case), Replaced(says, T, i) PROVE FALSE
    <3>1. PICK j \in T : i < j /\ says[j].key = says[i].key /\ says[i].key # Null
      BY <2>3 DEF Replaced
    <3>2. j \in DOMAIN says /\ says[j].kind = "memory"
      BY <1>4, <1>5
    <3>3. j \in i + 1 .. Len(says)
      BY <1>2, <2>1, <2>3, <3>1, <3>2
    <3> QED BY <2>1, <2>3, <3>1, <3>2, <3>3
  <2> QED BY <1>4, <1>5, <2>1, <2>2, <2>3
<1>8. \A m \in A : m \in DOMAIN row /\ row[m].by = begun /\ row[m].status = "active"
  BY DEF Active
<1>9. \A i : i \in LocalMemories(Case) <=> \E m \in A : i = row[m].turn
  <2>1. \A m \in A : row[m].turn \in LocalMemories(Case)
    BY <1>6, <1>7, <1>8
  <2>2. ASSUME NEW i \in LocalMemories(Case) PROVE \E m \in A : i = row[m].turn
    <3>1. PICK m : Listed(m, work.stored) /\ i = row[m].turn
      BY <1>6, <1>7
    <3>2. m \in A
      BY <1>6, <1>7, <3>1 DEF Active
    <3> QED BY <3>1, <3>2
  <2> QED BY <2>1, <2>2
<1>10. {row[m].turn : m \in A} = LocalMemories(Case)
  BY <1>9
<1>11. IsFiniteSet(A)
  <2>1. 1 \in Int /\ Len(row) \in Int
    BY <1>1
  <2>2. IsFiniteSet(1 .. Len(row))
    BY <2>1, FS_Interval
  <2>3. A \in SUBSET (1 .. Len(row))
    BY <1>1, <1>8
  <2> HIDE DEF A
  <2> QED BY <2>2, <2>3, FS_Subset
<1>12. Cardinality(LocalMemories(Case)) = Cardinality(A)
  <2> DEFINE L == LocalMemories(Case)
  <2>1. f \in [A -> L]
    BY <1>9
  <2>2. \A l, m \in A : f[l] = f[m] => l = m
    BY <1>6
  <2>3. \A i \in L : \E m \in A : f[m] = i
    BY <1>9
  <2> HIDE DEF f, A, L
  <2>4. f \in Bijection(A, L)
    BY <2>1, <2>2, <2>3 DEF Bijection, Injection, Surjection, IsInjective
  <2>5. ExistsBijection(A, L)
    BY <2>4 DEF ExistsBijection
  <2>6. Cardinality(L) = Cardinality(A)
    BY <1>11, <2>5, FS_Bijection
  <2> QED BY <2>6 DEF L
<1> QED BY <1>10, <1>12 DEF Compared

LEMMA BatchesStoredLive ==
  ASSUME EvaluationInv, LiveInv, BatchesStored
  PROVE  LiveInv'
<1>1. /\ work # Null /\ work.at = "store" /\ work.batches = <<>>
      /\ UNCHANGED <<runner, row, begun>>
  BY DEF BatchesStored, At, storeVars, historyVars
<1> SUFFICES ASSUME Single PROVE LiveOK(work', row', begun')
  BY <1>1, SingleStays DEF LiveInv
<1> DEFINE says == Turns[Case]
<1>2. work \in WorkRow /\ Case \in Cases /\ StoringOK(work, row, begun, says)
  BY <1>1, SingleHas DEF LiveOK, Case
<1>3. CASE work.turn > Len(says)
  <2>1. work' = [work EXCEPT !.created = Noted, !.doomed = <<>>, !.at = "ask"]
    BY <1>3 DEF BatchesStored
  <2>2. work'.at = "ask" /\ work'.cases = work.cases
    BY <1>2, <2>1, RowForm
  <2>3. Compared(row, begun, Case)
    BY <1>1, <1>3, AllStored
  <2> QED BY <1>1, <2>2, <2>3 DEF LiveOK, Case
<1>4. CASE ~(work.turn > Len(says))
  <2>1. work' = [work EXCEPT !.created = Noted, !.doomed = Noted, !.at = "delete"]
    BY <1>4 DEF BatchesStored
  <2>2. /\ work'.at = "delete" /\ work'.cases = work.cases /\ work'.turn = work.turn
        /\ work'.pending = work.pending /\ work'.doomed = Noted
    BY <1>2, <2>1, RowForm
  <2>3. \A m : Listed(m, work.stored) => Listed(m, Noted)
    BY <1>2, NotedListed
  <2>4. Len(says) \in Nat
    BY <1>2, SaysType
  <2> HIDE DEF says
  <2>5. Deleting(work', row', begun', says)
    BY <1>1, <1>2, <1>4, <2>2, <2>3, <2>4 DEF StoringOK, AtPause, Deleting
  <2> QED BY <2>2, <2>5 DEF LiveOK, Case, says
<1> QED BY <1>3, <1>4

LEMMA DeleteMemoryLive ==
  ASSUME EvaluationInv, LiveInv, DeleteMemory
  PROVE  LiveInv'
<1> DEFINE m0 == Head(work.doomed)
           rest == Tail(work.doomed)
           says == Turns[Case]
<1>1. /\ work # Null /\ work.at = "delete" /\ work.doomed # <<>>
      /\ UNCHANGED <<runner, begun>>
  BY DEF DeleteMemory, At
<1>2. CASE work' = Failed
  BY <1>1, <1>2, FailedIsPast, PastTheAnswer
<1>3. CASE work' = [work EXCEPT !.doomed = rest]
  <2> SUFFICES ASSUME Single PROVE LiveOK(work', row', begun')
    BY <1>1, SingleStays DEF LiveInv
  <2>1. /\ work \in WorkRow /\ Case \in Cases /\ Deleting(work, row, begun, says)
        /\ row \in Seq(MemoryRow)
    BY <1>1, SingleHas DEF LiveOK, Case
  <2>2. \A m : Listed(m, work.doomed) <=> m = m0 \/ Listed(m, rest)
    BY <1>1, <2>1, ListedHead DEF WorkRow
  <2>3. Mine(m0)
    BY <1>1, <2>2 DEF EvaluationInv, NotesOK
  <2> HIDE DEF m0, rest, says
  <2>4. row' = [row EXCEPT ![m0].status = "archived"]
    BY DEF DeleteMemory, Archive, m0
  <2>5. /\ DOMAIN row' = DOMAIN row /\ row'[m0].status = "archived"
        /\ \A i \in DOMAIN row : i # m0 => row'[i] = row[i]
    BY <2>3, <2>4, ChangedRow
  <2>6. \A m \in Active(row', begun) : m \in Active(row, begun) /\ m # m0
    BY <2>5 DEF Active
  <2>7. /\ work'.at = "delete" /\ work'.cases = work.cases /\ work'.turn = work.turn
        /\ work'.pending = work.pending /\ work'.doomed = rest
    BY <1>1, <1>3, <2>1, RowForm
  <2>8. Deleting(work', row', begun', says)
    BY <1>1, <2>1, <2>2, <2>6, <2>7 DEF Deleting
  <2> QED BY <2>7, <2>8 DEF LiveOK, Case, says
<1> QED BY <1>2, <1>3 DEF DeleteMemory, Answered

LEMMA AllDeletedLive ==
  ASSUME EvaluationInv, LiveInv, AllDeleted
  PROVE  LiveInv'
<1> DEFINE says == Turns[Case]
           t == work.turn
<1>1. /\ work # Null /\ work.at = "delete" /\ work.doomed = <<>>
      /\ work' = [work EXCEPT !.at = "turns", !.turn = work.turn + 1, !.created = <<>>]
      /\ UNCHANGED <<runner, row, begun>>
  BY DEF AllDeleted, At, storeVars, historyVars
<1> SUFFICES ASSUME Single PROVE LiveOK(work', row', begun')
  BY <1>1, SingleStays DEF LiveInv
<1>2. work \in WorkRow /\ Case \in Cases /\ Deleting(work, row, begun, says)
  BY <1>1, SingleHas DEF LiveOK, Case
<1>3. work'.at = "turns" /\ work'.cases = work.cases /\ work'.turn = t + 1
      /\ work'.pending = work.pending /\ work'.created = <<>>
  BY <1>1, <1>2, RowForm
<1>4. t \in DOMAIN says /\ says[t].kind = "forget" /\ work.pending = <<>> /\ Active(row, begun) = {}
  <2>1. \A m : ~Listed(m, work.doomed)
    BY <1>1 DEF Listed
  <2> QED BY <1>2, <2>1 DEF Deleting
<1>5. t + 1 \in 1 .. Len(says) + 1
  BY <1>2, <1>4, SaysType
<1>6. Since(says, t + 1) = {}
  BY <1>2, <1>4, SinceSteps
<1> HIDE DEF says, t
<1>7. Collecting(work', row', begun', says)
  BY <1>1, <1>3, <1>4, <1>5, <1>6 DEF Collecting, Increasing
<1> QED BY <1>3, <1>7 DEF LiveOK, Case, says

LEMMA AskLive ==
  ASSUME EvaluationInv, LiveInv, Ask
  PROVE  LiveInv'
<1>1. work # Null /\ work.at = "ask" /\ UNCHANGED <<runner, row, begun>>
  BY DEF Ask, At, storeVars
<1> SUFFICES ASSUME Single PROVE LiveOK(work', row', begun')
  BY <1>1, SingleStays DEF LiveInv
<1>2. work \in WorkRow /\ Compared(row, begun, Case)
  BY <1>1, SingleHas DEF LiveOK, Case
<1>3. PICK error \in BOOLEAN :
        LET asked == [work EXCEPT !.answers = Results(error)] IN
        work' = IF Len(asked.answers) = Len(work.cases) THEN CleaningUp(asked) ELSE asked
  BY DEF Ask
<1> DEFINE results == Results(error)
           asked == [work EXCEPT !.answers = results]
<1> HIDE DEF results
<1>4. asked.at = "ask" /\ asked.cases = work.cases /\ asked = [g \in DOMAIN work |-> asked[g]] /\ "at" \in DOMAIN work
  BY <1>1, <1>2, RowForm
<1>5. work' = asked \/ work' = CleaningUp(asked)
  BY <1>3 DEF results
<1> HIDE DEF asked
<1>6. CleaningUp(asked).at = "clean_up"
  BY <1>4 DEF CleaningUp
<1> QED BY <1>1, <1>2, <1>4, <1>5, <1>6 DEF LiveOK, Case

LEMMA BeginCaseLive ==
  ASSUME EvaluationInv, BeginCase
  PROVE  LiveInv'
<1>1. /\ work'.at = "open" /\ work'.turn = 1 /\ work'.pending = <<>> /\ work'.created = <<>>
      /\ begun' = begun + 1 /\ row' = row
  BY DEF BeginCase, storeVars
<1>2. \A m \in DOMAIN row : row[m].by # begun + 1
  <2>1. begun \in Nat /\ \A m \in DOMAIN row : row[m].by \in 1 .. begun
    BY DEF EvaluationInv, EvaluationTypeOK
  <2>2. begun + 1 \notin 1 .. begun
    BY <2>1
  <2> QED BY <2>1, <2>2
<1>3. Active(row', begun') = {}
  BY <1>1, <1>2 DEF Active
<1> QED BY <1>1, <1>3 DEF LiveInv, LiveOK

\* Extraction belongs to command lines of its own.
LEMMA ExtractionLive ==
  ASSUME EvaluationInv, LiveInv, ImportTurn \/ ExtractCandidates \/ ApproveCandidate \/ AllApproved
  PROVE  LiveInv'
<1>1. work # Null /\ work.at \in {"import", "extract", "approve"} /\ UNCHANGED runner
  BY DEF ImportTurn, ExtractCandidates, ApproveCandidate, AllApproved, At
<1>2. ~Single
  BY <1>1 DEF LiveInv, LiveOK
<1> QED BY <1>1, <1>2, SingleStays DEF LiveInv

LEMMA CleaningLive ==
  ASSUME EvaluationInv, CleanMemory \/ Cleaned \/ FailCleaning
  PROVE  LiveInv'
<1>1. work # Null /\ work.at = "clean_up"
  BY DEF CleanMemory, Cleaned, FailCleaning, At
<1>2. work \in WorkRow
  BY <1>1, AtHand
<1>3. CASE CleanMemory
  <2>1. work' = [work EXCEPT !.doomed = Tail(work.doomed)]
    BY <1>3 DEF CleanMemory
  <2>2. work'.at = "clean_up"
    BY <1>1, <1>2, <2>1, RowForm
  <2> QED BY <2>2, PastTheAnswer
<1>4. CASE Cleaned
  <2>1. work' = [work EXCEPT !.at = "record"]
    BY <1>4 DEF Cleaned
  <2>2. work'.at = "record"
    BY <1>2, <2>1, RowForm
  <2> QED BY <2>2, PastTheAnswer
<1>5. CASE FailCleaning
  <2> DEFINE answers == IF Config.grouped THEN <<>> ELSE work.answers
  <2>1. work' = [work EXCEPT !.at = "record", !.doomed = <<>>, !.answers = answers]
    BY <1>5 DEF FailCleaning
  <2> HIDE DEF answers
  <2>2. work'.at = "record"
    BY <1>2, <2>1, RowForm
  <2> QED BY <2>2, PastTheAnswer
<1> QED BY <1>3, <1>4, <1>5

LEMMA RunnerStepLive ==
  ASSUME EvaluationInv, LiveInv, RunnerStep
  PROVE  LiveInv'
<1>1. CASE FailCall
  BY <1>1, FailedIsPast, PastTheAnswer DEF FailCall
<1>2. CASE Record
  BY <1>2, PastTheAnswer DEF Record
<1>3. CASE Finish
  BY <1>3, PastTheAnswer DEF Finish
<1> QED BY <1>1, <1>2, <1>3, BeginCaseLive, OpenWorkspaceLive, ReadTurnLive, StoreBatchLive,
           BatchesStoredLive, DeleteMemoryLive, AllDeletedLive, ExtractionLive, AskLive, CleaningLive
        DEF RunnerStep

-------------------------------------------------------------------------------
(* The theorems. *)

IInv == EvaluationInv /\ JudgeInv

LEMMA InitInv == Init => IInv
<1> SUFFICES ASSUME Init PROVE IInv
  OBVIOUS
<1>1. EvaluationTypeOK
  BY EvaluationAssumption DEF Init, EvaluationInit, EvaluationTypeOK
<1>2. TurnsOK /\ NotesOK /\ AnswersOK /\ Owed /\ OrderOK
  BY DEF Init, EvaluationInit, TurnsOK, NotesOK, AnswersOK, Owed, OrderOK
<1>3. judge = Null /\ judged = Null /\ judges = 0 /\ paid = {} /\ torn = FALSE
  BY DEF Init
<1>4. 0 \in 0 .. MaxJudges
  BY JudgingAssumption
<1>5. TypeOK
  BY <1>1, <1>3, <1>4 DEF TypeOK
<1> QED BY <1>1, <1>2, <1>3, <1>5 DEF IInv, EvaluationInv, JudgeInv, HasVerdicts

LEMMA NextInv ==
  ASSUME IInv, [Next]_vars
  PROVE  IInv'
<1>1. EvaluationInv /\ JudgeInv
  BY DEF IInv
<1>2. ASSUME EvaluationInv', UNCHANGED judgingVars PROVE IInv'
  BY <1>1, <1>2 DEF IInv, JudgeInv, EvaluationInv, TypeOK, judgingVars, HasVerdicts
<1>3. ASSUME JudgeInv', UNCHANGED evaluationVars PROVE IInv'
  <2>1. kills' \in 0 .. MaxKills
    BY <1>1, <1>3 DEF EvaluationInv, EvaluationTypeOK, evaluationVars, historyVars
  <2>2. EvaluationInv'
    BY <1>1, <1>3, <2>1, JudgeKeepsEvaluation DEF evaluationVars, historyVars
  <2> QED BY <1>3, <2>2 DEF IInv
<1>4. ASSUME NEW config \in Configs, judge = Null /\ Start(config) /\ UNCHANGED judgingVars
      PROVE  IInv'
  BY <1>1, <1>2, <1>4, StartKeeps
<1>5. CASE RunnerStep /\ UNCHANGED judgingVars
  BY <1>1, <1>2, <1>5, RunnerStepKeeps
<1>6. CASE Kill /\ UNCHANGED judgingVars
  BY <1>1, <1>2, <1>6, KillKeeps
<1>7. CASE StartJudge
  BY <1>1, <1>3, <1>7, StartJudgeKeeps DEF StartJudge
<1>8. CASE WriteRows
  BY <1>1, <1>3, <1>8, WriteRowsKeeps DEF WriteRows
<1>9. CASE SkipJudged
  BY <1>1, <1>3, <1>9, SkipJudgedKeeps DEF SkipJudged
<1>10. CASE GiveVerdict
  BY <1>1, <1>3, <1>10, GiveVerdictKeeps DEF GiveVerdict
<1>11. CASE FailVerdict
  BY <1>1, <1>3, <1>11, FailVerdictKeeps DEF FailVerdict
<1>12. CASE FinishJudging
  BY <1>1, <1>3, <1>12, FinishJudgingKeeps DEF FinishJudging
<1>13. CASE KillJudge
  BY <1>1, <1>13, KillJudgeKeeps DEF IInv
<1>14. CASE UNCHANGED vars
  <2>1. UNCHANGED judgingVars /\ UNCHANGED evaluationVars
    BY <1>14 DEF vars
  <2>2. JudgeInv'
    <3>1. EvaluationTypeOK'
      BY <1>1, <2>1 DEF EvaluationInv, EvaluationTypeOK, evaluationVars, storeVars, historyVars
    <3> QED BY <1>1, <2>1, <3>1 DEF JudgeInv, TypeOK, judgingVars, HasVerdicts
  <2> QED BY <1>3, <2>1, <2>2
<1> QED BY <1>4, <1>5, <1>6, <1>7, <1>8, <1>9, <1>10, <1>11, <1>12, <1>13, <1>14 DEF Next

LEMMA NextLive ==
  ASSUME IInv, LiveInv, [Next]_vars
  PROVE  LiveInv'
<1>1. EvaluationInv
  BY DEF IInv
<1>2. CASE UNCHANGED <<runner, work, row, begun>>
  BY <1>2 DEF LiveInv, Single, Config
<1>3. ASSUME NEW config \in Configs, Start(config) PROVE LiveInv'
  <2>1. work = Null
    BY <1>1, <1>3 DEF EvaluationInv, EvaluationTypeOK, Start, StartRun, StartGroup, Runner
  <2> QED BY <1>3, <2>1, PastTheAnswer DEF Start
<1>4. CASE RunnerStep
  BY <1>1, <1>4, RunnerStepLive
<1>5. CASE Kill
  BY <1>5, PastTheAnswer DEF Kill
<1>6. CASE \/ StartJudge \/ WriteRows \/ SkipJudged \/ GiveVerdict \/ FailVerdict
           \/ FinishJudging \/ KillJudge \/ UNCHANGED vars
  <2>1. UNCHANGED <<runner, work, row, begun>>
    BY <1>6 DEF StartJudge, WriteRows, SkipJudged, GiveVerdict, FailVerdict, FinishJudging,
                KillJudge, vars, evaluationVars, storeVars, historyVars
  <2> QED BY <1>2, <2>1
<1> QED BY <1>3, <1>4, <1>5, <1>6 DEF Next

\* The inductive invariant: the types, what the case at hand noted of the memories it stored,
\* the order of the output, and the verdicts among the rows of the judge.
THEOREM Invariance == Spec => []IInv
BY InitInv, NextInv, PTL DEF Spec

\* Every reachable state of the runner and of the judge is well typed: no identifier is noted
\* of a memory that is not stored.
THEOREM TypeCorrect == Spec => []TypeOK
<1>1. IInv => TypeOK
  BY DEF IInv, JudgeInv
<1> QED BY <1>1, Invariance, PTL

\* For every dataset, command line, size of requests and sequence of failures and kills, what is
\* left in the store between two cases is explained by a failure, a kill or a request to keep
\* it: the list of identifiers misses none (LiveMemoryBaseline.run_case and its clean-up).
THEOREM NothingLeftUnexplained == Spec => []LeftoversExplained
<1>1. IInv => LeftoversExplained
  BY DEF IInv, EvaluationInv, Owed, LeftoversExplained
<1> QED BY <1>1, Invariance, PTL

\* While a conversation is replayed, the turns since the last request to forget are those stored
\* and those in requests to come, and the newest memory of every key is the active one.
THEOREM ReplayFollowsConversation == Spec => []LiveInv
<1>1. Init => LiveInv
  BY DEF Init, EvaluationInit, LiveInv, Single
<1>2. IInv /\ LiveInv /\ [Next]_vars => LiveInv'
  BY NextLive
<1> QED BY <1>1, <1>2, Invariance, PTL DEF Spec

\* However long a conversation is, however it is divided into requests and however often it asks
\* to forget: when the query is asked, the store holds exactly the memories of the conversation
\* that the local baseline keeps, each once (LiveMemoryBaseline.run_case).
THEOREM LiveComparesLocal == Spec => []LiveHoldsLocal
<1>1. LiveInv => LiveHoldsLocal
  BY DEF LiveInv, LiveOK, Single, At, Compared, Active, LiveHoldsLocal, Case
<1> QED BY <1>1, ReplayFollowsConversation, PTL

\* Resuming after any number of kills repeats no case, keeps the order of the dataset and ends
\* with a row of each (run_eval, append_result_csv).
THEOREM ResumesExactly == Spec => []EachCaseOnce
<1>1. IInv => EachCaseOnce
  <2> SUFFICES ASSUME IInv PROVE EachCaseOnce
    OBVIOUS
  <2>1. OrderOK /\ csv \in Seq(ResultRow)
    BY DEF IInv, EvaluationInv, EvaluationTypeOK
  <2>2. Completed \subseteq Cases
    <3>1. \A i \in DOMAIN csv : csv[i] \in ResultRow
      BY <2>1
    <3> QED BY <3>1 DEF Completed, ResultRow
  <2>3. runner # Null /\ work = Null /\ runner.left = {} /\ ~Config.grouped => Completed = Cases
    BY <2>1, <2>2 DEF OrderOK, Cases
  <2> QED BY <2>1, <2>3 DEF OrderOK, EachCaseOnce
<1> QED BY <1>1, Invariance, PTL

\* The judge, started and killed any number of times over results that change in between, loses
\* a verdict only when it is killed while it writes (judge_results_csv).
THEOREM VerdictsSurvive == Spec => []VerdictsKept
<1>1. IInv => VerdictsKept
  BY DEF IInv, JudgeInv, VerdictsKept, HasVerdicts
<1> QED BY <1>1, Invariance, PTL

===============================================================================
