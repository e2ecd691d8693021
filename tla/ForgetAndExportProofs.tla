------------------------ MODULE ForgetAndExportProofs ------------------------
(***************************************************************************)
(* Proofs about ForgetAndExport for every set of memories, pages, forget   *)
(* requests, exports and patches, however they overlap and wherever an     *)
(* export ends.                                                            *)
(***************************************************************************)
EXTENDS ForgetAndExport, FiniteSetTheorems, TLAPS

-------------------------------------------------------------------------------
(* The inductive invariant. *)

\* An export past its look-up found the page as it was at some moment, and pages are never
\* taken out; past the commit, its body is a revision.
ExportsFollow ==
    \A e \in Exports : export[e] # Null =>
        LET x == export[e] IN
        /\ x.at = "write_page" /\ x.existing # 0 =>
              page[x.slug] # Null /\ x.existing <= page[x.slug].current_revision_no
        /\ x.at \in {"write_file", "writing"} => \E v \in revision[x.slug] : v.body = x.body

\* The target of a request is there.
TargetsFollow ==
    \A q \in Requests : request[q] # Null /\ request[q].target \in Slugs =>
        page[request[q].target] # Null

\* A forgotten memory has an audit row of its forgetting.
ForgetsAudited ==
    \A m \in Memories : memory[m].status = "forgotten" => memory[m].forgets \in {1, 2}

\* A PATCH will write a status that may follow the one it has read.
PatchesChecked ==
    \A p \in Patches : patch[p] # Null =>
        LET x == patch[p] IN
        x.status = x.existing \/ x.status \in ALLOWED_STATUS_TRANSITIONS[x.existing]

IInv ==
    /\ TypeOK
    /\ RevisionsNumbered
    /\ FileIsARevision
    /\ ExportsFollow
    /\ TargetsFollow
    /\ ForgetsAudited
    /\ PatchesChecked

-------------------------------------------------------------------------------
(* What the operators return. *)

LEMMA CountedType == \A n \in Count : Counted(n) \in {1, 2}
  BY DEF Count, Counted

\* The row that an UPDATE of status and content leaves has an audit row of its forgetting.
LEMMA RowWithStatusType ==
    ASSUME TypeOK, ForgetsAudited, NEW m \in Memories, NEW status \in Statuses,
           NEW version \in 0 .. MaxVersion
    PROVE  LET row == RowWithStatus(memory[m], status, version) IN
           /\ row \in MemoryRow
           /\ row.status = status /\ row.version = version
           /\ status = "forgotten" => row.forgets \in {1, 2}
<1>1. memory[m] \in MemoryRow
  BY DEF TypeOK
<1>2. Counted(memory[m].forgets) \in {1, 2} /\ {1, 2} \subseteq Count
  BY <1>1, CountedType DEF MemoryRow, Count
<1>3. memory[m].status = "forgotten" => memory[m].forgets \in {1, 2}
  BY DEF ForgetsAudited
<1> QED
  BY <1>1, <1>2, <1>3 DEF RowWithStatus, MemoryRow

\* The page of a single memory is generated from it, any other from none.
LEMMA GeneratedFromMemoryType ==
    ASSUME NEW ids \in SUBSET Memories
    PROVE  GeneratedFromMemory(ids) \in Memories \cup {Null}
<1>1. Cardinality({}) = 0
  BY FS_EmptySet
<1>2. CASE Cardinality(ids) = 1
  <2>1. \E m \in ids : TRUE
    BY <1>1, <1>2
  <2>2. (CHOOSE m \in ids : TRUE) \in ids
    BY <2>1
  <2> QED
    BY <1>2, <2>2 DEF GeneratedFromMemory
<1> QED
  BY <1>2 DEF GeneratedFromMemory

\* What a page shows is made of memories and versions.
LEMMA BodyOfType ==
    ASSUME TypeOK, NEW ids \in SUBSET Memories
    PROVE  BodyOf(ids) \in Bodies
BY DEF BodyOf, Bodies, TypeOK, MemoryRow

\* What the statements do to the rows of pages: no row goes, the numbers of revisions and
\* the memory a page is generated from stay, and no page is published again.
RowsKept ==
    /\ page' \in [Slugs -> PageRow \cup {Null}]
    /\ \A s \in Slugs :
          /\ page'[s] = Null <=> page[s] = Null
          /\ page[s] # Null =>
                /\ page'[s].current_revision_no = page[s].current_revision_no
                /\ page'[s].generated_from = page[s].generated_from
                /\ page'[s].status = "active" => page[s].status = "active"

\* A page marked for a rebuild is otherwise the row it was.
LEMMA MarkedRow ==
    ASSUME TypeOK, NEW m \in Memories, NEW s \in Slugs
    PROVE  LET row == MarkedForRebuild(m)[s] IN
           /\ row = Null <=> page[s] = Null
           /\ page[s] # Null =>
                 /\ row \in PageRow
                 /\ row.current_revision_no = page[s].current_revision_no
                 /\ row.generated_from = page[s].generated_from
                 /\ row.status = page[s].status
                 /\ row.needs_rebuild = (page[s].needs_rebuild \/ GeneratedFrom(s, m))
<1>1. page[s] # Null => page[s] \in PageRow
  BY DEF TypeOK
<1>2. MarkedForRebuild(m)[s] = IF GeneratedFrom(s, m) THEN [page[s] EXCEPT !.needs_rebuild = TRUE]
                               ELSE page[s]
  BY DEF MarkedForRebuild
<1>3. CASE GeneratedFrom(s, m)
  <2>1. page[s] \in PageRow /\ page[s] # Null
    BY <1>1, <1>3 DEF GeneratedFrom
  <2>2. [page[s] EXCEPT !.needs_rebuild = TRUE] \in PageRow
    BY <2>1 DEF PageRow
  <2> QED
    BY <1>2, <1>3, <2>1, <2>2, NullAssumption DEF PageRow
<1>4. CASE ~GeneratedFrom(s, m)
  <2>1. page[s] # Null => page[s].needs_rebuild \in BOOLEAN
    BY <1>1 DEF PageRow
  <2> QED
    BY <1>1, <1>2, <1>4, <2>1
<1> QED
  BY <1>3, <1>4

LEMMA MarkingKeepsRows ==
    ASSUME TypeOK, NEW m \in Memories, page' = MarkedForRebuild(m)
    PROVE  RowsKept
BY MarkedRow DEF RowsKept, MarkedForRebuild

\* Forgetting a memory or a page keeps the rows, and the pages of a forgotten memory are
\* not published.
LEMMA ForgettingKeepsRows ==
    ASSUME TypeOK, NEW m \in Memories, page' = PagesForgotten(m)
    PROVE  /\ RowsKept
           /\ \A s \in Slugs : GeneratedFrom(s, m) => page'[s].status = "forgotten"
<1>1. ASSUME NEW s \in Slugs
      PROVE  /\ page'[s] = Null <=> page[s] = Null
             /\ page[s] # Null =>
                   /\ page'[s] \in PageRow
                   /\ page'[s].current_revision_no = page[s].current_revision_no
                   /\ page'[s].generated_from = page[s].generated_from
                   /\ page'[s].status = "active" => page[s].status = "active"
             /\ GeneratedFrom(s, m) => page'[s].status = "forgotten"
  <2> DEFINE forgotten == [page[s] EXCEPT !.status = "forgotten", !.needs_rebuild = FALSE]
  <2>1. /\ page[s] # Null => page[s] \in PageRow
        /\ GeneratedFrom(s, m) => page[s] # Null
    BY DEF TypeOK, GeneratedFrom
  <2>2. page[s] # Null =>
           /\ forgotten \in PageRow /\ forgotten # Null
           /\ forgotten.current_revision_no = page[s].current_revision_no
           /\ forgotten.generated_from = page[s].generated_from
           /\ forgotten.status = "forgotten"
    BY <2>1, NullAssumption DEF PageRow
  <2>3. page'[s] = IF GeneratedFrom(s, m) /\ page[s].status # "forgotten" THEN forgotten
                   ELSE IF memory[m].status # "forgotten" THEN MarkedForRebuild(m)[s]
                   ELSE page[s]
    BY DEF PagesForgotten
  <2> HIDE DEF forgotten
  <2> QED
    BY <2>1, <2>2, <2>3, MarkedRow
<1>2. page' = [s \in Slugs |-> page'[s]]
  BY DEF PagesForgotten
<1> QED
  BY <1>1, <1>2 DEF RowsKept

LEMMA ForgettingPageKeepsRows ==
    ASSUME TypeOK, NEW t \in Slugs, page[t] # Null, ForgetPage(t)
    PROVE  /\ RowsKept
           /\ page'[t].status = "forgotten"
           /\ page[t].status # "forgotten" => page'[t].forgets \in {1, 2}
           /\ \A u \in Slugs \ {t} : page'[u] = page[u]
<1> DEFINE row == [page[t] EXCEPT !.status = "forgotten", !.forgets = Counted(@)]
<1>1. page[t] \in PageRow /\ page \in [Slugs -> PageRow \cup {Null}]
  BY DEF TypeOK
<1>2. Counted(page[t].forgets) \in {1, 2} /\ {1, 2} \subseteq Count
  BY <1>1, CountedType DEF PageRow, Count
<1>3. row \in PageRow /\ row # Null /\ row.status = "forgotten" /\ row.forgets \in {1, 2}
      /\ row.current_revision_no = page[t].current_revision_no
      /\ row.generated_from = page[t].generated_from
  BY <1>1, <1>2, NullAssumption DEF PageRow
<1>4. \/ page[t].status = "forgotten" /\ page' = page
      \/ page' = [page EXCEPT ![t] = row]
  BY DEF ForgetPage
<1> HIDE DEF row
<1> QED
  BY <1>1, <1>3, <1>4 DEF RowsKept

\* Forgetting a memory audits it.
LEMMA ForgettingAudits ==
    ASSUME TypeOK, ForgetsAudited, NEW m \in Memories, ForgetMemory(m)
    PROVE  /\ memory' \in [Memories -> MemoryRow]
           /\ memory'[m].status = "forgotten" /\ memory'[m].forgets \in {1, 2}
           /\ \A k \in Memories \ {m} : memory'[k] = memory[k]
<1> DEFINE row == RowWithStatus(memory[m], "forgotten", memory[m].version)
<1>1. memory[m] \in MemoryRow /\ memory \in [Memories -> MemoryRow]
  BY DEF TypeOK
<1>2. "forgotten" \in Statuses /\ memory[m].version \in 0 .. MaxVersion
  BY <1>1 DEF Statuses, MemoryRow
<1>3. row \in MemoryRow /\ row.status = "forgotten" /\ row.forgets \in {1, 2}
  BY <1>2, RowWithStatusType
<1>4. \/ memory[m].status = "forgotten" /\ memory' = memory
      \/ memory' = [memory EXCEPT ![m] = row]
  BY DEF ForgetMemory
<1> HIDE DEF row
<1> QED
  BY <1>1, <1>3, <1>4 DEF ForgetsAudited

-------------------------------------------------------------------------------
(* The steps. *)

\* An export that the keys accept looked its page up as it still is, and writes the next
\* revision.
LEMMA AcceptedIsNext ==
    ASSUME IInv, NEW e \in Exports, export[e] # Null, export[e].at = "write_page",
           Accepted(export[e])
    PROVE  LET x == export[e] IN
           /\ x.existing = IF page[x.slug] = Null THEN 0 ELSE page[x.slug].current_revision_no
           /\ \A v \in revision[x.slug] : v.no # x.existing + 1
<1> DEFINE x == export[e]
           n == x.existing
           numbers == {v.no : v \in revision[x.slug]}
           m == page[x.slug].current_revision_no
<1>0. MaxRevision \in Nat /\ \A k \in 0 .. MaxRevision : k \in Nat
  BY BoundsAssumption
<1>1. x.slug \in Slugs /\ n \in Nat
  <2>1. x \in ExportInFlight
    BY DEF IInv, TypeOK
  <2>2. x.slug \in Slugs /\ n \in 0 .. MaxRevision
    BY <2>1 DEF ExportInFlight
  <2> QED
    BY <1>0, <2>2
<1>2. page[x.slug] # Null => m \in Nat \ {0}
  <2>1. page[x.slug] # Null => page[x.slug] \in PageRow
    BY <1>1 DEF IInv, TypeOK
  <2>2. page[x.slug] # Null => m \in 1 .. MaxRevision
    BY <2>1 DEF PageRow
  <2> QED
    BY <1>0, <2>2
<1>3. numbers = IF page[x.slug] = Null THEN {} ELSE 1 .. m
  BY <1>1 DEF IInv, RevisionsNumbered
<1>4. n # 0 => page[x.slug] # Null /\ n <= m
  BY DEF IInv, ExportsFollow
<1>5. IF n = 0 THEN page[x.slug] = Null ELSE n + 1 \notin numbers
  BY DEF Accepted
<1> HIDE DEF numbers, n, m
<1>6. n = IF page[x.slug] = Null THEN 0 ELSE m
  BY <1>1, <1>2, <1>3, <1>4, <1>5
<1>7. n + 1 \notin numbers
  BY <1>1, <1>3, <1>5, <1>6
<1> QED
  BY <1>6, <1>7 DEF numbers, n, m

\* The row it writes.
LEMMA RowAfterExportType ==
    ASSUME TypeOK, NEW x \in ExportInFlight, x.existing + 1 \in 1 .. MaxRevision,
           page[x.slug] = Null => x.existing = 0
    PROVE  LET row == RowAfterExport(x) IN
           /\ row \in PageRow /\ row # Null
           /\ row.current_revision_no = x.existing + 1
           /\ row.needs_rebuild = FALSE
           /\ page[x.slug] = Null => row.generated_from = GeneratedFromMemory(x.memory_ids)
           /\ page[x.slug] # Null => /\ row.generated_from = page[x.slug].generated_from
                                     /\ row.status = page[x.slug].status
           /\ [no |-> x.existing + 1, body |-> x.body] \in RevisionRow
<1>1. /\ x.slug \in Slugs /\ x.memory_ids \in SUBSET Memories /\ x.body \in Bodies
      /\ GeneratedFromMemory(x.memory_ids) \in Memories \cup {Null}
  BY GeneratedFromMemoryType DEF ExportInFlight
<1>2. [no |-> x.existing + 1, body |-> x.body] \in RevisionRow
  BY <1>1 DEF RevisionRow
<1>3. CASE page[x.slug] = Null
  <2> DEFINE row == [status |-> "active", needs_rebuild |-> FALSE,
                     generated_from |-> GeneratedFromMemory(x.memory_ids),
                     current_revision_no |-> 1, forgets |-> 0]
  <2>1. RowAfterExport(x) = row /\ x.existing = 0
    BY <1>3 DEF RowAfterExport
  <2>2. row \in PageRow
    BY <1>1, <2>1 DEF PageRow, Count
  <2>3. /\ row.current_revision_no = x.existing + 1 /\ row.needs_rebuild = FALSE
        /\ row.generated_from = GeneratedFromMemory(x.memory_ids)
    BY <2>1
  <2> HIDE DEF row
  <2> QED
    BY <1>2, <1>3, <2>1, <2>2, <2>3, NullAssumption
<1>4. CASE page[x.slug] # Null
  <2> DEFINE row == [page[x.slug] EXCEPT !.needs_rebuild = FALSE,
                                         !.current_revision_no = x.existing + 1]
  <2>1. RowAfterExport(x) = row /\ page[x.slug] \in PageRow
    BY <1>1, <1>4 DEF RowAfterExport, TypeOK
  <2>2. /\ row \in PageRow /\ row.current_revision_no = x.existing + 1
        /\ row.needs_rebuild = FALSE
        /\ row.generated_from = page[x.slug].generated_from /\ row.status = page[x.slug].status
    BY <2>1 DEF PageRow
  <2> QED
    BY <1>2, <1>4, <2>1, <2>2, NullAssumption
<1> QED
  BY <1>3, <1>4

\* A request that leaves revisions, files and exports alone keeps what is said of them.
LEMMA RowsKeptKeepExports ==
    ASSUME IInv, RowsKept, UNCHANGED <<revision, file, export>>
    PROVE  RevisionsNumbered' /\ FileIsARevision' /\ ExportsFollow'
<1>1. RevisionsNumbered'
  BY DEF IInv, RowsKept, RevisionsNumbered
<1>2. FileIsARevision'
  BY DEF IInv, FileIsARevision
<1>3. ExportsFollow'
  <2> SUFFICES ASSUME NEW e \in Exports, export[e] # Null
               PROVE  LET x == export[e] IN
                      /\ x.at = "write_page" /\ x.existing # 0 =>
                            page'[x.slug] # Null /\ x.existing <= page'[x.slug].current_revision_no
                      /\ x.at \in {"write_file", "writing"} =>
                            \E v \in revision[x.slug] : v.body = x.body
    BY DEF ExportsFollow
  <2>1. export[e].slug \in Slugs
    BY DEF IInv, TypeOK, ExportInFlight
  <2> QED
    BY <2>1 DEF IInv, RowsKept, ExportsFollow
<1> QED
  BY <1>1, <1>2, <1>3

\* What a request that writes memories or rows of pages does to both.
GovernedWrite ==
    /\ RowsKept
    /\ memory' \in [Memories -> MemoryRow]
    /\ \A m \in Memories : memory'[m].status = "forgotten" => memory'[m].forgets \in {1, 2}
    /\ patch' \in [Patches -> PatchInFlight \cup {Null}]
    /\ \A p \in Patches : patch'[p] \in {patch[p], Null}
    /\ UNCHANGED <<revision, file, export>>

\* What the write of a PATCH does: to its memory alone, which it marks if it changes it.
LEMMA PatchWrite ==
    ASSUME IInv, NEW p \in Patches, WritePatch(p)
    PROVE  LET m == patch[p].memory_id IN
           /\ patch[p] # Null /\ m \in Memories
           /\ patch'[p] = Null /\ patch' \in [Patches -> PatchInFlight \cup {Null}]
           /\ \A r \in Patches \ {p} : patch'[r] = patch[r]
           /\ memory' \in [Memories -> MemoryRow]
           /\ memory'[m].status = patch[p].status /\ memory'[m].version = patch[p].version
           /\ memory'[m].status = "forgotten" => memory'[m].forgets \in {1, 2}
           /\ \A k \in Memories \ {m} : memory'[k] = memory[k]
           /\ \/ page' = MarkedForRebuild(m)
              \/ /\ page' = page
                 /\ memory'[m].status = memory[m].status
                 /\ memory'[m].version = memory[m].version
           /\ UNCHANGED <<revision, file, export, request>>
<1> DEFINE x == patch[p]
           m == x.memory_id
           row == RowWithStatus(memory[m], x.status, x.version)
<1>1. /\ memory \in [Memories -> MemoryRow]
      /\ patch \in [Patches -> PatchInFlight \cup {Null}]
      /\ TypeOK /\ ForgetsAudited
  BY DEF IInv, TypeOK
<1>2. x # Null /\ x \in PatchInFlight
  BY <1>1 DEF WritePatch
<1>3. m \in Memories /\ x.status \in Statuses /\ x.version \in 0 .. MaxVersion
  BY <1>2 DEF PatchInFlight
<1>4. /\ row \in MemoryRow /\ row.status = x.status /\ row.version = x.version
      /\ x.status = "forgotten" => row.forgets \in {1, 2}
  BY <1>1, <1>3, RowWithStatusType
<1>5. /\ memory' = [memory EXCEPT ![m] = row]
      /\ patch' = [patch EXCEPT ![p] = Null]
      /\ UNCHANGED <<revision, file, export, request>>
  BY DEF WritePatch
<1>6. \/ page' = MarkedForRebuild(m)
      \/ page' = page /\ memory[m].status = x.status /\ memory[m].version = x.version
  BY DEF WritePatch
<1> HIDE DEF row
<1>7. memory'[m] = row /\ \A k \in Memories \ {m} : memory'[k] = memory[k]
  BY <1>1, <1>3, <1>5
<1>8. memory' \in [Memories -> MemoryRow]
  BY <1>1, <1>4, <1>5
<1>9. /\ patch'[p] = Null /\ patch' \in [Patches -> PatchInFlight \cup {Null}]
      /\ \A r \in Patches \ {p} : patch'[r] = patch[r]
  BY <1>1, <1>5
<1> QED
  BY <1>2, <1>3, <1>4, <1>5, <1>6, <1>7, <1>8, <1>9

LEMMA UnchangedKeepsRows ==
    ASSUME TypeOK, page' = page
    PROVE  RowsKept
BY DEF RowsKept, TypeOK

LEMMA PatchIsGoverned ==
    ASSUME IInv, NEW p \in Patches, WritePatch(p)
    PROVE  GovernedWrite /\ request' = request
<1> DEFINE m == patch[p].memory_id
<1>1. /\ m \in Memories
      /\ patch' \in [Patches -> PatchInFlight \cup {Null}]
      /\ \A r \in Patches : patch'[r] \in {patch[r], Null}
      /\ memory' \in [Memories -> MemoryRow]
      /\ memory'[m].status = "forgotten" => memory'[m].forgets \in {1, 2}
      /\ \A k \in Memories \ {m} : memory'[k] = memory[k]
      /\ page' = MarkedForRebuild(m) \/ page' = page
      /\ UNCHANGED <<revision, file, export, request>>
  BY PatchWrite
<1>2. TypeOK /\ ForgetsAudited
  BY DEF IInv
<1> HIDE DEF m
<1>3. RowsKept
  BY <1>1, <1>2, MarkingKeepsRows, UnchangedKeepsRows
<1> QED
  BY <1>1, <1>2, <1>3 DEF GovernedWrite, ForgetsAudited

LEMMA DeleteIsGoverned ==
    ASSUME IInv, NEW m \in Memories, DeleteMemory(m)
    PROVE  GovernedWrite /\ request' = request
<1>1. RowsKept
  BY MarkingKeepsRows DEF DeleteMemory, IInv
<1>2. /\ memory[m] \in MemoryRow /\ memory \in [Memories -> MemoryRow]
      /\ patch \in [Patches -> PatchInFlight \cup {Null}]
  BY DEF IInv, TypeOK
<1>3. [memory[m] EXCEPT !.status = "archived"] \in MemoryRow
  BY <1>2 DEF MemoryRow, Statuses
<1> QED
  BY <1>1, <1>2, <1>3 DEF DeleteMemory, MemoryRow, GovernedWrite, IInv, ForgetsAudited

\* An approval also takes its target out of use.
LEMMA ReviewIsGoverned ==
    ASSUME IInv, NEW q \in Requests, NEW status \in RequestStatuses,
           UpdateForgetRequest(q, status)
    PROVE  /\ GovernedWrite
           /\ request[q] # Null /\ request[q] \in RequestRow
           /\ request' \in [Requests -> RequestRow \cup {Null}]
           /\ \A r \in Requests \ {q} : request'[r] = request[r]
           /\ request'[q] # Null /\ request'[q].target = request[q].target
           /\ request'[q].status = status /\ request'[q].updates \in {1, 2}
           /\ status \in {"approved", "done"} =>
                 \/ request[q].target \in Memories /\ ForgetMemory(request[q].target)
                 \/ request[q].target \in Slugs /\ ForgetPage(request[q].target)
           /\ status \notin {"approved", "done"} => UNCHANGED <<memory, page>>
<1> DEFINE t == request[q].target
           row == [request[q] EXCEPT !.status = status, !.updates = Counted(@)]
<1>1. request[q] # Null /\ request[q] \in RequestRow /\ t \in Memories \cup Slugs
  BY DEF UpdateForgetRequest, IInv, TypeOK, RequestRow
<1>2. Counted(request[q].updates) \in {1, 2} /\ {1, 2} \subseteq Count
  BY <1>1, CountedType DEF RequestRow, Count
<1>3. /\ row \in RequestRow /\ row # Null /\ row.target = t /\ row.status = status
      /\ row.updates \in {1, 2}
  BY <1>1, <1>2, NullAssumption DEF RequestRow
<1>4. request' = [request EXCEPT ![q] = row]
  BY DEF UpdateForgetRequest
<1>5. /\ request' \in [Requests -> RequestRow \cup {Null}] /\ request'[q] = row
      /\ \A r \in Requests \ {q} : request'[r] = request[r]
  <2> HIDE DEF row
  <2> QED
    BY <1>3, <1>4 DEF IInv, TypeOK
<1>6. /\ UNCHANGED <<revision, file, export>>
      /\ patch' \in [Patches -> PatchInFlight \cup {Null}] /\ patch' = patch
  BY DEF UpdateForgetRequest, IInv, TypeOK
<1>7. TypeOK /\ ForgetsAudited /\ memory \in [Memories -> MemoryRow]
  BY DEF IInv, TypeOK
<1>8. GovernedWrite
  <2>1. CASE t \in Memories /\ ForgetMemory(t)
    <3>1. RowsKept
      BY <1>7, <2>1, ForgettingKeepsRows DEF ForgetMemory
    <3>2. /\ memory' \in [Memories -> MemoryRow]
          /\ memory'[t].status = "forgotten" /\ memory'[t].forgets \in {1, 2}
          /\ \A k \in Memories \ {t} : memory'[k] = memory[k]
      BY <1>7, <2>1, ForgettingAudits
    <3> QED
      BY <1>6, <1>7, <3>1, <3>2 DEF GovernedWrite, ForgetsAudited
  <2>2. CASE t \in Slugs /\ ForgetPage(t)
    <3>1. page[t] # Null
      BY <1>1, <2>2 DEF IInv, TargetsFollow
    <3>2. RowsKept
      BY <1>7, <2>2, <3>1, ForgettingPageKeepsRows
    <3> QED
      BY <1>6, <1>7, <2>2, <3>2 DEF GovernedWrite, ForgetPage, ForgetsAudited
  <2>3. CASE UNCHANGED <<memory, page>>
    BY <1>6, <1>7, <2>3 DEF GovernedWrite, RowsKept, TypeOK, ForgetsAudited
  <2> QED
    BY <2>1, <2>2, <2>3 DEF UpdateForgetRequest
<1>9. /\ status \in {"approved", "done"} =>
            \/ t \in Memories /\ ForgetMemory(t)
            \/ t \in Slugs /\ ForgetPage(t)
      /\ status \notin {"approved", "done"} => UNCHANGED <<memory, page>>
  BY DEF UpdateForgetRequest
<1> HIDE DEF row
<1> QED
  BY <1>1, <1>3, <1>5, <1>8, <1>9

LEMMA GovernedKeepsInvariant ==
    ASSUME IInv, GovernedWrite, TargetsFollow',
           request' \in [Requests -> RequestRow \cup {Null}]
    PROVE  IInv'
<1>1. RevisionsNumbered' /\ FileIsARevision' /\ ExportsFollow'
  BY RowsKeptKeepExports DEF GovernedWrite
<1>2. TypeOK'
  BY DEF IInv, TypeOK, GovernedWrite, RowsKept
<1>3. ForgetsAudited' /\ PatchesChecked'
  BY DEF IInv, GovernedWrite, ForgetsAudited, PatchesChecked
<1> QED
  BY <1>1, <1>2, <1>3 DEF IInv

LEMMA EditKeepsInvariant ==
    ASSUME IInv, GovernedWrite, request' = request
    PROVE  IInv'
<1>1. TargetsFollow'
  BY DEF IInv, TargetsFollow, GovernedWrite, RowsKept
<1>2. request' \in [Requests -> RequestRow \cup {Null}]
  BY DEF IInv, TypeOK
<1> QED
  BY <1>1, <1>2, GovernedKeepsInvariant

\* The read of a PATCH keeps what it will write, of the right types.
LEMMA ReadKeepsInvariant ==
    ASSUME IInv, NEW p \in Patches, NEW m \in Memories, NEW version \in 0 .. MaxVersion,
           NEW status \in Statuses, ReadForPatch(p, m, version, status)
    PROVE  IInv'
<1> DEFINE x == [memory_id |-> m, existing |-> memory[m].status, status |-> status,
                 version |-> version]
<1>1. memory[m].status \in Statuses /\ patch \in [Patches -> PatchInFlight \cup {Null}]
  BY DEF IInv, TypeOK, MemoryRow
<1>2. x \in PatchInFlight
  BY <1>1 DEF PatchInFlight
<1>3. /\ patch' = [patch EXCEPT ![p] = x]
      /\ UNCHANGED <<memory, page, revision, file, export, request>>
  BY DEF ReadForPatch
<1> HIDE DEF x
<1>4. patch' \in [Patches -> PatchInFlight \cup {Null}]
  BY <1>1, <1>2, <1>3
<1>5. TypeOK'
  BY <1>3, <1>4 DEF IInv, TypeOK
<1>6. PatchesChecked'
  <2>1. patch'[p] = x /\ \A r \in Patches \ {p} : patch'[r] = patch[r]
    BY <1>1, <1>3
  <2>2. x.status = x.existing \/ x.status \in ALLOWED_STATUS_TRANSITIONS[x.existing]
    BY DEF ReadForPatch, x
  <2> QED
    BY <2>1, <2>2 DEF IInv, PatchesChecked
<1> QED
  BY <1>3, <1>5, <1>6 DEF IInv, RevisionsNumbered, FileIsARevision, ExportsFollow, TargetsFollow,
                    ForgetsAudited

LEMMA ReviewKeepsInvariant ==
    ASSUME IInv, NEW q \in Requests, NEW status \in RequestStatuses,
           UpdateForgetRequest(q, status)
    PROVE  IInv'
<1> DEFINE t == request[q].target
<1>1. /\ GovernedWrite
      /\ request' \in [Requests -> RequestRow \cup {Null}]
      /\ \A r \in Requests \ {q} : request'[r] = request[r]
      /\ request[q] # Null /\ request'[q].target = t
  BY ReviewIsGoverned
<1>2. \A s \in Slugs : page[s] # Null => page'[s] # Null
  BY <1>1 DEF GovernedWrite, RowsKept
<1>3. TargetsFollow'
  <2> SUFFICES ASSUME NEW r \in Requests, request'[r] # Null, request'[r].target \in Slugs
               PROVE  page'[request'[r].target] # Null
    BY DEF TargetsFollow
  <2>1. CASE r = q
    BY <1>1, <1>2, <2>1 DEF IInv, TargetsFollow
  <2>2. CASE r # q
    BY <1>1, <1>2, <2>2 DEF IInv, TargetsFollow
  <2> QED
    BY <2>1, <2>2
<1> QED
  BY <1>1, <1>3, GovernedKeepsInvariant

\* The steps of an export that touch no table.
LEMMA ExportStepKeepsInvariant ==
    ASSUME IInv, UNCHANGED <<memory, page, revision, patch, request>>,
           export' \in [Exports -> ExportInFlight \cup {Null}],
           file' \in [Slugs -> {Null, Torn} \cup Bodies],
           FileIsARevision', ExportsFollow'
    PROVE  IInv'
<1>1. TypeOK'
  BY DEF IInv, TypeOK
<1>2. RevisionsNumbered' /\ ForgetsAudited' /\ TargetsFollow' /\ PatchesChecked'
  BY DEF IInv, RevisionsNumbered, ForgetsAudited, TargetsFollow, PatchesChecked
<1> QED
  BY <1>1, <1>2 DEF IInv

\* One export goes on to a step before its commit, or ends.
LEMMA ExportGoesOn ==
    ASSUME IInv, NEW e \in Exports, UNCHANGED <<page, revision>>,
           NEW x \in ExportInFlight \cup {Null}, export' = [export EXCEPT ![e] = x],
           x # Null /\ x.at = "write_page" /\ x.existing # 0 =>
               page[x.slug] # Null /\ x.existing <= page[x.slug].current_revision_no,
           x # Null => x.at \notin {"write_file", "writing"}
    PROVE  ExportsFollow' /\ export' \in [Exports -> ExportInFlight \cup {Null}]
<1>1. export \in [Exports -> ExportInFlight \cup {Null}]
  BY DEF IInv, TypeOK
<1>2. export'[e] = x /\ \A f \in Exports \ {e} : export'[f] = export[f]
  BY <1>1
<1> QED
  BY <1>1, <1>2 DEF IInv, ExportsFollow

\* What an export leaves in its file: a committed revision, or a torn file.
LEMMA FileStaysARevision ==
    ASSUME IInv, NEW s \in Slugs, NEW contents \in {Null, Torn} \cup Bodies,
           revision' = revision, file' = [file EXCEPT ![s] = contents],
           contents \notin {Null, Torn} => \E v \in revision[s] : v.body = contents
    PROVE  FileIsARevision' /\ file' \in [Slugs -> {Null, Torn} \cup Bodies]
<1>1. file \in [Slugs -> {Null, Torn} \cup Bodies]
  BY DEF IInv, TypeOK
<1>2. file'[s] = contents /\ \A r \in Slugs \ {s} : file'[r] = file[r]
  BY <1>1
<1> QED
  BY <1>1, <1>2 DEF IInv, FileIsARevision

LEMMA SameFileKeepsRevision ==
    ASSUME IInv, UNCHANGED <<revision, file>>
    PROVE  FileIsARevision' /\ file' \in [Slugs -> {Null, Torn} \cup Bodies]
BY DEF IInv, TypeOK, FileIsARevision

LEMMA StartKeepsInvariant ==
    ASSUME IInv, NEW e \in Exports, NEW s \in Slugs, NEW ids \in (SUBSET Memories) \ {{}},
           StartExport(e, s, ids)
    PROVE  IInv'
<1> DEFINE x == [at |-> "look_up", slug |-> s, memory_ids |-> ids, existing |-> 0,
                 body |-> BodyOf(ids), shared |-> FALSE]
<1>1. BodyOf(ids) \in Bodies
  BY BodyOfType DEF IInv
<1>2. 0 \in 0 .. MaxRevision
  BY BoundsAssumption
<1>3. x \in ExportInFlight /\ x.at = "look_up"
  BY <1>1, <1>2 DEF ExportInFlight
<1>4. /\ UNCHANGED <<memory, page, revision, file, patch, request>>
      /\ export' = [export EXCEPT ![e] = x]
  BY DEF StartExport
<1>5. FileIsARevision' /\ file' \in [Slugs -> {Null, Torn} \cup Bodies]
  BY <1>4, SameFileKeepsRevision
<1> HIDE DEF x
<1>6. ExportsFollow' /\ export' \in [Exports -> ExportInFlight \cup {Null}]
  BY <1>3, <1>4, ExportGoesOn
<1> QED
  BY <1>4, <1>5, <1>6, ExportStepKeepsInvariant

LEMMA LookUpKeepsInvariant ==
    ASSUME IInv, NEW e \in Exports, LookUpPage(e)
    PROVE  IInv'
<1> DEFINE s == export[e].slug
           n == IF page[s] = Null THEN 0 ELSE page[s].current_revision_no
           x == [export[e] EXCEPT !.at = "write_page", !.existing = n]
<1>1. export[e] \in ExportInFlight /\ s \in Slugs
  BY DEF LookUpPage, IInv, TypeOK, ExportInFlight
<1>2. page[s] # Null => page[s].current_revision_no \in 1 .. MaxRevision
  BY <1>1 DEF IInv, TypeOK, PageRow
<1>3. n \in 0 .. MaxRevision
  BY <1>2, BoundsAssumption
<1>4. x \in ExportInFlight /\ x.at = "write_page" /\ x.slug = s /\ x.existing = n
  <2> HIDE DEF n
  <2> QED
    BY <1>1, <1>3 DEF ExportInFlight
<1>5. n # 0 => page[s] # Null /\ n <= page[s].current_revision_no
  BY <1>2
<1>6. /\ UNCHANGED <<memory, page, revision, file, patch, request>>
      /\ export' = [export EXCEPT ![e] = x]
  BY DEF LookUpPage
<1>7. FileIsARevision' /\ file' \in [Slugs -> {Null, Torn} \cup Bodies]
  BY <1>6, SameFileKeepsRevision
<1> HIDE DEF x, n, s
<1>8. ExportsFollow' /\ export' \in [Exports -> ExportInFlight \cup {Null}]
  BY <1>4, <1>5, <1>6, ExportGoesOn
<1> QED
  BY <1>6, <1>7, <1>8, ExportStepKeepsInvariant

LEMMA EndKeepsInvariant ==
    ASSUME IInv, NEW e \in Exports,
           AbandonExport(e) \/ (WritePage(e) /\ ~Accepted(export[e]))
    PROVE  IInv'
<1>1. /\ UNCHANGED <<memory, page, revision, file, patch, request>>
      /\ export' = [export EXCEPT ![e] = Null]
  BY DEF AbandonExport, WritePage
<1>2. FileIsARevision' /\ file' \in [Slugs -> {Null, Torn} \cup Bodies]
  BY <1>1, SameFileKeepsRevision
<1>3. ExportsFollow' /\ export' \in [Exports -> ExportInFlight \cup {Null}]
  BY <1>1, ExportGoesOn
<1> QED
  BY <1>1, <1>2, <1>3, ExportStepKeepsInvariant

\* An export past its commit opens its file under whoever has it open already.
LEMMA OpenKeepsInvariant ==
    ASSUME IInv, NEW e \in Exports, OpenFile(e)
    PROVE  IInv'
<1> DEFINE x == export[e]
           others == Writers(x.slug)
           own == [x EXCEPT !.at = "writing", !.shared = others # {}]
           joined(f) == [export[f] EXCEPT !.shared = TRUE]
<1>1. x # Null /\ x.at = "write_file" /\ x \in ExportInFlight
      /\ UNCHANGED <<memory, page, revision, patch, request>>
  BY DEF OpenFile, FileReady, IInv, TypeOK
<1>2. own \in ExportInFlight /\ own.at = "writing" /\ own.slug = x.slug /\ own.body = x.body
  BY <1>1 DEF ExportInFlight
<1>3. ASSUME NEW f \in others
      PROVE  /\ f \in Exports /\ export[f] # Null /\ export[f].at = "writing"
             /\ joined(f) \in ExportInFlight /\ joined(f).at = "writing"
             /\ joined(f).slug = export[f].slug /\ joined(f).body = export[f].body
  <2>1. f \in Exports /\ export[f] # Null /\ export[f].at = "writing"
    BY DEF Writers
  <2>2. export[f] \in ExportInFlight
    BY <2>1 DEF IInv, TypeOK
  <2> QED
    BY <2>1, <2>2 DEF ExportInFlight
<1>4. /\ export' = [f \in Exports |-> IF f = e THEN own ELSE IF f \in others THEN joined(f)
                                       ELSE export[f]]
      /\ file' = [file EXCEPT ![x.slug] = Torn]
  BY DEF OpenFile
<1>5. x.slug \in Slugs
  BY <1>1 DEF ExportInFlight
<1>6. \A f \in Exports :
         \/ f = e /\ export'[f] = own
         \/ f \in others /\ export'[f] = joined(f)
         \/ export'[f] = export[f]
  BY <1>4
<1>7. export' = [f \in Exports |-> export'[f]] /\ export \in [Exports -> ExportInFlight \cup {Null}]
  BY <1>4 DEF IInv, TypeOK
<1> HIDE DEF own, joined, others, x
<1>8. export' \in [Exports -> ExportInFlight \cup {Null}]
  BY <1>2, <1>3, <1>6, <1>7
<1>9. FileIsARevision' /\ file' \in [Slugs -> {Null, Torn} \cup Bodies]
  BY <1>1, <1>4, <1>5, FileStaysARevision
<1>10. ExportsFollow'
  <2> SUFFICES ASSUME NEW f \in Exports, export'[f] # Null
               PROVE  LET y == export'[f] IN
                      /\ y.at = "write_page" /\ y.existing # 0 =>
                            page[y.slug] # Null /\ y.existing <= page[y.slug].current_revision_no
                      /\ y.at \in {"write_file", "writing"} =>
                            \E v \in revision[y.slug] : v.body = y.body
    BY <1>1 DEF ExportsFollow
  <2>1. CASE f = e /\ export'[f] = own
    <3>1. \E v \in revision[x.slug] : v.body = x.body
      BY <1>1 DEF IInv, ExportsFollow, x
    <3> QED
      BY <1>2, <2>1, <3>1
  <2>2. CASE f \in others /\ export'[f] = joined(f)
    <3>1. \E v \in revision[export[f].slug] : v.body = export[f].body
      BY <1>3, <2>2 DEF IInv, ExportsFollow
    <3> QED
      BY <1>3, <2>2, <3>1
  <2>3. CASE export'[f] = export[f]
    BY <2>3 DEF IInv, ExportsFollow
  <2> QED
    BY <1>6, <2>1, <2>2, <2>3
<1> QED
  BY <1>1, <1>8, <1>9, <1>10, ExportStepKeepsInvariant

LEMMA PartKeepsInvariant ==
    ASSUME IInv, NEW e \in Exports, WritePart(e)
    PROVE  IInv'
<1>1. /\ UNCHANGED <<memory, page, revision, export, patch, request>>
      /\ file' = [file EXCEPT ![export[e].slug] = Torn] /\ export[e].slug \in Slugs
  BY DEF WritePart, IInv, TypeOK, ExportInFlight
<1>2. FileIsARevision' /\ file' \in [Slugs -> {Null, Torn} \cup Bodies]
  BY <1>1, FileStaysARevision
<1>3. ExportsFollow' /\ export' \in [Exports -> ExportInFlight \cup {Null}]
  BY <1>1 DEF IInv, TypeOK, ExportsFollow
<1> QED
  BY <1>1, <1>2, <1>3, ExportStepKeepsInvariant

\* Of two exports that had the file open together, either body is committed.
LEMMA CloseKeepsInvariant ==
    ASSUME IInv, NEW e \in Exports, CloseFile(e)
    PROVE  IInv'
<1> DEFINE x == export[e]
<1>1. x # Null /\ x.at = "writing" /\ x \in ExportInFlight
      /\ UNCHANGED <<memory, page, revision, patch, request>>
      /\ export' = [export EXCEPT ![e] = Null]
  BY DEF CloseFile, IInv, TypeOK
<1>2. PICK contents \in MayLeave(x) : file' = [file EXCEPT ![x.slug] = contents]
  BY DEF CloseFile
<1>3. x.slug \in Slugs /\ x.body \in Bodies
  BY <1>1 DEF ExportInFlight
<1>4. \E v \in revision[x.slug] : v.body = x.body
  BY <1>1 DEF IInv, ExportsFollow
<1>5. file[x.slug] \in {Null, Torn} \cup Bodies
  BY <1>3 DEF IInv, TypeOK
<1>6. contents = x.body \/ contents = file[x.slug] \/ contents = Torn
  BY <1>2 DEF MayLeave
<1>7. file[x.slug] \notin {Null, Torn} => \E v \in revision[x.slug] : v.body = file[x.slug]
  BY <1>3 DEF IInv, FileIsARevision
<1> HIDE DEF x
<1>8. FileIsARevision' /\ file' \in [Slugs -> {Null, Torn} \cup Bodies]
  BY <1>1, <1>2, <1>3, <1>4, <1>5, <1>6, <1>7, FileStaysARevision
<1>9. ExportsFollow' /\ export' \in [Exports -> ExportInFlight \cup {Null}]
  BY <1>1, ExportGoesOn
<1> QED
  BY <1>1, <1>8, <1>9, ExportStepKeepsInvariant

\* What the second transaction of an export writes.
LEMMA AcceptedWrite ==
    ASSUME IInv, NEW e \in Exports, WritePage(e), Accepted(export[e])
    PROVE  LET x == export[e]
               s == x.slug
               new == [no |-> x.existing + 1, body |-> x.body]
               row == RowAfterExport(x)
           IN /\ x \in ExportInFlight /\ s \in Slugs /\ x.existing \in Nat
              /\ x.existing = IF page[s] = Null THEN 0 ELSE page[s].current_revision_no
              /\ \A v \in revision[s] : v.no # new.no
              /\ row \in PageRow /\ row # Null
              /\ row.current_revision_no = new.no /\ row.needs_rebuild = FALSE
              /\ page[s] = Null => row.generated_from = GeneratedFromMemory(x.memory_ids)
              /\ page[s] # Null => /\ row.generated_from = page[s].generated_from
                                   /\ row.status = page[s].status
              /\ new \in RevisionRow
              /\ page' = [page EXCEPT ![s] = row]
              /\ revision' = [revision EXCEPT ![s] = @ \cup {new}]
              /\ export' = [export EXCEPT ![e].at = "write_file"]
              /\ UNCHANGED <<memory, file, patch, request>>
<1> DEFINE x == export[e]
           s == x.slug
<1>1. x \in ExportInFlight /\ x # Null /\ x.at = "write_page" /\ x.existing < MaxRevision
  BY DEF WritePage, IInv, TypeOK
<1>2. s \in Slugs /\ x.existing \in 0 .. MaxRevision
  BY <1>1 DEF ExportInFlight
<1>3. x.existing \in Nat /\ x.existing + 1 \in 1 .. MaxRevision
  BY <1>1, <1>2, BoundsAssumption
<1>4. /\ x.existing = IF page[s] = Null THEN 0 ELSE page[s].current_revision_no
      /\ \A v \in revision[s] : v.no # x.existing + 1
  BY <1>1, AcceptedIsNext
<1>5. TypeOK
  BY DEF IInv
<1>6. LET row == RowAfterExport(x) IN
         /\ row \in PageRow /\ row # Null
         /\ row.current_revision_no = x.existing + 1
         /\ row.needs_rebuild = FALSE
         /\ page[s] = Null => row.generated_from = GeneratedFromMemory(x.memory_ids)
         /\ page[s] # Null => row.generated_from = page[s].generated_from
                              /\ row.status = page[s].status
         /\ [no |-> x.existing + 1, body |-> x.body] \in RevisionRow
  BY <1>1, <1>3, <1>4, <1>5, RowAfterExportType
<1>7. /\ page' = [page EXCEPT ![s] = RowAfterExport(x)]
      /\ revision' = [revision EXCEPT ![s] = @ \cup {[no |-> x.existing + 1, body |-> x.body]}]
      /\ export' = [export EXCEPT ![e].at = "write_file"]
      /\ UNCHANGED <<memory, file, patch, request>>
  BY DEF WritePage
<1> QED
  BY <1>1, <1>2, <1>3, <1>4, <1>6, <1>7

LEMMA WriteKeepsInvariant ==
    ASSUME IInv, NEW e \in Exports, WritePage(e), Accepted(export[e])
    PROVE  IInv'
<1> DEFINE x == export[e]
           s == x.slug
           n == x.existing
           new == [no |-> n + 1, body |-> x.body]
           row == RowAfterExport(x)
           next == [x EXCEPT !.at = "write_file"]
<1>1. /\ x \in ExportInFlight /\ s \in Slugs /\ n \in Nat
      /\ n = IF page[s] = Null THEN 0 ELSE page[s].current_revision_no
      /\ \A v \in revision[s] : v.no # new.no
      /\ row \in PageRow /\ row # Null /\ row.current_revision_no = n + 1
      /\ new \in RevisionRow /\ new.no = n + 1 /\ new.body = x.body
      /\ page' = [page EXCEPT ![s] = row]
      /\ revision' = [revision EXCEPT ![s] = @ \cup {new}]
      /\ export' = [export EXCEPT ![e] = next]
      /\ UNCHANGED <<memory, file, patch, request>>
  BY AcceptedWrite
<1>2. next \in ExportInFlight /\ next.at = "write_file" /\ next.slug = s /\ next.body = x.body
  BY <1>1 DEF ExportInFlight
<1> HIDE DEF row, next, new, n, s, x
<1>3. /\ page \in [Slugs -> PageRow \cup {Null}] /\ revision \in [Slugs -> SUBSET RevisionRow]
      /\ export \in [Exports -> ExportInFlight \cup {Null}]
  BY DEF IInv, TypeOK
<1>4. TypeOK'
  BY <1>1, <1>2, <1>3 DEF IInv, TypeOK
<1>5. /\ page'[s] = row /\ \A t \in Slugs \ {s} : page'[t] = page[t]
      /\ revision'[s] = revision[s] \cup {new}
      /\ \A t \in Slugs \ {s} : revision'[t] = revision[t]
      /\ export'[e] = next /\ \A f \in Exports \ {e} : export'[f] = export[f]
  BY <1>1, <1>3
<1>6. RevisionsNumbered'
  <2>1. ASSUME NEW t \in Slugs \ {s}
        PROVE  /\ {v.no : v \in revision'[t]} =
                     IF page'[t] = Null THEN {} ELSE 1 .. page'[t].current_revision_no
               /\ \A v, w \in revision'[t] : v.no = w.no => v = w
    BY <1>5 DEF IInv, RevisionsNumbered
  <2>2. {v.no : v \in revision[s]} = 1 .. n
    <3>1. {v.no : v \in revision[s]} =
             IF page[s] = Null THEN {} ELSE 1 .. page[s].current_revision_no
      BY <1>1 DEF IInv, RevisionsNumbered
    <3>2. 1 .. 0 = {}
      OBVIOUS
    <3> QED
      BY <1>1, <3>1, <3>2
  <2>3. {v.no : v \in revision'[s]} = {v.no : v \in revision[s]} \cup {n + 1}
    BY <1>1, <1>5
  <2>4. (1 .. n) \cup {n + 1} = 1 .. (n + 1)
    BY <1>1
  <2>5. {v.no : v \in revision'[s]} =
           IF page'[s] = Null THEN {} ELSE 1 .. page'[s].current_revision_no
    BY <1>1, <1>5, <2>2, <2>3, <2>4
  <2>6. \A v, w \in revision'[s] : v.no = w.no => v = w
    BY <1>1, <1>5 DEF IInv, RevisionsNumbered
  <2> QED
    BY <2>1, <2>5, <2>6 DEF RevisionsNumbered
<1>7. FileIsARevision'
  BY <1>1, <1>5 DEF IInv, FileIsARevision
<1>8. \A t \in Slugs : page[t] # Null =>
         page'[t] # Null /\ page[t].current_revision_no <= page'[t].current_revision_no
  <2>1. \A t \in Slugs : page[t] # Null => page[t].current_revision_no \in Nat
    BY <1>3, BoundsAssumption DEF PageRow
  <2> QED
    BY <1>1, <1>5, <2>1
<1>9. ExportsFollow'
  <2>1. ASSUME NEW f \in Exports \ {e}, export[f] # Null
        PROVE  LET y == export[f] IN
               /\ y.at = "write_page" /\ y.existing # 0 =>
                     page'[y.slug] # Null /\ y.existing <= page'[y.slug].current_revision_no
               /\ y.at \in {"write_file", "writing"} =>
                     \E v \in revision'[y.slug] : v.body = y.body
    <3> DEFINE y == export[f]
               m == page[y.slug].current_revision_no
               k == page'[y.slug].current_revision_no
    <3>1. y.slug \in Slugs /\ y.existing \in Nat
      BY <1>3, <2>1, BoundsAssumption DEF ExportInFlight
    <3>2. y.at = "write_page" /\ y.existing # 0 => page[y.slug] # Null /\ y.existing <= m
      BY <2>1 DEF IInv, ExportsFollow
    <3>3. page[y.slug] # Null => page'[y.slug] # Null /\ m <= k /\ m \in Nat /\ k \in Nat
      BY <1>3, <1>4, <1>8, <3>1, BoundsAssumption DEF PageRow, TypeOK
    <3>4. y.at \in {"write_file", "writing"} => \E v \in revision'[y.slug] : v.body = y.body
      BY <1>5, <2>1, <3>1 DEF IInv, ExportsFollow
    <3> HIDE DEF m, k
    <3>5. y.at = "write_page" /\ y.existing # 0 => page'[y.slug] # Null /\ y.existing <= k
      BY <3>1, <3>2, <3>3
    <3> QED
      BY <3>4, <3>5 DEF k
  <2>2. \E v \in revision'[next.slug] : v.body = next.body
    BY <1>1, <1>2, <1>5
  <2> QED
    BY <1>2, <1>5, <2>1, <2>2 DEF ExportsFollow
<1>10. TargetsFollow'
  BY <1>1, <1>8 DEF IInv, TargetsFollow
<1>11. ForgetsAudited' /\ PatchesChecked'
  BY <1>1 DEF IInv, ForgetsAudited, PatchesChecked
<1> QED
  BY <1>4, <1>6, <1>7, <1>9, <1>10, <1>11 DEF IInv

LEMMA CreateKeepsInvariant ==
    ASSUME IInv, NEW q \in Requests, NEW target \in Changing \cup Slugs,
           CreateForgetRequest(q, target)
    PROVE  IInv'
<1> DEFINE row == [target |-> target, status |-> "pending", updates |-> 0]
<1>1. row \in RequestRow /\ row.status = "pending" /\ row.target = target
  BY ChangingAssumption DEF RequestRow, RequestStatuses, Count
<1>2. /\ request' = [request EXCEPT ![q] = row] /\ TargetExists(target)
      /\ UNCHANGED <<memory, page, revision, file, export, patch>>
  BY DEF CreateForgetRequest
<1> HIDE DEF row
<1>3. TypeOK'
  BY <1>1, <1>2 DEF IInv, TypeOK
<1>4. RevisionsNumbered' /\ FileIsARevision' /\ ForgetsAudited' /\ PatchesChecked'
  BY <1>2 DEF IInv, RevisionsNumbered, FileIsARevision, ForgetsAudited, PatchesChecked
<1>5. ExportsFollow'
  BY <1>2 DEF IInv, ExportsFollow
<1>6. TargetsFollow'
  <2>1. request'[q] = row /\ \A r \in Requests \ {q} : request'[r] = request[r]
    BY <1>2 DEF IInv, TypeOK
  <2> QED
    BY <1>1, <1>2, <2>1 DEF IInv, TargetsFollow, TargetExists
<1> QED
  BY <1>3, <1>4, <1>5, <1>6 DEF IInv

LEMMA StutterKeepsInvariant ==
    ASSUME IInv, UNCHANGED vars
    PROVE  IInv'
BY DEF IInv, vars, TypeOK, RevisionsNumbered, FileIsARevision, ExportsFollow, TargetsFollow,
       ForgetsAudited, PatchesChecked

LEMMA StepKeepsInvariant ==
    ASSUME IInv, [Next]_vars
    PROVE  IInv'
<1>0. CASE \E p \in Patches, m \in Changing, version \in 0 .. MaxVersion, status \in Statuses :
               ReadForPatch(p, m, version, status)
  BY <1>0, ChangingAssumption, ReadKeepsInvariant
<1>1. CASE \E p \in Patches : WritePatch(p)
  BY <1>1, PatchIsGoverned, EditKeepsInvariant
<1>2. CASE \E m \in Changing : DeleteMemory(m)
  BY <1>2, ChangingAssumption, DeleteIsGoverned, EditKeepsInvariant
<1>3. CASE \E e \in Exports, s \in Slugs, ids \in (SUBSET Memories) \ {{}} : StartExport(e, s, ids)
  BY <1>3, StartKeepsInvariant
<1>4. CASE \E e \in Exports : LookUpPage(e)
  BY <1>4, LookUpKeepsInvariant
<1>5. CASE \E e \in Exports : WritePage(e)
  BY <1>5, WriteKeepsInvariant, EndKeepsInvariant
<1>6. ASSUME NEW e \in Exports, OpenFile(e) \/ WritePart(e) \/ CloseFile(e) PROVE IInv'
  BY <1>6, OpenKeepsInvariant, PartKeepsInvariant, CloseKeepsInvariant
<1>7. CASE \E e \in Exports : AbandonExport(e)
  BY <1>7, EndKeepsInvariant
<1>8. CASE \E q \in Requests, target \in Changing \cup Slugs : CreateForgetRequest(q, target)
  BY <1>8, CreateKeepsInvariant
<1>9. CASE \E q \in Requests, status \in RequestStatuses : UpdateForgetRequest(q, status)
  BY <1>9, ReviewKeepsInvariant
<1>10. CASE UNCHANGED vars
  BY <1>10, StutterKeepsInvariant
<1> QED
  BY <1>0, <1>1, <1>2, <1>3, <1>4, <1>5, <1>6, <1>7, <1>8, <1>9, <1>10 DEF Next

LEMMA InitInvariant == Init => IInv
<1> SUFFICES ASSUME Init PROVE IInv
  OBVIOUS
<1>1. TypeOK
  BY BoundsAssumption DEF Init, TypeOK, MemoryRow, Statuses, Count
<1>2. RevisionsNumbered /\ FileIsARevision
  BY DEF Init, RevisionsNumbered, FileIsARevision
<1>3. ExportsFollow /\ TargetsFollow /\ ForgetsAudited /\ PatchesChecked
  BY DEF Init, ExportsFollow, TargetsFollow, ForgetsAudited, PatchesChecked
<1> QED
  BY <1>1, <1>2, <1>3 DEF IInv

-------------------------------------------------------------------------------
(* The theorems. *)

\* However clients, reviews and exports interleave, the state stays within its invariant.
THEOREM Invariance == Spec => []IInv
  BY InitInvariant, StepKeepsInvariant, PTL DEF Spec

\* The tables, the files and the exports in flight keep their types.
THEOREM TypeCorrect == Spec => []TypeOK
<1>1. IInv => TypeOK
  BY DEF IInv
<1> QED
  BY <1>1, Invariance, PTL

\* The revisions of a page are numbered without a gap or a duplicate, however the exports
\* of one page overlap, fail or end half-way (wiki_service.export_page and the two keys of
\* the governance schema).
THEOREM RevisionsStayNumbered == Spec => []RevisionsNumbered
<1>1. IInv => RevisionsNumbered
  BY DEF IInv
<1> QED
  BY <1>1, Invariance, PTL

\* A Markdown file that is not torn holds a body that was committed, wherever an export was
\* cut off and however exports of one page overlap in writing (_write_markdown_file).
THEOREM FilesAreRevisions == Spec => []FileIsARevision
<1>1. IInv => FileIsARevision
  BY DEF IInv
<1> QED
  BY <1>1, Invariance, PTL

-------------------------------------------------------------------------------
(* What a step may do to a page that is fresh, or that does not show what was forgotten. *)

\* What a page shows after an export is the body of that export.
LEMMA ShownAfterExport ==
    ASSUME IInv, NEW e \in Exports, WritePage(e), Accepted(export[e]),
           NEW s \in Slugs
    PROVE  IF s = export[e].slug THEN Shown(s)' = export[e].body
           ELSE page'[s] = page[s] /\ revision'[s] = revision[s]
<1> DEFINE x == export[e]
           n == x.existing
           new == [no |-> n + 1, body |-> x.body]
           row == RowAfterExport(x)
<1>1. page \in [Slugs -> PageRow \cup {Null}] /\ revision \in [Slugs -> SUBSET RevisionRow]
  BY DEF IInv, TypeOK
<1>2. /\ x.slug \in Slugs
      /\ \A v \in revision[x.slug] : v.no # new.no
      /\ row.current_revision_no = n + 1
      /\ new.no = n + 1 /\ new.body = x.body
      /\ page' = [page EXCEPT ![x.slug] = row]
      /\ revision' = [revision EXCEPT ![x.slug] = @ \cup {new}]
  BY AcceptedWrite
<1> HIDE DEF new, row, n
<1>3. CASE s = x.slug
  <2>1. page'[s] = row /\ revision'[s] = revision[s] \cup {new}
    BY <1>1, <1>2, <1>3
  <2>2. {w \in revision'[s] : w.no = page'[s].current_revision_no} = {new}
    BY <1>2, <1>3, <2>1
  <2>3. UNION {v.body : v \in {new}} = new.body
    OBVIOUS
  <2> QED
    BY <1>2, <1>3, <2>2, <2>3 DEF Shown
<1>4. CASE s # x.slug
  BY <1>1, <1>2, <1>4
<1> QED
  BY <1>3, <1>4

\* A step that is not a stale write of the page writes what its memories say.
LEMMA NotStaleIsCurrent ==
    ASSUME IInv, NEW e \in Exports, WritePage(e), Accepted(export[e]),
           NEW s \in Slugs, s = export[e].slug, ~StaleWrite(s)
    PROVE  export[e].body = BodyOf(export[e].memory_ids)
<1> DEFINE x == export[e]
           next == [x EXCEPT !.at = "write_file"]
<1>1. x # Null /\ x.at = "write_page" /\ x \in ExportInFlight
  BY DEF WritePage, IInv, TypeOK
<1>2. export' = [export EXCEPT ![e] = next]
  BY AcceptedWrite
<1>3. next # x
  BY <1>1 DEF ExportInFlight
<1>4. export'[e] # export[e]
  <2> HIDE DEF next
  <2> QED
    BY <1>2, <1>3 DEF IInv, TypeOK
<1> QED
  BY <1>1, <1>4 DEF StaleWrite

\* Every step, as far as pages, revisions and memories are concerned.
LEMMA StepKinds ==
    ASSUME IInv, Next
    PROVE  \/ \E p \in Patches : WritePatch(p)
           \/ \E m \in Memories : DeleteMemory(m)
           \/ \E q \in Requests, status \in RequestStatuses : UpdateForgetRequest(q, status)
           \/ \E e \in Exports : WritePage(e) /\ Accepted(export[e])
           \/ \E q \in Requests, target \in Changing \cup Slugs :
                 CreateForgetRequest(q, target)
           \/ UNCHANGED <<memory, page, revision, request>>
<1>1. CASE \E e \in Exports : OpenFile(e) \/ WritePart(e) \/ CloseFile(e)
  BY <1>1 DEF OpenFile, WritePart, CloseFile
<1> QED
  BY <1>1, ChangingAssumption
     DEF Next, ReadForPatch, StartExport, LookUpPage, WritePage, AbandonExport

LEMMA StepKeepsMark ==
    ASSUME IInv, [Next]_vars, NEW s \in Slugs, NEW m \in Memories,
           FreshOrFlagged(s, m), ~FreshOrFlagged(s, m)'
    PROVE  StaleWrite(s)
<1>1. /\ Published(s)' /\ GeneratedFrom(s, m)' /\ ~page'[s].needs_rebuild
      /\ \E b \in Shown(s)' : b.memory = m /\ ~(b.version = memory'[m].version
                                               /\ memory'[m].status = "active")
  BY DEF FreshOrFlagged
<1>2. ASSUME memory'[m] = memory[m], page'[s] = page[s], revision'[s] = revision[s]
      PROVE  FALSE
  BY <1>2 DEF FreshOrFlagged, Published, GeneratedFrom, Shown
<1>3. ASSUME RowsKept, revision' = revision, page[s].status = page'[s].status,
             memory'[m] = memory[m], ~page[s].needs_rebuild
      PROVE  FALSE
  BY <1>1, <1>3 DEF FreshOrFlagged, Published, GeneratedFrom, Shown, RowsKept
<1>4. TypeOK
  BY DEF IInv
<1>5. ASSUME NEW k \in Memories, page' = MarkedForRebuild(k), revision' = revision,
             \A l \in Memories \ {k} : memory'[l] = memory[l]
      PROVE  FALSE
  <2>2. RowsKept /\ revision' = revision /\ page' = MarkedForRebuild(k)
    BY <1>4, <1>5, MarkingKeepsRows
  <2>3. page[s] # Null /\ GeneratedFrom(s, m)
    BY <1>1, <2>2 DEF Published, GeneratedFrom, RowsKept
  <2>4. page'[s].status = page[s].status
        /\ page'[s].needs_rebuild = (page[s].needs_rebuild \/ GeneratedFrom(s, k))
    BY <1>4, <2>2, <2>3, MarkedRow
  <2>5. k # m
    BY <1>1, <2>3, <2>4
  <2>6. memory'[m] = memory[m]
    BY <1>5, <2>5
  <2> QED
    BY <1>1, <1>3, <2>2, <2>4, <2>6
<1>5a. ASSUME NEW p \in Patches, WritePatch(p) PROVE FALSE
  <2> DEFINE k == patch[p].memory_id
  <2>1. /\ k \in Memories /\ revision' = revision
        /\ \A l \in Memories \ {k} : memory'[l] = memory[l]
        /\ \/ page' = MarkedForRebuild(k)
           \/ /\ page' = page
              /\ memory'[k].status = memory[k].status
              /\ memory'[k].version = memory[k].version
    BY <1>5a, PatchWrite
  <2> HIDE DEF k
  <2>2. CASE page' = MarkedForRebuild(k)
    BY <1>5, <2>1, <2>2
  <2>3. CASE /\ page' = page
             /\ memory'[k].status = memory[k].status
             /\ memory'[k].version = memory[k].version
    <3>1. memory'[m].status = memory[m].status /\ memory'[m].version = memory[m].version
      BY <2>1, <2>3
    <3> QED
      BY <2>1, <2>3, <3>1 DEF FreshOrFlagged, Published, GeneratedFrom, Shown
  <2> QED
    BY <2>1, <2>2, <2>3
<1>5b. ASSUME NEW k \in Memories, DeleteMemory(k) PROVE FALSE
  <2>1. /\ page' = MarkedForRebuild(k) /\ revision' = revision
        /\ \A l \in Memories \ {k} : memory'[l] = memory[l]
    BY <1>4, <1>5b DEF DeleteMemory, TypeOK
  <2> QED
    BY <1>5, <2>1
<1>6. CASE \E q \in Requests, status \in RequestStatuses : UpdateForgetRequest(q, status)
  <2>1. PICK q \in Requests, status \in RequestStatuses : UpdateForgetRequest(q, status)
    BY <1>6
  <2>2. revision' = revision
    BY <2>1 DEF UpdateForgetRequest
  <2>3. ASSUME NEW k \in Memories, ForgetMemory(k) PROVE FALSE
    <3>1. RowsKept /\ (GeneratedFrom(s, k) => page'[s].status = "forgotten")
      BY <1>4, <2>3, ForgettingKeepsRows DEF ForgetMemory
    <3>2. page[s] # Null /\ GeneratedFrom(s, m)
      BY <1>1, <3>1 DEF Published, GeneratedFrom, RowsKept
    <3>3. k # m
      BY <1>1, <3>1, <3>2 DEF Published
    <3>4. memory'[m] = memory[m]
      BY <1>4, <2>3, <3>3, ForgettingAudits DEF IInv
    <3>5. page'[s] = page[s]
      BY <2>3, <3>2, <3>3 DEF ForgetMemory, PagesForgotten, MarkedForRebuild, GeneratedFrom
    <3> QED
      BY <1>2, <2>2, <3>4, <3>5
  <2>4. ASSUME NEW t \in Slugs, page[t] # Null, ForgetPage(t) PROVE FALSE
    <3>1. page'[t].status = "forgotten" /\ \A u \in Slugs \ {t} : page'[u] = page[u]
      BY <1>4, <2>4, ForgettingPageKeepsRows
    <3>2. memory' = memory
      BY <2>4 DEF ForgetPage
    <3> QED
      BY <1>1, <1>2, <2>2, <3>1, <3>2 DEF Published
  <2>5. CASE UNCHANGED <<memory, page>>
    BY <1>2, <2>2, <2>5
  <2>6. request[q] # Null /\ (request[q].target \in Slugs => page[request[q].target] # Null)
    BY <2>1, ReviewIsGoverned DEF IInv, TargetsFollow
  <2> QED
    BY <2>1, <2>3, <2>4, <2>5, <2>6, ReviewIsGoverned
<1>7. CASE \E e \in Exports : WritePage(e) /\ Accepted(export[e])
  <2>1. PICK e \in Exports : WritePage(e) /\ Accepted(export[e])
    BY <1>7
  <2>2. memory' = memory
    BY <2>1 DEF WritePage
  <2>3. s = export[e].slug
    BY <1>2, <2>1, <2>2, ShownAfterExport
  <2>4. ASSUME ~StaleWrite(s) PROVE FALSE
    <3>1. Shown(s)' = BodyOf(export[e].memory_ids)
      BY <2>1, <2>3, <2>4, ShownAfterExport, NotStaleIsCurrent
    <3> QED
      BY <1>1, <2>2, <3>1 DEF BodyOf
  <2> QED
    BY <2>4
<1>8. CASE \E q \in Requests, target \in Changing \cup Slugs : CreateForgetRequest(q, target)
  BY <1>2, <1>8 DEF CreateForgetRequest
<1>9. CASE UNCHANGED <<memory, page, revision, request>>
  BY <1>2, <1>9
<1> QED
  BY <1>5a, <1>5b, <1>6, <1>7, <1>8, <1>9, StepKinds DEF vars

LEMMA StepKeepsUnpublished ==
    ASSUME IInv, [Next]_vars, NEW q \in Requests, NEW s \in Slugs,
           Unpublished(q, s), ~Unpublished(q, s)'
    PROVE  \/ StaleWrite(s)
           \/ request[q].target \in Memories /\ ~Retired(request[q].target)'
<1>0. PICK t : t = request'[q].target
  OBVIOUS
<1>1. /\ Approved(q)' /\ Published(s)' /\ GeneratedFrom(s, t)'
      /\ \E b \in Shown(s)' : b.memory = t
  BY <1>0 DEF Unpublished, GeneratedFrom
<1>2. ASSUME request'[q] = request[q], RowsKept, revision' = revision
      PROVE  FALSE
  BY <1>0, <1>1, <1>2 DEF Unpublished, Approved, Published, GeneratedFrom, Shown, RowsKept
<1>3. ASSUME request'[q] = request[q], page'[s] = page[s], revision'[s] = revision[s]
      PROVE  FALSE
  BY <1>3 DEF Unpublished, Approved, Published, GeneratedFrom, Shown
<1>4. TypeOK
  BY DEF IInv
<1>5. CASE (\E p \in Patches : WritePatch(p)) \/ (\E k \in Memories : DeleteMemory(k))
  BY <1>2, <1>5, PatchIsGoverned, DeleteIsGoverned DEF GovernedWrite
<1>6. CASE \E r \in Requests, status \in RequestStatuses : UpdateForgetRequest(r, status)
  <2>1. PICK r \in Requests, status \in RequestStatuses : UpdateForgetRequest(r, status)
    BY <1>6
  <2>2. GovernedWrite
    BY <2>1, ReviewIsGoverned
  <2>3. CASE r # q
    <3>1. request'[q] = request[q]
      BY <2>1, <2>3, ReviewIsGoverned
    <3> QED
      BY <1>2, <2>2, <3>1 DEF GovernedWrite
  <2>4. CASE r = q
    <3>1. /\ request'[q].status = status /\ t = request[q].target
          /\ request[q] \in RequestRow
      BY <1>0, <2>1, <2>4, ReviewIsGoverned
    <3>2. status \in {"approved", "done"}
      BY <1>1, <3>1 DEF Approved
    <3>3. page[s] # Null /\ GeneratedFrom(s, t) /\ t \in Memories \cup Slugs
      BY <1>1, <2>2, <3>1 DEF Published, GeneratedFrom, GovernedWrite, RowsKept, RequestRow
    <3>4. t \notin Slugs
      BY <1>4, <3>3, TargetAssumption DEF TypeOK, PageRow, GeneratedFrom
    <3>5. t \in Memories /\ ForgetMemory(t)
      BY <2>1, <2>4, <3>1, <3>2, <3>4, ReviewIsGoverned
    <3>6. page'[s].status = "forgotten"
      BY <1>4, <3>3, <3>5, ForgettingKeepsRows DEF ForgetMemory
    <3> QED
      BY <1>1, <3>6 DEF Published
  <2> QED
    BY <2>3, <2>4
<1>7. CASE \E e \in Exports : WritePage(e) /\ Accepted(export[e])
  <2>1. PICK e \in Exports : WritePage(e) /\ Accepted(export[e])
    BY <1>7
  <2>2. memory' = memory /\ request' = request
    BY <2>1 DEF WritePage
  <2>3. s = export[e].slug
    BY <1>3, <2>1, <2>2, ShownAfterExport
  <2>4. t \in Memories
    <3>1. page'[s] \in PageRow /\ page'[s].generated_from = t
      BY <1>1, StepKeepsInvariant DEF IInv, TypeOK, Published, GeneratedFrom
    <3>2. request[q] \in RequestRow /\ t = request[q].target
      BY <1>0, <1>1, <2>2 DEF IInv, TypeOK, Approved
    <3> QED
      BY <3>1, <3>2, TargetAssumption DEF PageRow, RequestRow
  <2>5. ASSUME ~StaleWrite(s) PROVE memory[t].status = "active"
    <3>1. Shown(s)' = BodyOf(export[e].memory_ids)
      BY <2>1, <2>3, <2>5, ShownAfterExport, NotStaleIsCurrent
    <3> QED
      BY <1>1, <3>1 DEF BodyOf
  <2> QED
    BY <1>0, <2>2, <2>4, <2>5 DEF Retired
<1>8. CASE \E r \in Requests, target \in Changing \cup Slugs : CreateForgetRequest(r, target)
  <2>1. PICK r \in Requests, target \in Changing \cup Slugs : CreateForgetRequest(r, target)
    BY <1>8
  <2> DEFINE row == [target |-> target, status |-> "pending", updates |-> 0]
  <2>2. request' = [request EXCEPT ![r] = row] /\ UNCHANGED <<page, revision>>
    BY <2>1 DEF CreateForgetRequest
  <2>3. row.status = "pending"
    OBVIOUS
  <2> HIDE DEF row
  <2>4. r # q
    BY <1>1, <1>4, <2>2, <2>3 DEF Approved, TypeOK
  <2>5. request'[q] = request[q]
    BY <1>4, <2>2, <2>4 DEF TypeOK
  <2> QED
    BY <1>3, <2>2, <2>5
<1>9. CASE UNCHANGED <<memory, page, revision, request>>
  BY <1>3, <1>9
<1> QED
  BY <1>5, <1>6, <1>7, <1>8, <1>9, StepKinds DEF vars

\* Of the statuses out of the working set none may be followed by one within it.
LEMMA StepKeepsRetired ==
    ASSUME IInv, [Next]_vars, NEW m \in Memories, Retired(m), ~Retired(m)'
    PROVE  StalePatch(m)
<1>1. TypeOK /\ ForgetsAudited /\ memory \in [Memories -> MemoryRow]
  BY DEF IInv, TypeOK
<1>2. memory'[m] # memory[m]
  BY DEF Retired
<1>3. ASSUME NEW k \in Memories, DeleteMemory(k) PROVE FALSE
  BY <1>1, <1>3 DEF DeleteMemory, Retired, MemoryRow
<1>4. ASSUME NEW k \in Memories, ForgetMemory(k) PROVE FALSE
  <2>1. memory'[k].status = "forgotten" /\ \A l \in Memories \ {k} : memory'[l] = memory[l]
    BY <1>1, <1>4, ForgettingAudits
  <2> QED
    BY <1>2, <2>1 DEF Retired
<1>5. ASSUME NEW q \in Requests, NEW status \in RequestStatuses,
             UpdateForgetRequest(q, status)
      PROVE  FALSE
  <2>1. \/ request[q].target \in Memories /\ ForgetMemory(request[q].target)
        \/ UNCHANGED memory
    BY <1>5 DEF UpdateForgetRequest, ForgetPage
  <2> QED
    BY <1>2, <1>4, <2>1
<1>6. PICK p \in Patches : WritePatch(p)
  BY <1>2, <1>3, <1>5, StepKinds DEF vars, WritePage, CreateForgetRequest
<1>7. /\ patch[p] # Null /\ patch'[p] = Null /\ patch[p].memory_id \in Memories
      /\ memory'[patch[p].memory_id].status = patch[p].status
      /\ \A l \in Memories \ {patch[p].memory_id} : memory'[l] = memory[l]
  BY <1>6, PatchWrite
<1>8. patch[p].memory_id = m
  BY <1>2, <1>7
<1>9. patch[p].existing \in Statuses
  BY <1>7 DEF IInv, TypeOK, PatchInFlight
<1>10. patch[p].existing # memory[m].status
  <2> SUFFICES ASSUME patch[p].existing = memory[m].status PROVE FALSE
    OBVIOUS
  <2>1. \/ patch[p].status = patch[p].existing
        \/ patch[p].status \in ALLOWED_STATUS_TRANSITIONS[patch[p].existing]
    BY <1>7 DEF IInv, PatchesChecked
  <2> QED
    BY <1>7, <1>8, <2>1 DEF Retired, ALLOWED_STATUS_TRANSITIONS
<1> QED
  BY <1>7, <1>8, <1>10 DEF StalePatch

\* What a verification asks for, check by check.
LEMMA ApprovingStepIsVerified ==
    ASSUME IInv, [Next]_vars, NEW q \in Requests, ~Approved(q), Approved(q)'
    PROVE  \/ VerificationPassed(q)'
           \/ /\ request[q].target \in Slugs
              /\ page[request[q].target].status = "forgotten"
              /\ page[request[q].target].forgets = 0
<1>0. PICK t : t = request[q].target
  OBVIOUS
<1>1. request'[q] # request[q]
  BY DEF Approved
<1>2. TypeOK /\ TypeOK' /\ ForgetsAudited
  BY StepKeepsInvariant DEF IInv
<1>3. PICK status \in RequestStatuses : UpdateForgetRequest(q, status)
  <2>1. ASSUME NEW r \in Requests, NEW target \in Changing \cup Slugs,
               CreateForgetRequest(r, target)
        PROVE  FALSE
    <3> DEFINE row == [target |-> target, status |-> "pending", updates |-> 0]
    <3>1. request' = [request EXCEPT ![r] = row] /\ row.status = "pending"
      BY <2>1 DEF CreateForgetRequest
    <3> HIDE DEF row
    <3> QED
      BY <1>1, <1>2, <3>1 DEF Approved, TypeOK
  <2>2. ASSUME NEW r \in Requests, NEW status \in RequestStatuses,
               UpdateForgetRequest(r, status)
        PROVE  r = q
    BY <1>1, <2>2, ReviewIsGoverned
  <2>3. ASSUME request' = request PROVE FALSE
    BY <1>1, <2>3
  <2> QED
    BY <2>1, <2>2, <2>3, StepKinds, PatchIsGoverned, DeleteIsGoverned DEF vars, WritePage
<1>4. /\ request'[q].target = t /\ request'[q].status = status /\ t \in Memories \cup Slugs
      /\ request'[q].updates \in {1, 2} /\ GovernedWrite
      /\ status \in {"approved", "done"} =>
            \/ t \in Memories /\ ForgetMemory(t)
            \/ t \in Slugs /\ ForgetPage(t)
  BY <1>0, <1>3, ReviewIsGoverned DEF RequestRow
<1>5. status \in {"approved", "done"}
  BY <1>4 DEF Approved
<1>6. ASSUME TargetStatus(q)' = "forgotten",
             \A s \in Slugs : ~(Published(s) /\ GeneratedFrom(s, t))',
             TargetForgets(q)' \in {1, 2}
      PROVE  VerificationPassed(q)'
  <2>1. \A u, v \in {1, 2} : u + v >= 2
    OBVIOUS
  <2>2. AuditCoverage(q)'
    BY <1>4, <1>6, <2>1 DEF AuditCoverage
  <2>3. \A s \in Slugs : ~(Published(s)' /\ GeneratedFrom(s, request[q].target)')
    BY <1>4, <1>6 DEF GeneratedFrom, Published
  <2>4. DOMAIN Checks(q)' = {"target_soft_deleted", "retrieval_exclusion",
                             "wiki_export_exclusion", "audit_coverage"}
    BY DEF Checks
  <2>5. /\ Checks(q)'["target_soft_deleted"] /\ Checks(q)'["retrieval_exclusion"]
        /\ Checks(q)'["wiki_export_exclusion"] /\ Checks(q)'["audit_coverage"]
    BY <1>6, <2>2, <2>3 DEF Checks
  <2> QED
    BY <2>4, <2>5 DEF VerificationPassed
<1>7. CASE t \in Memories /\ ForgetMemory(t)
  <2>1. /\ RowsKept
        /\ \A s \in Slugs : GeneratedFrom(s, t) => page'[s].status = "forgotten"
    BY <1>2, <1>7, ForgettingKeepsRows DEF ForgetMemory
  <2>2. memory'[t].status = "forgotten" /\ memory'[t].forgets \in {1, 2}
    BY <1>2, <1>7, ForgettingAudits
  <2>3. TargetStatus(q)' = "forgotten" /\ TargetForgets(q)' \in {1, 2}
    BY <1>4, <1>7, <2>2 DEF TargetStatus, TargetForgets
  <2>4. \A s \in Slugs : ~(Published(s)' /\ GeneratedFrom(s, t)')
    BY <2>1 DEF Published, GeneratedFrom, RowsKept
  <2> QED
    BY <1>6, <2>3, <2>4
<1>8. CASE t \in Slugs /\ ForgetPage(t)
  <2>1. t \notin Memories /\ t # Null /\ page[t] # Null /\ request[q] # Null
    BY <1>0, <1>3, <1>8, TargetAssumption, ReviewIsGoverned DEF IInv, TargetsFollow
  <2>2. /\ page'[t].status = "forgotten"
        /\ page[t].status # "forgotten" => page'[t].forgets \in {1, 2}
    BY <1>2, <1>8, <2>1, ForgettingPageKeepsRows
  <2>3. page[t].status = "forgotten" => page'[t].forgets \in {0, 1, 2} /\ page' = page
    BY <1>2, <1>8, <2>1 DEF ForgetPage, TypeOK, PageRow, Count
  <2>4. \A s \in Slugs : ~(Published(s)' /\ GeneratedFrom(s, t)')
    BY <1>2, <1>8, TargetAssumption DEF Published, GeneratedFrom, TypeOK, PageRow
  <2>5. TargetStatus(q)' = "forgotten" /\ TargetForgets(q)' = page'[t].forgets
    BY <1>4, <1>8, <2>1, <2>2 DEF TargetStatus, TargetForgets
  <2>6. CASE page'[t].forgets \in {1, 2}
    BY <1>6, <2>4, <2>5, <2>6
  <2>7. CASE page'[t].forgets \notin {1, 2}
    BY <1>0, <1>8, <2>2, <2>3, <2>7
  <2> QED
    BY <2>6, <2>7
<1> QED
  BY <1>0, <1>4, <1>5, <1>7, <1>8

\* Nothing but an export that overlapped with the change makes a page show another version
\* of its memory without the mark for a rebuild (fn_mark_wiki_rebuild_for_memory and
\* wiki_service.export_page).
THEOREM OnlyStaleExportsLoseTheMark == Spec => OnlyOverlapLosesTheMark
<1>1. IInv /\ [Next]_vars =>
         [\A s \in Slugs, m \in Memories :
             FreshOrFlagged(s, m) /\ ~FreshOrFlagged(s, m)' => StaleWrite(s)]_vars
  BY StepKeepsMark
<1> QED
  BY <1>1, Invariance, PTL DEF Spec, OnlyOverlapLosesTheMark

\* What has left the working set comes back only by a PATCH that overlapped with its leaving
\* (memory_service.update_memory), and what was forgotten on request is published again only
\* by an export that overlapped with the approval, or of a memory that came back
\* (governance_service.update_forget_request, wiki_service.export_page).
THEOREM OnlyOverlapsUndoForgetting == Spec => OnlyOverlapUndoesForgetting
<1>1. IInv /\ [Next]_vars =>
         [/\ \A m \in Memories : Retired(m) /\ ~Retired(m)' => StalePatch(m)
          /\ \A q \in Requests, s \in Slugs :
                Unpublished(q, s) /\ ~Unpublished(q, s)' =>
                    \/ StaleWrite(s)
                    \/ request[q].target \in Memories /\ ~Retired(request[q].target)']_vars
  BY StepKeepsUnpublished, StepKeepsRetired
<1> QED
  BY <1>1, Invariance, PTL DEF Spec, OnlyOverlapUndoesForgetting

\* A verification that follows an approval at once passes, but for a page that was already
\* forgotten with its memory, which left no audit row (verify_forget_request).
THEOREM ApprovalsAreVerified == Spec => ApprovalVerified
<1>1. IInv /\ [Next]_vars =>
         [\A q \in Requests :
             ~Approved(q) /\ Approved(q)' =>
                 \/ VerificationPassed(q)'
                 \/ /\ request[q].target \in Slugs
                    /\ page[request[q].target].status = "forgotten"
                    /\ page[request[q].target].forgets = 0]_vars
  BY ApprovingStepIsVerified
<1> QED
  BY <1>1, Invariance, PTL DEF Spec, ApprovalVerified
===============================================================================
