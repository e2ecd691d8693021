---------------------- MODULE ConflictTransactionsProofs ----------------------
(***************************************************************************)
(* Proofs about ConflictTransactions for every finite set of memories and  *)
(* every set of requests and detections.                                   *)
(***************************************************************************)
EXTENDS ConflictTransactions, FiniteSetTheorems, TLAPS

-------------------------------------------------------------------------------
(* The inductive invariant. *)

First(x) == Endpoints(x.pair)[1]
Second(x) == Endpoints(x.pair)[2]

\* What a transaction holds: its record from the moment it writes it, and endpoints that
\* it has come past.
Locks(x) ==
    /\ x.wrote <=> x.at # "write_record"
    /\ x.at = "write_record" => x.side = 1
    /\ x.side = 1 => \A m \in Memories : x.writes[m] = "none"
    /\ \A m \in Memories : x.writes[m] # "none" => m \in x.pair
    /\ x.at # "commit" => x.writes[Second(x)] = "none"

\* Every transaction takes its locks in the same order.
LocksInOrder == \A t \in Transactions : tx[t] # Idle => Locks(tx[t])

\* The trigger is past m, or does not come to it.
Settled(x, m) ==
    /\ m = First(x) => x.side = 2 \/ x.at = "commit"
    /\ m = Second(x) => x.at = "commit"

\* What a transaction that runs alone has made of the memories it sees.
View(x) ==
    /\ x.kind = "create" <=> record[x.pair] = "none"
    /\ x.at = "mark" => x.kind # "close"
    /\ x.at \in {"check", "restore"} => x.kind = "close" /\ record[x.pair] = "open"
    /\ x.at = "restore" => Clear(x)
    /\ x.at # "write_record" =>
          \A m \in Memories :
             Settled(x, m) => (SeenStatus(x, m) = "conflicted" <=> HasOpenConflict(x, m))

Busy == InFlight \cup Detecting

\* Clients that never overlap two requests leave the committed statuses in line with the
\* records at all times.
Alone ==
    /\ \A t, u \in Busy : t = u
    /\ \A m \in Memories : status[m] = "conflicted" <=> OpenConflictOf(m)
    /\ \A t \in Transactions : tx[t] # Idle => View(tx[t])

IInv == TypeOK /\ LocksInOrder /\ (Serialized => Alone)

-------------------------------------------------------------------------------
(* Pairs and transactions. *)

LEMMA PairEndpoints ==
    ASSUME NEW p \in Pairs
    PROVE  /\ Endpoints(p)[1] \in p /\ Endpoints(p)[2] \in p
           /\ Endpoints(p)[1] \in Memories /\ Endpoints(p)[2] \in Memories
           /\ Endpoints(p)[1] < Endpoints(p)[2]
           /\ p = {Endpoints(p)[1], Endpoints(p)[2]}
<1>1. p \subseteq Memories /\ IsFiniteSet(p) /\ Cardinality(p) = 2
  BY MemoriesAssumption, FS_Subset DEF Pairs
<1>2. PICK a \in p : TRUE
  BY <1>1, FS_EmptySet
<1>3. IsFiniteSet(p \ {a}) /\ Cardinality(p \ {a}) = 1
  BY <1>1, <1>2, FS_RemoveElement
<1>4. PICK b : p \ {a} = {b}
  BY <1>3, FS_Singleton
<1>5. p = {a, b} /\ a # b /\ a \in Nat /\ b \in Nat
  BY <1>1, <1>2, <1>4, MemoriesAssumption
<1>6. \E s \in p \X p : s[1] < s[2]
  <2>1. CASE a < b
    <3>1. <<a, b>> \in p \X p
      BY <1>5
    <3>2. <<a, b>>[1] < <<a, b>>[2]
      BY <2>1
    <3> QED
      BY <3>1, <3>2
  <2>2. CASE b < a
    <3>1. <<b, a>> \in p \X p
      BY <1>5
    <3>2. <<b, a>>[1] < <<b, a>>[2]
      BY <2>2
    <3> QED
      BY <3>1, <3>2
  <2> QED
    BY <1>5, <2>1, <2>2
<1>7. Endpoints(p) \in p \X p /\ Endpoints(p)[1] < Endpoints(p)[2]
  BY <1>6 DEF Endpoints
<1> QED
  BY <1>1, <1>5, <1>7

LEMMA IdleIsNone == Idle \notin TransactionType
  BY DEF Idle, TransactionType, Steps

\* A transaction in flight has the type and the locks of one.
LEMMA InFlightTyped ==
    ASSUME IInv, NEW t \in Transactions, tx[t] # Idle
    PROVE  /\ tx[t] \in TransactionType /\ Locks(tx[t]) /\ (Serialized => View(tx[t]))
           /\ tx[t].pair \in Pairs /\ tx[t].side \in {1, 2} /\ tx[t].at \in Steps
           /\ tx[t].kind \in RequestKinds
           /\ tx[t].writes \in [Memories -> MemoryStatuses \cup {"none"}]
           /\ Endpoint(tx[t]) \in Memories /\ Endpoint(tx[t]) \in tx[t].pair
           /\ Endpoint(tx[t]) = IF tx[t].side = 1 THEN First(tx[t]) ELSE Second(tx[t])
           /\ First(tx[t]) < Second(tx[t])
           /\ tx[t].pair = {First(tx[t]), Second(tx[t])}
<1>1. tx[t] \in TransactionType
  BY DEF IInv, TypeOK
<1>2. /\ tx[t].pair \in Pairs /\ tx[t].side \in {1, 2} /\ tx[t].at \in Steps
      /\ tx[t].kind \in RequestKinds
      /\ tx[t].writes \in [Memories -> MemoryStatuses \cup {"none"}]
  BY <1>1 DEF TransactionType
<1>3. Locks(tx[t]) /\ (Serialized => View(tx[t]))
  BY DEF IInv, LocksInOrder, Alone
<1>4. /\ Endpoint(tx[t]) \in Memories /\ Endpoint(tx[t]) \in tx[t].pair
      /\ Endpoint(tx[t]) = IF tx[t].side = 1 THEN First(tx[t]) ELSE Second(tx[t])
      /\ First(tx[t]) < Second(tx[t])
      /\ tx[t].pair = {First(tx[t]), Second(tx[t])}
  BY <1>2, PairEndpoints DEF Endpoint, First, Second
<1> QED
  BY <1>1, <1>2, <1>3, <1>4

-------------------------------------------------------------------------------
(* The steps. *)

\* A transaction that goes from one state to another, or to Idle, and commits nothing.
LEMMA StepsAlone ==
    ASSUME IInv, NEW t \in Transactions, NEW y \in TransactionType \cup {Idle},
           tx' = [tx EXCEPT ![t] = y], UNCHANGED <<record, status>>,
           y # Idle => Locks(y) /\ (Serialized => View(y)),
           scan' \in [Transactions -> SUBSET Pairs],
           \A u \in Transactions : u # t => scan'[u] = scan[u],
           Serialized => Busy \subseteq {t}
    PROVE  IInv'
<1>1. TypeOK'
  BY DEF IInv, TypeOK
<1>2. tx'[t] = y /\ \A u \in Transactions : u # t => tx'[u] = tx[u]
  BY DEF IInv, TypeOK
<1>3. LocksInOrder'
  <2>1. ASSUME NEW u \in Transactions, tx'[u] # Idle
        PROVE  Locks(tx'[u])
    BY <1>2, <2>1 DEF IInv, LocksInOrder
  <2> QED
    BY <2>1 DEF LocksInOrder, Locks, First, Second
<1>4. ASSUME Serialized PROVE Alone'
  <2>1. \A u \in Transactions : u # t => u \notin Busy
    BY <1>4
  <2>2. \A u \in Transactions : u # t => tx'[u] = Idle /\ scan'[u] = {}
    BY <1>2, <2>1 DEF Busy, InFlight, Detecting
  <2>3. \A u, v \in Busy' : u = v
    BY <2>2 DEF Busy, InFlight, Detecting
  <2>4. \A m \in Memories : status'[m] = "conflicted" <=> OpenConflictOf(m)'
    BY <1>4 DEF IInv, Alone, OpenConflictOf
  <2>5. ASSUME NEW u \in Transactions, tx'[u] # Idle
        PROVE  View(tx[u])'
    <3>1. u = t /\ y # Idle
      BY <1>2, <2>2, <2>5
    <3>2. tx'[u] = y /\ record' = record /\ status' = status
      BY <1>2, <3>1
    <3>3. View(y)
      BY <1>4, <3>1
    <3> QED
      BY <3>2, <3>3 DEF View, Settled, First, Second, Clear, Endpoint, SeenStatus, SeenRecord,
                        HasOpenConflict, Target
  <2> QED
    BY <2>3, <2>4, <2>5 DEF Alone
<1> QED
  BY <1>1, <1>3, <1>4 DEF IInv

\* A transaction begins with nothing written.
LEMMA BeginsClean ==
    ASSUME NEW kind \in RequestKinds, NEW p \in Pairs
    PROVE  LET y == Started(kind, p) IN
           /\ y \in TransactionType /\ Locks(y)
           /\ (kind = "create" <=> record[p] = "none") => View(y)
<1> DEFINE y == Started(kind, p)
<1>1. /\ y.at = "write_record" /\ y.kind = kind /\ y.pair = p /\ y.wrote = FALSE /\ y.side = 1
      /\ y.writes = [m \in Memories |-> "none"]
  BY DEF Started
<1>2. y \in TransactionType
  BY DEF Started, TransactionType, Steps, RequestKinds
<1>3. Second(y) \in Memories
  BY <1>1, PairEndpoints DEF Second
<1>4. Locks(y)
  BY <1>1, <1>3 DEF Locks
<1>5. (kind = "create" <=> record[p] = "none") => View(y)
  BY <1>1 DEF View
<1> QED
  BY <1>2, <1>4, <1>5

LEMMA BeginKeepsInvariant ==
    ASSUME IInv, NEW t \in Transactions, NEW kind \in Kinds, NEW p \in Pairs,
           Begin(t, kind, p)
    PROVE  IInv'
<1> DEFINE y == Started(kind, p)
<1>1. /\ y \in TransactionType /\ Locks(y)
      /\ (kind = "create" <=> record[p] = "none") => View(y)
  BY BeginsClean, KindsAssumption
<1>2. /\ kind = "create" <=> record[p] = "none"
      /\ tx' = [tx EXCEPT ![t] = y] /\ UNCHANGED <<record, status, scan>>
      /\ Serialized => Busy = {}
  BY DEF Begin, MayBegin, Busy
<1>3. scan' \in [Transactions -> SUBSET Pairs]
  BY <1>2 DEF IInv, TypeOK
<1> HIDE DEF y
<1> QED
  BY <1>1, <1>2, <1>3, StepsAlone

LEMMA DetectKeepsInvariant ==
    ASSUME IInv, NEW t \in Transactions, NEW target \in Memories, Detect(t, target)
    PROVE  IInv'
<1> DEFINE found == {p \in Pairs : target \in p /\ Alike(p)
                        /\ \A m \in p \ {target} : status[m] = "active"}
<1>1. /\ UNCHANGED <<record, status, tx>> /\ scan' = [scan EXCEPT ![t] = found]
      /\ tx[t] = Idle /\ (Serialized => Busy = {})
  BY DEF Detect, MayBegin, Busy, InFlight
<1>2. found \subseteq Pairs
  OBVIOUS
<1> HIDE DEF found
<1>3. scan' \in [Transactions -> SUBSET Pairs] /\ \A u \in Transactions : u # t => scan'[u] = scan[u]
  BY <1>1, <1>2 DEF IInv, TypeOK
<1>4. tx' = [tx EXCEPT ![t] = Idle]
  BY <1>1 DEF IInv, TypeOK
<1> QED
  BY <1>1, <1>3, <1>4, StepsAlone

LEMMA DetectNextKeepsInvariant ==
    ASSUME IInv, NEW t \in Transactions, NEW p \in Pairs, DetectNext(t, p)
    PROVE  IInv'
<1>1. /\ UNCHANGED <<record, status>> /\ scan' = [scan EXCEPT ![t] = @ \ {p}]
      /\ tx[t] = Idle /\ p \in scan[t]
  BY DEF DetectNext
<1>2. scan' \in [Transactions -> SUBSET Pairs] /\ \A u \in Transactions : u # t => scan'[u] = scan[u]
  BY <1>1 DEF IInv, TypeOK
<1>3. Serialized => Busy \subseteq {t}
  BY <1>1 DEF IInv, Alone, Busy, Detecting
<1>4. CASE record[p] = "none"
  <2> DEFINE y == Started("create", p)
  <2>1. y \in TransactionType /\ Locks(y) /\ View(y)
    BY <1>4, BeginsClean DEF RequestKinds
  <2>2. tx' = [tx EXCEPT ![t] = y]
    BY <1>4 DEF DetectNext
  <2> HIDE DEF y
  <2> QED
    BY <1>1, <1>2, <1>3, <2>1, <2>2, StepsAlone
<1>5. CASE record[p] # "none"
  <2>1. tx' = [tx EXCEPT ![t] = Idle]
    BY <1>1, <1>5 DEF DetectNext, IInv, TypeOK
  <2> QED
    BY <1>1, <1>2, <1>3, <2>1, StepsAlone
<1> QED
  BY <1>4, <1>5

\* A request that fails, and with it its detection.
LEMMA EndKeepsInvariant ==
    ASSUME IInv, NEW t \in Transactions, t \in Busy, End(t), UNCHANGED <<record, status>>
    PROVE  IInv'
<1>1. tx' = [tx EXCEPT ![t] = Idle] /\ scan' = [scan EXCEPT ![t] = {}]
  BY DEF End
<1>2. scan' \in [Transactions -> SUBSET Pairs] /\ \A u \in Transactions : u # t => scan'[u] = scan[u]
  BY <1>1 DEF IInv, TypeOK
<1>3. Serialized => Busy \subseteq {t}
  BY DEF IInv, Alone
<1> QED
  BY <1>1, <1>2, <1>3, StepsAlone

\* The trigger comes past an endpoint.
LEMMA AdvanceType ==
    ASSUME NEW z \in TransactionType, NEW again \in Steps
    PROVE  LET y == Advance(z, again) IN
           /\ y \in TransactionType
           /\ y.kind = z.kind /\ y.pair = z.pair /\ y.wrote = z.wrote /\ y.side = 2
           /\ y.at = IF z.side = 1 THEN again ELSE "commit"
           /\ y.writes = z.writes
<1>1. z.side \in {1, 2} /\ "commit" \in Steps /\ 2 \in 1 .. 2
  BY DEF TransactionType, Steps
<1>2. CASE z.side = 1
  <2>1. Advance(z, again) = [z EXCEPT !.side = 2, !.at = again]
    BY <1>2 DEF Advance
  <2> QED
    BY <1>1, <1>2, <2>1 DEF TransactionType
<1>3. CASE z.side = 2
  <2>1. Advance(z, again) = [z EXCEPT !.at = "commit"]
    BY <1>3 DEF Advance
  <2> QED
    BY <1>1, <1>3, <2>1 DEF TransactionType
<1> QED
  BY <1>1, <1>2, <1>3

\* z is x, or x with its endpoint written.
Wrote(x, z, w) ==
    /\ z \in TransactionType
    /\ z.kind = x.kind /\ z.pair = x.pair /\ z.wrote = x.wrote /\ z.side = x.side
    /\ z.writes \in {x.writes, [x.writes EXCEPT ![Endpoint(x)] = w]}

LEMMA WroteEndpoint ==
    ASSUME NEW x \in TransactionType, NEW w \in MemoryStatuses, Endpoint(x) \in Memories
    PROVE  LET z == [x EXCEPT !.writes[Endpoint(x)] = w] IN
           Wrote(x, z, w) /\ SeenStatus(z, Endpoint(x)) = w
<1> DEFINE m == Endpoint(x)
           writes == [x.writes EXCEPT ![m] = w]
           z == [x EXCEPT !.writes[m] = w]
<1>1. x.writes \in [Memories -> MemoryStatuses \cup {"none"}]
  BY DEF TransactionType
<1>2. writes \in [Memories -> MemoryStatuses \cup {"none"}] /\ writes[m] = w /\ w # "none"
  BY <1>1 DEF MemoryStatuses
<1> HIDE DEF m
<1>3. z = [x EXCEPT !.writes = writes]
  BY DEF TransactionType
<1>4. /\ z \in TransactionType /\ z.writes = writes
      /\ z.kind = x.kind /\ z.pair = x.pair /\ z.wrote = x.wrote /\ z.side = x.side
  <2> HIDE DEF z, writes
  <2> QED
    BY <1>2, <1>3 DEF TransactionType
<1> HIDE DEF z
<1> QED
  BY <1>2, <1>4 DEF Wrote, SeenStatus, m, z

LEMMA AdvanceKeepsInvariant ==
    ASSUME IInv, NEW t \in Transactions, tx[t] # Idle, tx[t].at \in {"mark", "check", "restore"},
           NEW w \in MemoryStatuses, NEW again \in {"mark", "check"},
           NEW z, Wrote(tx[t], z, w),
           tx' = [tx EXCEPT ![t] = Advance(z, again)], UNCHANGED <<record, status, scan>>,
           Serialized =>
              /\ again = "mark" => tx[t].kind # "close"
              /\ again = "check" => tx[t].kind = "close" /\ record[tx[t].pair] = "open"
              /\ SeenStatus(z, Endpoint(tx[t])) = "conflicted"
                    <=> HasOpenConflict(tx[t], Endpoint(tx[t]))
    PROVE  IInv'
<1> DEFINE x == tx[t]
           m == Endpoint(x)
           y == Advance(z, again)
<1>1. /\ x \in TransactionType /\ Locks(x) /\ (Serialized => View(x))
      /\ x.side \in {1, 2} /\ m \in Memories /\ m \in x.pair
      /\ m = IF x.side = 1 THEN First(x) ELSE Second(x)
      /\ First(x) < Second(x) /\ x.pair = {First(x), Second(x)}
      /\ x.writes \in [Memories -> MemoryStatuses \cup {"none"}]
      /\ First(x) \in Nat /\ Second(x) \in Nat
  BY InFlightTyped, PairEndpoints, MemoriesAssumption DEF First, Second
<1>2. /\ y \in TransactionType
      /\ y.kind = x.kind /\ y.pair = x.pair /\ y.wrote = x.wrote /\ y.side = 2
      /\ y.at = IF x.side = 1 THEN again ELSE "commit"
      /\ y.writes = z.writes
      /\ z.writes \in {x.writes, [x.writes EXCEPT ![m] = w]}
  BY AdvanceType DEF Wrote, Steps
<1>3. First(y) = First(x) /\ Second(y) = Second(x)
  BY <1>2 DEF First, Second
<1>4. scan' \in [Transactions -> SUBSET Pairs] /\ \A u \in Transactions : scan'[u] = scan[u]
  BY DEF IInv, TypeOK
<1>5. Serialized => Busy \subseteq {t}
  BY DEF IInv, Alone, Busy, InFlight
<1> HIDE DEF y, m
<1>6. \A k \in Memories : k # m => z.writes[k] = x.writes[k]
  BY <1>1, <1>2
<1>7. Locks(y)
  <2>1. y.wrote <=> y.at # "write_record"
    BY <1>1, <1>2 DEF Locks
  <2>2. \A k \in Memories : y.writes[k] # "none" => k \in y.pair
    BY <1>1, <1>2, <1>6 DEF Locks
  <2>3. y.at # "commit" => y.writes[Second(y)] = "none"
    <3>1. ASSUME y.at # "commit" PROVE x.side = 1 /\ m = First(x)
      BY <1>1, <1>2, <3>1
    <3>2. y.at # "commit" => Second(x) # m /\ Second(x) \in Memories
      BY <1>1, <3>1, InFlightTyped, PairEndpoints DEF Second
    <3> QED
      BY <1>1, <1>2, <1>3, <1>6, <3>1, <3>2 DEF Locks
  <2> QED
    BY <1>2, <2>1, <2>2, <2>3 DEF Locks
<1>8. ASSUME Serialized PROVE View(y)
  <2>1. ASSUME NEW k \in Memories
        PROVE  HasOpenConflict(y, k) <=> HasOpenConflict(x, k)
    BY <1>2 DEF HasOpenConflict, SeenRecord, Target
  <2>2. \A k \in Memories : SeenStatus(y, k) = SeenStatus(z, k)
    BY <1>2 DEF SeenStatus
  <2>3. \A k \in Memories : k # m => SeenStatus(z, k) = SeenStatus(x, k)
    BY <1>6 DEF SeenStatus
  <2>4. ASSUME NEW k \in Memories, k # m, Settled(y, k) PROVE Settled(x, k)
    BY <1>1, <1>2, <1>3, <2>4 DEF Settled
  <2>5. ASSUME NEW k \in Memories, Settled(y, k)
        PROVE  SeenStatus(y, k) = "conflicted" <=> HasOpenConflict(y, k)
    <3>1. CASE k = m
      BY <1>8, <2>1, <2>2, <3>1 DEF m
    <3>2. CASE k # m
      BY <1>1, <1>8, <2>1, <2>2, <2>3, <2>4, <2>5, <3>2 DEF View
    <3> QED
      BY <3>1, <3>2
  <2>6. /\ y.kind = "create" <=> record[y.pair] = "none"
        /\ y.at = "mark" => y.kind # "close"
        /\ y.at \in {"check", "restore"} => y.kind = "close" /\ record[y.pair] = "open"
        /\ y.at # "restore"
    BY <1>1, <1>2, <1>8 DEF View
  <2> QED
    BY <2>5, <2>6 DEF View
<1> QED
  BY <1>2, <1>4, <1>5, <1>7, <1>8, StepsAlone DEF y

LEMMA MarkKeepsInvariant ==
    ASSUME IInv, NEW t \in Transactions, Mark(t)
    PROVE  IInv'
<1> DEFINE x == tx[t]
           m == Endpoint(x)
<1>1. x.at = "mark" /\ x # Idle /\ UNCHANGED <<record, status, scan>>
  BY DEF Mark, UpdateEndpoint, Idle
<1>2. /\ x \in TransactionType /\ (Serialized => View(x)) /\ Locks(x)
      /\ x.pair \in Pairs /\ m \in Memories /\ m \in x.pair
      /\ x.writes \in [Memories -> MemoryStatuses \cup {"none"}]
      /\ x.kind \in RequestKinds
  BY <1>1, InFlightTyped
<1>3. Serialized => x.kind # "close"
  BY <1>1, <1>2 DEF View
<1>4. Serialized => HasOpenConflict(x, m)
  BY <1>1, <1>2, <1>3 DEF HasOpenConflict, SeenRecord, Target, Locks
<1>5. PICK z : /\ Wrote(x, z, "conflicted") /\ SeenStatus(z, m) = "conflicted"
               /\ tx' = [tx EXCEPT ![t] = Advance(z, "mark")]
  <2>1. CASE SeenStatus(x, m) # "active" /\ tx' = [tx EXCEPT ![t] = Advance(x, "mark")]
    <3>1. SeenStatus(x, m) \in MemoryStatuses
      BY <1>2 DEF SeenStatus, IInv, TypeOK
    <3>2. Wrote(x, x, "conflicted")
      BY <1>2 DEF Wrote
    <3> QED
      BY <2>1, <3>1, <3>2 DEF MemoryStatuses
  <2>2. CASE tx' = [tx EXCEPT ![t] = Advance([x EXCEPT !.writes[m] = "conflicted"], "mark")]
    BY <1>2, <2>2, WroteEndpoint DEF MemoryStatuses
  <2> QED
    BY <2>1, <2>2 DEF Mark, UpdateEndpoint
<1> QED
  BY <1>1, <1>3, <1>4, <1>5, AdvanceKeepsInvariant DEF MemoryStatuses

LEMMA RestoreKeepsInvariant ==
    ASSUME IInv, NEW t \in Transactions, Restore(t)
    PROVE  IInv'
<1> DEFINE x == tx[t]
           m == Endpoint(x)
<1>1. x.at = "restore" /\ x # Idle /\ UNCHANGED <<record, status, scan>>
  BY DEF Restore, UpdateEndpoint, Idle
<1>2. /\ x \in TransactionType /\ (Serialized => View(x)) /\ m \in Memories
      /\ x.writes \in [Memories -> MemoryStatuses \cup {"none"}]
  BY <1>1, InFlightTyped
<1>3. Serialized => x.kind = "close" /\ record[x.pair] = "open" /\ ~HasOpenConflict(x, m)
  BY <1>1, <1>2 DEF View, Clear
<1>4. PICK z : /\ Wrote(x, z, "active") /\ SeenStatus(z, m) # "conflicted"
               /\ tx' = [tx EXCEPT ![t] = Advance(z, "check")]
  <2>1. CASE SeenStatus(x, m) # "conflicted" /\ tx' = [tx EXCEPT ![t] = Advance(x, "check")]
    BY <1>2, <2>1 DEF Wrote
  <2>2. CASE tx' = [tx EXCEPT ![t] = Advance([x EXCEPT !.writes[m] = "active"], "check")]
    BY <1>2, <2>2, WroteEndpoint DEF MemoryStatuses
  <2> QED
    BY <2>1, <2>2 DEF Restore, UpdateEndpoint
<1> QED
  BY <1>1, <1>3, <1>4, AdvanceKeepsInvariant DEF MemoryStatuses

LEMMA WriteRecordKeepsInvariant ==
    ASSUME IInv, NEW t \in Transactions, WriteRecord(t)
    PROVE  IInv'
<1> DEFINE x == tx[t]
           old == record[x.pair]
           branch == TriggerBranch(x.kind, old)
           y == [x EXCEPT !.wrote = TRUE, !.at = branch]
<1>1. x.at = "write_record" /\ x # Idle /\ UNCHANGED <<record, status>>
  BY DEF WriteRecord, Idle
<1>2. /\ x \in TransactionType /\ Locks(x) /\ (Serialized => View(x))
      /\ x.pair \in Pairs /\ x.pair = {First(x), Second(x)}
  BY <1>1, InFlightTyped
<1>3. /\ scan \in [Transactions -> SUBSET Pairs]
      /\ Serialized => Busy \subseteq {t}
      /\ t \in Busy
  BY <1>1 DEF IInv, TypeOK, Alone, Busy, InFlight
<1>4. CASE End(t)
  BY <1>1, <1>3, <1>4, EndKeepsInvariant
<1>5. CASE tx' = [tx EXCEPT ![t] = y] /\ UNCHANGED scan
  <2>1. /\ branch \in {"mark", "check", "commit"} /\ branch \in Steps
        /\ branch = "mark" <=> x.kind # "close"
        /\ branch = "check" <=> x.kind = "close" /\ old = "open"
    BY DEF TriggerBranch, Steps
  <2> HIDE DEF branch
  <2>2. /\ y \in TransactionType
        /\ y.wrote = TRUE /\ y.at = branch /\ y.kind = x.kind /\ y.pair = x.pair
        /\ y.side = x.side /\ y.writes = x.writes
    BY <1>2, <2>1 DEF TransactionType
  <2> HIDE DEF y
  <2>3. /\ y.side = 1 /\ \A m \in Memories : y.writes[m] = "none"
        /\ First(y) = First(x) /\ Second(y) = Second(x)
    BY <1>1, <1>2, <2>2 DEF Locks, First, Second
  <2>4. Second(y) \in Memories
    BY <1>2, <2>3, PairEndpoints DEF Second
  <2>5. Locks(y)
    BY <2>1, <2>2, <2>3, <2>4 DEF Locks
  <2>6. ASSUME Serialized PROVE View(y)
    <3>1. /\ y.kind = "create" <=> record[y.pair] = "none"
          /\ y.at = "mark" => y.kind # "close"
          /\ y.at \in {"check", "restore"} => y.kind = "close" /\ record[y.pair] = "open"
          /\ y.at # "restore"
      BY <1>2, <2>1, <2>2, <2>6 DEF View
    <3>2. ASSUME NEW m \in Memories, Settled(y, m)
          PROVE  HasOpenConflict(y, m) <=> OpenConflictOf(m)
      <4>1. CASE branch = "commit"
        <5>1. y.kind = "close" /\ record[y.pair] # "open"
          BY <2>1, <2>2, <4>1
        <5> QED
          BY <2>2, <5>1 DEF HasOpenConflict, OpenConflictOf, SeenRecord, Target
      <4>2. CASE branch # "commit"
        <5>1. m \notin y.pair
          BY <1>2, <2>2, <2>3, <3>2, <4>2 DEF Settled
        <5> QED
          BY <5>1 DEF HasOpenConflict, OpenConflictOf, SeenRecord
      <4> QED
        BY <4>1, <4>2
    <3>3. \A m \in Memories : SeenStatus(y, m) = status[m]
      BY <2>3 DEF SeenStatus
    <3>4. \A m \in Memories : status[m] = "conflicted" <=> OpenConflictOf(m)
      BY <2>6 DEF IInv, Alone
    <3> QED
      BY <3>1, <3>2, <3>3, <3>4 DEF View
  <2>7. scan' \in [Transactions -> SUBSET Pairs] /\ \A u \in Transactions : scan'[u] = scan[u]
    BY <1>3, <1>5
  <2> QED
    BY <1>1, <1>3, <1>5, <2>2, <2>5, <2>6, <2>7, StepsAlone
<1> QED
  BY <1>4, <1>5 DEF WriteRecord

LEMMA CheckKeepsInvariant ==
    ASSUME IInv, NEW t \in Transactions, Check(t)
    PROVE  IInv'
<1> DEFINE x == tx[t]
           m == Endpoint(x)
           y == [x EXCEPT !.at = "restore"]
<1>1. x.at = "check" /\ x # Idle /\ UNCHANGED <<record, status, scan>>
  BY DEF Check, Idle
<1>2. /\ x \in TransactionType /\ Locks(x) /\ (Serialized => View(x))
      /\ m \in Memories /\ x.side \in {1, 2} /\ x.pair \in Pairs
      /\ m = IF x.side = 1 THEN First(x) ELSE Second(x)
  BY <1>1, InFlightTyped
<1>3. /\ scan' \in [Transactions -> SUBSET Pairs]
      /\ \A u \in Transactions : scan'[u] = scan[u]
      /\ Serialized => Busy \subseteq {t}
  BY <1>1 DEF IInv, TypeOK, Alone, Busy, InFlight
<1>4. tx \in [Transactions -> TransactionType \cup {Idle}]
  BY DEF IInv, TypeOK
<1>5. CASE Clear(x)
  <2>1. tx' = [tx EXCEPT ![t] = y]
    BY <1>4, <1>5 DEF Check
  <2>2. /\ y \in TransactionType /\ y.at = "restore" /\ y.wrote = x.wrote /\ y.kind = x.kind
        /\ y.pair = x.pair /\ y.side = x.side /\ y.writes = x.writes
    BY <1>2 DEF TransactionType, Steps
  <2> HIDE DEF y
  <2>3. Locks(y)
    BY <1>1, <1>2, <2>2 DEF Locks, Second
  <2>4. ASSUME Serialized PROVE View(y)
    <3>1. Clear(y)
      BY <1>5, <2>2 DEF Clear, HasOpenConflict, SeenRecord, Target, Endpoint
    <3>2. \A k \in Memories : Settled(y, k) => Settled(x, k)
      BY <1>1, <2>2 DEF Settled, First, Second
    <3>3. \A k \in Memories : /\ SeenStatus(y, k) = SeenStatus(x, k)
                              /\ HasOpenConflict(y, k) <=> HasOpenConflict(x, k)
      BY <2>2 DEF SeenStatus, HasOpenConflict, SeenRecord, Target
    <3> QED
      BY <1>1, <1>2, <2>2, <2>4, <3>1, <3>2, <3>3 DEF View
  <2> QED
    BY <1>1, <1>3, <2>1, <2>2, <2>3, <2>4, StepsAlone
<1>6. CASE ~Clear(x)
  <2>1. tx' = [tx EXCEPT ![t] = Advance(x, "check")]
    BY <1>4, <1>6 DEF Check
  <2>2. Wrote(x, x, "active")
    BY <1>2 DEF Wrote
  <2>3. HasOpenConflict(x, m)
    BY <1>6 DEF Clear
  <2>4. ASSUME Serialized
        PROVE  /\ x.kind = "close" /\ record[x.pair] = "open"
               /\ SeenStatus(x, m) = "conflicted"
    <3>1. x.kind = "close" /\ record[x.pair] = "open"
      BY <1>1, <1>2, <2>4 DEF View
    <3>2. OpenConflictOf(m)
      BY <2>3, <3>1 DEF HasOpenConflict, OpenConflictOf, SeenRecord, Target
    <3>3. status[m] = "conflicted"
      BY <1>2, <2>4, <3>2 DEF IInv, Alone
    <3>4. x.writes[m] = "none"
      BY <1>1, <1>2 DEF Locks
    <3> QED
      BY <3>1, <3>3, <3>4 DEF SeenStatus
  <2> QED
    BY <1>1, <2>1, <2>2, <2>3, <2>4, AdvanceKeepsInvariant DEF MemoryStatuses
<1> QED
  BY <1>5, <1>6

LEMMA CommitKeepsInvariant ==
    ASSUME IInv, NEW t \in Transactions, Commit(t)
    PROVE  IInv'
<1> DEFINE x == tx[t]
<1>1. /\ x.at = "commit" /\ x # Idle /\ scan' = scan
      /\ record' = [record EXCEPT ![x.pair] = Target(x)]
      /\ status' = [m \in Memories |-> SeenStatus(x, m)]
      /\ tx' = [tx EXCEPT ![t] = Idle]
  BY DEF Commit, Idle
<1>2. /\ x \in TransactionType /\ Locks(x) /\ (Serialized => View(x)) /\ x.pair \in Pairs
      /\ x.writes \in [Memories -> MemoryStatuses \cup {"none"}]
  BY <1>1, InFlightTyped
<1>3. /\ record \in [Pairs -> RecordStatuses] /\ status \in [Memories -> MemoryStatuses]
      /\ tx \in [Transactions -> TransactionType \cup {Idle}]
      /\ scan \in [Transactions -> SUBSET Pairs]
  BY DEF IInv, TypeOK
<1> HIDE DEF x
<1>4. TypeOK'
  <2>1. Target(x) \in RecordStatuses
    BY DEF Target, RecordStatuses
  <2>2. \A m \in Memories : SeenStatus(x, m) \in MemoryStatuses
    BY <1>2, <1>3 DEF SeenStatus
  <2> QED
    BY <1>1, <1>2, <1>3, <2>1, <2>2 DEF TypeOK
<1>5. tx'[t] = Idle /\ \A u \in Transactions : u # t => tx'[u] = tx[u]
  BY <1>1, <1>3
<1>6. LocksInOrder'
  BY <1>5 DEF IInv, LocksInOrder, Locks, Second
<1>7. ASSUME Serialized PROVE Alone'
  <2>1. Busy = {t}
    BY <1>1, <1>7 DEF IInv, Alone, Busy, InFlight, x
  <2>2. \A u \in Transactions : tx'[u] = Idle
    BY <1>5, <2>1 DEF Busy, InFlight
  <2>3. \A u, v \in Busy' : u = v
    BY <1>1, <2>1, <2>2 DEF Busy, InFlight, Detecting
  <2>4. ASSUME NEW m \in Memories
        PROVE  status'[m] = "conflicted" <=> OpenConflictOf(m)'
    <3>1. Settled(x, m) /\ x.wrote
      BY <1>1, <1>2 DEF Settled, Locks
    <3>2. \A p \in Pairs : record'[p] = SeenRecord(x, p)
      BY <1>1, <1>2, <1>3, <3>1 DEF SeenRecord
    <3>3. OpenConflictOf(m)' <=> HasOpenConflict(x, m)
      BY <3>2 DEF OpenConflictOf, HasOpenConflict
    <3> QED
      BY <1>1, <1>2, <1>7, <3>1, <3>3 DEF View
  <2> QED
    BY <2>2, <2>3, <2>4 DEF Alone
<1> QED
  BY <1>4, <1>6, <1>7 DEF IInv

LEMMA StutterKeepsInvariant ==
    ASSUME IInv, UNCHANGED vars
    PROVE  IInv'
BY DEF IInv, vars, TypeOK, LocksInOrder, Locks, Second, First, Alone, Busy, InFlight, Detecting,
       OpenConflictOf, View, Settled, Clear, Endpoint, SeenStatus, SeenRecord, HasOpenConflict, Target

LEMMA InitInvariant == Init => IInv
<1> SUFFICES ASSUME Init PROVE IInv
  OBVIOUS
<1>1. TypeOK
  BY DEF Init, TypeOK, RecordStatuses, MemoryStatuses
<1>2. LocksInOrder
  BY DEF Init, LocksInOrder
<1>3. Alone
  BY DEF Init, Alone, Busy, InFlight, Detecting, OpenConflictOf
<1> QED
  BY <1>1, <1>2, <1>3 DEF IInv

LEMMA StepKeepsInvariant ==
    ASSUME IInv, [Next]_vars
    PROVE  IInv'
<1>1. CASE UNCHANGED vars
  BY <1>1, StutterKeepsInvariant
<1>2. CASE Next
  <2>1. PICK t \in Transactions :
           \/ \E kind \in Kinds, p \in Pairs : Begin(t, kind, p)
           \/ \E m \in Memories : Detect(t, m)
           \/ \E p \in Pairs : DetectNext(t, p)
           \/ WriteRecord(t)
           \/ Mark(t)
           \/ Check(t)
           \/ Restore(t)
           \/ Commit(t)
           \/ Rollback(t)
    BY <1>2 DEF Next
  <2>2. CASE Rollback(t)
    BY <2>2, EndKeepsInvariant DEF Rollback, Busy
  <2> QED
    BY <2>1, <2>2, BeginKeepsInvariant, DetectKeepsInvariant, DetectNextKeepsInvariant,
       WriteRecordKeepsInvariant, MarkKeepsInvariant, CheckKeepsInvariant,
       RestoreKeepsInvariant, CommitKeepsInvariant
<1> QED
  BY <1>1, <1>2

\* However requests and detections interleave, the state stays within its invariant.
THEOREM Invariance == Spec => []IInv
  BY InitInvariant, StepKeepsInvariant, PTL DEF Spec

\* The tables and the transactions in flight keep their types.
THEOREM TypeCorrect == Spec => []TypeOK
<1>1. IInv => TypeOK
  BY DEF IInv
<1> QED
  BY <1>1, Invariance, PTL

-------------------------------------------------------------------------------
(* Requests that wait for each other. *)

\* A set of memories has a last one: the later ones of a memory are fewer than those of
\* an earlier one.
LEMMA LastMemory ==
    ASSUME NEW E \in SUBSET Memories, E # {}
    PROVE  \E m \in E : \A n \in E : n <= m
<1> DEFINE Later(m) == {k \in Memories : m < k}
           L == {Later(m) : m \in E}
<1>1. IsWellFoundedOn(StrictSubsetOrdering(Memories), FiniteSubsetsOf(Memories))
  BY FS_StrictSubsetOrderingWellFounded
<1>2. FiniteSubsetsOf(Memories) = SUBSET Memories
  BY FS_FiniteSubsetsOfFinite, MemoriesAssumption
<1>3. L \subseteq SUBSET Memories /\ L # {}
  OBVIOUS
<1>4. \E x \in L : \A y \in L : ~ (<<y, x>> \in StrictSubsetOrdering(Memories))
  <2> HIDE DEF L
  <2> QED
    BY <1>1, <1>2, <1>3, WFMin
<1>5. PICK m \in E : \A n \in E : ~ (<<Later(n), Later(m)>> \in StrictSubsetOrdering(Memories))
  BY <1>4
<1>6. ASSUME NEW n \in E, ~(n <= m)
      PROVE  FALSE
  <2>1. m \in Nat /\ n \in Nat /\ m < n
    BY <1>6, MemoriesAssumption
  <2>2. \A k \in Memories : k \in Nat
    BY MemoriesAssumption
  <2>3. Later(n) \subseteq Later(m)
    <3>1. \A k \in Nat : n < k => m < k
      BY <2>1
    <3> QED
      BY <2>2, <3>1
  <2>4. n \in Later(m) /\ n \notin Later(n)
    BY <2>1
  <2>5. <<Later(n), Later(m)>> \in StrictSubsetOrdering(Memories)
    <3>1. Later(n) \in SUBSET Memories /\ Later(m) \in SUBSET Memories /\ Later(n) # Later(m)
      BY <2>4
    <3> HIDE DEF Later
    <3> QED
      BY <2>3, <3>1 DEF StrictSubsetOrdering
  <2> QED
    BY <1>5, <2>5
<1> QED
  BY <1>6

\* Who is waited for has written its record, and who waits with its record written
\* waits for an endpoint that is the first one of the other.
LEMMA WaitingIsOrdered ==
    ASSUME IInv, NEW t \in Transactions, NEW u \in Transactions, WaitsFor(t, u)
    PROVE  /\ tx[u] # Idle /\ tx[u].at # "write_record"
           /\ Endpoint(tx[t]) \in Memories
           /\ tx[t].at # "write_record" /\ tx[u].at # "commit" =>
                 Endpoint(tx[t]) < Endpoint(tx[u])
<1>1. tx[t] # Idle /\ tx[u] # Idle
  BY DEF WaitsFor, RecordHolders, MemoryHolders, InFlight
<1>2. /\ Locks(tx[u]) /\ tx[u].side \in {1, 2}
      /\ Endpoint(tx[u]) = IF tx[u].side = 1 THEN First(tx[u]) ELSE Second(tx[u])
      /\ First(tx[u]) < Second(tx[u])
      /\ tx[u].pair = {First(tx[u]), Second(tx[u])}
      /\ Endpoint(tx[t]) \in Memories
  BY <1>1, InFlightTyped
<1>3. tx[t].at # "write_record" => tx[u].writes[Endpoint(tx[t])] # "none"
  BY DEF WaitsFor, MemoryHolders
<1>4. tx[u].wrote \/ tx[u].writes[Endpoint(tx[t])] # "none"
  BY DEF WaitsFor, RecordHolders, MemoryHolders
<1>5. tx[u].at # "write_record"
  BY <1>2, <1>4 DEF Locks
<1>6. ASSUME tx[t].at # "write_record", tx[u].at # "commit"
      PROVE  Endpoint(tx[t]) < Endpoint(tx[u])
  <2>1. Endpoint(tx[t]) = First(tx[u]) /\ tx[u].side # 1
    BY <1>2, <1>3, <1>6 DEF Locks
  <2> QED
    BY <1>2, <2>1
<1> QED
  BY <1>1, <1>2, <1>5, <1>6

LEMMA NoCycle ==
    ASSUME IInv
    PROVE  NoWaitCycle
<1> SUFFICES ASSUME NEW S \in SUBSET Transactions, S # {},
                    \A t \in S : \E u \in S : WaitsFor(t, u)
             PROVE  FALSE
  BY DEF NoWaitCycle
<1> DEFINE T == {t \in S : tx[t].at # "write_record"}
           E == {Endpoint(tx[t]) : t \in T}
<1>1. T # {}
  BY WaitingIsOrdered
<1>2. E \in SUBSET Memories /\ E # {}
  BY <1>1, WaitingIsOrdered
<1>3. PICK m \in E : \A n \in E : n <= m
  <2> HIDE DEF E
  <2> QED
    BY <1>2, LastMemory
<1>4. PICK t \in T : m = Endpoint(tx[t])
  BY <1>3
<1>5. PICK u \in S : WaitsFor(t, u)
  BY <1>4
<1>6. PICK v \in S : WaitsFor(u, v)
  BY <1>5
<1>7. tx[u].at # "commit"
  BY <1>6 DEF WaitsFor
<1>8. u \in T /\ Endpoint(tx[t]) < Endpoint(tx[u])
  BY <1>4, <1>5, <1>7, WaitingIsOrdered
<1>9. Endpoint(tx[u]) \in E /\ Endpoint(tx[u]) \in Nat /\ m \in Nat
  BY <1>2, <1>8, MemoriesAssumption
<1> QED
  BY <1>3, <1>4, <1>8, <1>9

\* Requests and detections over any pairs of memories never wait for each other in a
\* cycle: each takes its record first and then its two memories in the order of the ids
\* (fn_conflict_after_insert and fn_conflict_after_update).
THEOREM NoDeadlock == Spec => []NoWaitCycle
<1>1. IInv => NoWaitCycle
  BY NoCycle
<1> QED
  BY <1>1, Invariance, PTL

-------------------------------------------------------------------------------
(* Requests that do not overlap. *)

\* Requests and detections that never overlap leave no memory conflicted without an open
\* conflict (fn_conflict_restore_memory_if_clear).
THEOREM AloneRestores == Serialized => (Spec => []RestoredWhenClear)
<1> SUFFICES ASSUME Serialized PROVE Spec => []RestoredWhenClear
  OBVIOUS
<1>1. IInv => RestoredWhenClear
  BY DEF IInv, Alone, RestoredWhenClear
<1> QED
  BY <1>1, Invariance, PTL

\* Nor do they leave one active while a conflict of it is open
\* (fn_conflict_mark_memory_conflicted).
THEOREM AloneMarks == Serialized => (Spec => []MarkedWhileOpen)
<1> SUFFICES ASSUME Serialized PROVE Spec => []MarkedWhileOpen
  OBVIOUS
<1>1. IInv => MarkedWhileOpen
  BY DEF IInv, Alone, MarkedWhileOpen
<1> QED
  BY <1>1, Invariance, PTL

\* The COMMIT of a transaction that ran alone is one step of the abstract specification.
LEMMA CommitImplements ==
    ASSUME IInv, Serialized, NEW t \in Transactions, Commit(t)
    PROVE  Abstract!Next
<1> DEFINE x == tx[t]
           p == x.pair
<1>1. /\ x.at = "commit" /\ x # Idle
      /\ record' = [record EXCEPT ![p] = Target(x)]
      /\ status' = [m \in Memories |-> SeenStatus(x, m)]
  BY DEF Commit, Idle
<1>2. /\ x \in TransactionType /\ Locks(x) /\ View(x) /\ p \in Pairs
      /\ x.writes \in [Memories -> MemoryStatuses \cup {"none"}]
  BY <1>1, InFlightTyped
<1>3. /\ record \in [Pairs -> RecordStatuses] /\ status \in [Memories -> MemoryStatuses]
      /\ \A m \in Memories : status[m] = "conflicted" <=> OpenConflictOf(m)
  BY DEF IInv, TypeOK, Alone
<1> HIDE DEF x
<1>4. /\ \A m \in Memories : SeenStatus(x, m) \in MemoryStatuses
      /\ \A m \in Memories : SeenStatus(x, m) = "conflicted" <=> HasOpenConflict(x, m)
      /\ \A m \in Memories : m \notin p => SeenStatus(x, m) = status[m]
      /\ \A q \in Pairs : record'[q] = SeenRecord(x, q)
  <2>1. \A m \in Memories : Settled(x, m)
    BY <1>1 DEF Settled
  <2>2. \A m \in Memories : SeenStatus(x, m) \in MemoryStatuses
    BY <1>2, <1>3 DEF SeenStatus
  <2>3. \A m \in Memories : m \notin p => SeenStatus(x, m) = status[m]
    BY <1>2 DEF Locks, SeenStatus
  <2>4. \A q \in Pairs : record'[q] = SeenRecord(x, q)
    BY <1>1, <1>2, <1>3 DEF SeenRecord, Locks
  <2> QED
    BY <1>1, <1>2, <2>1, <2>2, <2>3, <2>4 DEF View
<1>5. CASE x.kind # "close"
  <2>1. Target(x) = "open"
    BY <1>5 DEF Target
  <2>2. ASSUME NEW m \in Memories
        PROVE  SeenStatus(x, m) = IF m \in p THEN "conflicted" ELSE status[m]
    <3>1. m \in p => HasOpenConflict(x, m)
      BY <1>1, <1>2, <2>1 DEF HasOpenConflict, SeenRecord, Locks
    <3> QED
      BY <1>4, <3>1
  <2>3. Abstract!OpenConflict(p)
    BY <1>1, <2>1, <2>2 DEF Abstract!OpenConflict
  <2> QED
    BY <1>2, <2>3 DEF Abstract!Next
<1>6. CASE x.kind = "close"
  <2>1. Target(x) = "closed" /\ record[p] # "none"
    BY <1>2, <1>6 DEF Target, View
  <2>2. ASSUME NEW m \in Memories
        PROVE  HasOpenConflict(x, m) <=> Abstract!Held(m, record')
    BY <1>4 DEF HasOpenConflict, Abstract!Held
  <2>3. ASSUME NEW m \in Memories
        PROVE  SeenStatus(x, m) =
                  IF record[p] = "open" /\ m \in p /\ ~Abstract!Held(m, record') THEN "active"
                                                                               ELSE status[m]
    <3>1. CASE m \notin p
      BY <1>4, <3>1
    <3>2. CASE m \in p /\ ~HasOpenConflict(x, m)
      <4>1. SeenStatus(x, m) = "active"
        BY <1>4, <3>2 DEF MemoryStatuses
      <4>2. record[p] # "open" => ~OpenConflictOf(m)
        BY <2>1, <3>2 DEF OpenConflictOf, HasOpenConflict, SeenRecord
      <4>3. record[p] # "open" => status[m] = "active"
        BY <1>3, <4>2 DEF MemoryStatuses
      <4> QED
        BY <2>2, <3>2, <4>1, <4>3
    <3>3. CASE m \in p /\ HasOpenConflict(x, m)
      <4>1. OpenConflictOf(m)
        BY <2>1, <3>3 DEF OpenConflictOf, HasOpenConflict, SeenRecord
      <4> QED
        BY <1>3, <1>4, <2>2, <3>3, <4>1
    <3> QED
      BY <3>1, <3>2, <3>3
  <2>4. Abstract!CloseConflict(p)
    BY <1>1, <2>1, <2>3 DEF Abstract!CloseConflict
  <2> QED
    BY <1>2, <2>4 DEF Abstract!Next
<1> QED
  BY <1>5, <1>6

LEMMA StepImplements ==
    ASSUME IInv, Serialized, [Next]_vars
    PROVE  [Abstract!Next]_<<record, status>>
<1>1. CASE \E t \in Transactions : Commit(t)
  BY <1>1, CommitImplements
<1>2. CASE UNCHANGED <<record, status>>
  BY <1>2
<1> QED
  BY <1>1, <1>2 DEF Next, vars, Begin, Detect, DetectNext, WriteRecord, Mark, Restore,
     UpdateEndpoint, Check, Rollback

\* One at a time, the statements of create_conflict, update_conflict and their triggers
\* amount to the atomic steps of the abstract specification.
THEOREM AloneImplements == Serialized => (Spec => ImplementsConflictRecords)
<1> SUFFICES ASSUME Serialized PROVE Spec => ImplementsConflictRecords
  OBVIOUS
<1>1. Init => Abstract!Init
  BY DEF Init, Abstract!Init
<1>2. IInv /\ [Next]_vars => [Abstract!Next]_<<record, status>>
  BY StepImplements
<1> QED
  BY <1>1, <1>2, Invariance, PTL DEF Spec, ImplementsConflictRecords, Abstract!Spec
===============================================================================
