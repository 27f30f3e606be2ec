----------------------------- MODULE EngineProofs -----------------------------
(***************************************************************************)
(* Proofs about RequestEngine.  For any number of calls, of any methods    *)
(* and credentials, any batch_size and any number of workers, gather       *)
(* returns results in their places, an envelope serves one scope and no    *)
(* request outlives its executor (BatchExecution).  For any number of      *)
(* operations and of calls of close, no operation starts unseen by a       *)
(* close, and the transport closes under nobody but an operation that      *)
(* outlasted the clean-up budget (EngineLifecycle).                        *)
(***************************************************************************)
EXTENDS BatchExecution, EngineLifecycle, FiniteSetTheorems, TLAPS

-----------------------------------------------------------------------------
(* The invariant of gather.                                                *)

Stages == {"start", "prepare", "send"} \cup Ended

\* An error about a request of e that carried i, kept in its place.
Kept(e, i, what) ==
    /\ keep /\ fate[i] = "failed"
    /\ \E S \in SUBSET Owned(e) :
          /\ what = Error(S) /\ i \in S
          /\ \A j \in S : calls[j].key = calls[i].key /\ fate[j] = "failed"

Settled(e, i, what) == (fate[i] = "answered" /\ what = Value(i)) \/ Kept(e, i, what)

Carried(e, i) == \E p \in 1 .. Len(prepared[e]) : i \in ToSet(prepared[e][p])

\* Requests of at most batchSize calls of one key, which share every call out once.
SharedOut(asked, admitted, size, requests) ==
    /\ requests \in Seq(Seq(admitted))
    /\ \A p \in DOMAIN requests :
          /\ Len(requests[p]) \in 1 .. size
          /\ \A i, j \in ToSet(requests[p]) : asked[i].key = asked[j].key
    /\ \A p, q \in DOMAIN requests : p # q => ToSet(requests[p]) \cap ToSet(requests[q]) = {}
    /\ \A i \in admitted : \E p \in DOMAIN requests : i \in ToSet(requests[p])

Proper(e, requests) == SharedOut(calls, Admitted(e), batchSize, requests)

\* What came of a request is what became of its calls outside.
Matches(request, what) ==
    \/ what \in {Unsent, Sent} /\ \A k \in DOMAIN request : fate[request[k]] = "none"
    \/ what = Unusable /\ \A k \in DOMAIN request : fate[request[k]] = "failed"
    \/ /\ what = Items(what[2])
       /\ \A k \in DOMAIN request :
             \/ what[2][k] = Value(request[k]) /\ fate[request[k]] = "answered"
             \/ what[2][k] = Error({request[k]}) /\ fate[request[k]] = "failed"

Typed ==
    /\ Len(calls) \in Nat /\ \A i \in Calls : calls[i].via \in Executors
    /\ batchSize \in Nat \ {0} /\ keep \in BOOLEAN
    /\ stage \in [Executors -> Stages] /\ seen \in [Executors -> Nat]
    /\ DOMAIN batches = Executors /\ DOMAIN prepared = Executors
    /\ DOMAIN outcomes = Executors /\ DOMAIN found = Executors
    /\ gather \in {"running", "returned", "raised", "cancelled"}

\* Nothing is known of call i yet.
Waits(e, i) == found[e][i] = Missing /\ fate[i] = "none"

Preparing(e) ==
    /\ seen[e] \in 0 .. Len(batches[e])
    /\ outcomes[e] \in Seq({Unsent})
    /\ \A p \in 1 .. Len(prepared[e]) :
          /\ \E x \in 1 .. seen[e] : prepared[e][p] = batches[e][x]
          /\ \A i \in ToSet(prepared[e][p]) : Waits(e, i)
    /\ \A x \in seen[e] + 1 .. Len(batches[e]) : \A i \in ToSet(batches[e][x]) : Waits(e, i)
    /\ \A i \in Owned(e) :
          \/ Kept(e, i, found[e][i])
          \/ Carried(e, i)
          \/ \E x \in seen[e] + 1 .. Len(batches[e]) : i \in ToSet(batches[e][x])

Sending(e) ==
    /\ \A p \in 1 .. Len(prepared[e]) :
          /\ \E x \in DOMAIN batches[e] : prepared[e][p] = batches[e][x]
          /\ Matches(prepared[e][p], outcomes[e][p])
    /\ \A i \in Owned(e) : Kept(e, i, found[e][i]) \/ (found[e][i] = Missing /\ Carried(e, i))
    /\ Cardinality(Positions(e, Sent)) <= MaxConcurrency

ExecutorInv(e) ==
    /\ \A i \in Calls \ Owned(e) : found[e][i] = Missing
    /\ prepared[e] \in Seq(Seq(Admitted(e))) /\ DOMAIN outcomes[e] = 1 .. Len(prepared[e])
    /\ \A p, q \in 1 .. Len(prepared[e]) :
          p # q => ToSet(prepared[e][p]) \cap ToSet(prepared[e][q]) = {}
    /\ stage[e] = "start" =>
          /\ seen[e] = 0 /\ prepared[e] = <<>> /\ outcomes[e] = <<>>
          /\ \A i \in Owned(e) : found[e][i] = Missing /\ fate[i] = "none"
    /\ stage[e] \in {"prepare", "send"} => Proper(e, batches[e])
    /\ stage[e] = "prepare" => Preparing(e)
    /\ stage[e] = "send" => Sending(e)
    /\ stage[e] \in Ended => Positions(e, Sent) = {}
    /\ stage[e] = "done" => \A i \in Owned(e) : Settled(e, i, results[i])
    /\ stage[e] = "failed" => ~keep /\ \E i \in Owned(e) : fate[i] = "failed"
    /\ stage[e] = "cancelled" =>
          gather = "cancelled" \/ \E other \in Executors : stage[other] = "failed"

GatherInv ==
    /\ gather = "returned" => \A e \in Executors : stage[e] = "done"
    /\ gather = "raised" =>
          /\ \A e \in Executors : stage[e] \in Ended
          /\ \E e \in Executors : stage[e] # "done"

BatchInv == Typed /\ GatherInv /\ \A e \in Executors : ExecutorInv(e)

-----------------------------------------------------------------------------
(* Sets put in an order.                                                   *)

\* What below has to be for InTurn: the members before each, in a total order.
Ordering(S, below) ==
    /\ IsFiniteSet(S) /\ below \in [S -> SUBSET S]
    /\ \A i \in S : i \notin below[i]
    /\ \A i, j \in S : i # j => i \in below[j] \/ j \in below[i]
    /\ \A i, j \in S : i \in below[j] => below[i] \subseteq below[j]

\* Members have ranks of their own, from 0 to the size of the set.
LEMMA RanksDiffer ==
    ASSUME NEW S, NEW below, Ordering(S, below)
    PROVE  /\ Cardinality(S) \in Nat
           /\ \A i \in S : /\ IsFiniteSet(below[i])
                           /\ Cardinality(below[i]) \in 0 .. Cardinality(S) - 1
           /\ \A i, j \in S : i \in below[j] => Cardinality(below[i]) < Cardinality(below[j])
           /\ \A i, j \in S : Cardinality(below[i]) = Cardinality(below[j]) => i = j
<1>1. /\ IsFiniteSet(S) /\ Cardinality(S) \in Nat
      /\ \A i \in S : below[i] \in SUBSET S /\ i \notin below[i]
      /\ \A i, j \in S : i # j => i \in below[j] \/ j \in below[i]
      /\ \A i, j \in S : i \in below[j] => below[i] \subseteq below[j]
  BY FS_CardinalityType DEF Ordering
<1>2. ASSUME NEW i \in S
      PROVE  IsFiniteSet(below[i]) /\ Cardinality(below[i]) \in 0 .. Cardinality(S) - 1
  <2>1. IsFiniteSet(S \ {i}) /\ Cardinality(S \ {i}) = Cardinality(S) - 1
    BY <1>1, FS_RemoveElement
  <2>2. below[i] \in SUBSET (S \ {i})
    BY <1>1
  <2>3. IsFiniteSet(below[i]) /\ Cardinality(below[i]) <= Cardinality(S) - 1
    BY <2>1, <2>2, FS_Subset
  <2> QED BY <1>1, <2>3, FS_CardinalityType
<1>3. ASSUME NEW i \in S, NEW j \in S, i \in below[j]
      PROVE  Cardinality(below[i]) < Cardinality(below[j])
  <2>1. below[i] \in SUBSET below[j] /\ below[i] # below[j]
    BY <1>1, <1>3
  <2>2. /\ Cardinality(below[i]) <= Cardinality(below[j])
        /\ Cardinality(below[i]) # Cardinality(below[j])
    BY <1>2, <2>1, FS_Subset
  <2>3. Cardinality(below[i]) \in Int /\ Cardinality(below[j]) \in Int
    BY <1>2
  <2> QED BY <2>2, <2>3
<1>4. ASSUME NEW i \in S, NEW j \in S, i # j
      PROVE  Cardinality(below[i]) # Cardinality(below[j])
  <2>1. Cardinality(below[i]) \in Int /\ Cardinality(below[j]) \in Int
    BY <1>2
  <2>2. Cardinality(below[i]) < Cardinality(below[j]) \/ Cardinality(below[j]) < Cardinality(below[i])
    BY <1>1, <1>3, <1>4
  <2> QED BY <2>1, <2>2
<1> QED BY <1>1, <1>2, <1>3, <1>4

\* InTurn visits every member once.
LEMMA InTurnVisits ==
    ASSUME NEW S, NEW below, Ordering(S, below)
    PROVE  LET visit == InTurn(S, below) IN
           /\ visit \in [1 .. Cardinality(S) -> S]
           /\ \A k \in 1 .. Cardinality(S) : Cardinality(below[visit[k]]) = k - 1
           /\ \A k, l \in 1 .. Cardinality(S) : visit[k] = visit[l] => k = l
           /\ \A i \in S : \E k \in 1 .. Cardinality(S) : visit[k] = i
<1> DEFINE m == Cardinality(S)
           rank == [i \in S |-> Cardinality(below[i]) + 1]
           visit == InTurn(S, below)
<1>1. /\ IsFiniteSet(S) /\ m \in Nat
      /\ \A i \in S : Cardinality(below[i]) \in 0 .. m - 1
      /\ \A i, j \in S : Cardinality(below[i]) = Cardinality(below[j]) => i = j
  BY RanksDiffer DEF Ordering
<1>2. IsFiniteSet(1 .. m) /\ Cardinality(1 .. m) = m
  BY <1>1, FS_Interval
<1> HIDE DEF m
<1>3. rank \in [S -> 1 .. m]
  <2>1. ASSUME NEW i \in S PROVE Cardinality(below[i]) + 1 \in 1 .. m
    BY <1>1
  <2> QED BY <2>1
<1>4. rank \in Injection(S, 1 .. m)
  <2>1. ASSUME NEW i \in S, NEW j \in S, rank[i] = rank[j] PROVE i = j
    BY <1>1, <2>1
  <2> QED BY <1>3, <2>1, Zenon DEF Injection, IsInjective
<1>5. rank \in Surjection(S, 1 .. m)
  BY <1>1, <1>2, <1>4, FS_Injection DEF m
<1>6. ASSUME NEW k \in 1 .. m PROVE \E i \in S : Cardinality(below[i]) = k - 1
  <2>1. PICK i \in S : rank[i] = k
    BY <1>5 DEF Surjection
  <2> QED BY <1>1, <2>1
<1>7. visit = [k \in 1 .. m |-> CHOOSE i \in S : Cardinality(below[i]) = k - 1]
  BY DEF InTurn, m
<1>8. ASSUME NEW k \in 1 .. m PROVE visit[k] \in S /\ Cardinality(below[visit[k]]) = k - 1
  <2>1. visit[k] = CHOOSE i \in S : Cardinality(below[i]) = k - 1
    BY <1>7
  <2> QED BY <1>6, <2>1, Zenon
<1> HIDE DEF visit
<1>9. visit \in [1 .. m -> S]
  BY <1>7, <1>8, Zenon
<1>10. ASSUME NEW k \in 1 .. m, NEW l \in 1 .. m, visit[k] = visit[l] PROVE k = l
  <2>1. k - 1 = l - 1
    BY <1>8, <1>10, Zenon
  <2> QED BY <1>1, <2>1
<1>11. ASSUME NEW i \in S PROVE \E k \in 1 .. m : visit[k] = i
  <2>1. Cardinality(below[i]) + 1 \in 1 .. m
    BY <1>1
  <2>2. Cardinality(below[visit[Cardinality(below[i]) + 1]]) = Cardinality(below[i])
    BY <1>1, <1>8, <2>1
  <2> QED BY <1>1, <1>8, <2>1, <2>2, Zenon
<1> QED BY <1>8, <1>9, <1>10, <1>11 DEF visit, m

\* Numbers are in their order.
LEMMA EarlierOrders ==
    ASSUME NEW n \in Nat, NEW S \in SUBSET (1 .. n)
    PROVE  Ordering(S, Earlier(S))
<1>1. IsFiniteSet(S)
  <2>1. IsFiniteSet(1 .. n)
    BY FS_Interval
  <2> QED BY <2>1, FS_Subset
<1>2. \A i, j \in S : /\ i \in Int /\ j \in Int
                      /\ j \in Earlier(S)[i] <=> j < i
  BY DEF Earlier
<1>3. Earlier(S) \in [S -> SUBSET S]
  BY DEF Earlier
<1>4. \A i \in S : i \notin Earlier(S)[i]
  BY <1>2
<1>5. \A i, j \in S : i # j => i \in Earlier(S)[j] \/ j \in Earlier(S)[i]
  BY <1>2
<1>6. ASSUME NEW i \in S, NEW j \in S, i \in Earlier(S)[j], NEW k \in Earlier(S)[i]
      PROVE  k \in Earlier(S)[j]
  <2>1. k \in S
    BY <1>3, <1>6
  <2>2. i \in Int /\ j \in Int /\ k \in Int /\ k < i /\ i < j
    BY <1>2, <1>6, <2>1
  <2>3. k < j
    BY <2>2
  <2> QED BY <1>2, <2>1, <2>3
<1> QED BY <1>1, <1>3, <1>4, <1>5, <1>6 DEF Ordering

\* A set of numbers that is not empty has a least one.
LEMMA LeastExists ==
    ASSUME NEW n \in Nat, NEW S \in SUBSET (1 .. n), S # {}
    PROVE  Min(S) \in S /\ \A i \in S : Min(S) <= i
<1> DEFINE below == Earlier(S)
           visit == InTurn(S, below)
<1>1. Ordering(S, below)
  BY EarlierOrders
<1>2. /\ Cardinality(S) \in Nat
      /\ \A i \in S : IsFiniteSet(below[i])
  BY <1>1, RanksDiffer
<1>3. Cardinality(S) # 0
  BY <1>1, FS_EmptySet DEF Ordering
<1>4. 1 \in 1 .. Cardinality(S)
  BY <1>2, <1>3
<1>5. visit[1] \in S /\ Cardinality(below[visit[1]]) = 0
  <2>1. visit \in [1 .. Cardinality(S) -> S]
    BY <1>1, InTurnVisits
  <2>2. \A k \in 1 .. Cardinality(S) : Cardinality(below[visit[k]]) = k - 1
    BY <1>1, InTurnVisits
  <2> HIDE DEF visit, below
  <2> QED BY <1>4, <2>1, <2>2
<1>6. PICK i \in S : Cardinality(below[i]) = 0
  <2> HIDE DEF visit, below
  <2> QED BY <1>5, Zenon
<1>7. below[i] = {}
  BY <1>2, <1>6, FS_EmptySet
<1>8. \A j \in S : i <= j
  <2>1. \A j \in S : ~ (j < i)
    BY <1>7 DEF Earlier
  <2>2. \A j \in S : j \in Int /\ i \in Int
    OBVIOUS
  <2> HIDE DEF below
  <2> QED BY <2>1, <2>2
<1> QED BY <1>8, Zenon DEF Min

-----------------------------------------------------------------------------
(* Multiples of b.                                                         *)

LEMMA DivisionLeaves ==
    ASSUME NEW b \in Nat \ {0}, NEW r \in Nat
    PROVE  /\ r = b * (r \div b) + (r % b)
           /\ r \div b \in Nat /\ r % b \in 0 .. b - 1
  BY SMT

\* Multiples are at least b apart.
LEMMA StepsOfProducts ==
    ASSUME NEW x \in Nat, NEW y \in Nat, NEW b \in Nat, x < y
    PROVE  b * x + b <= b * y
<1>1. PICK d \in Nat : y = x + 1 + d
  <2>1. y - x - 1 \in Nat /\ y = x + 1 + (y - x - 1)
    OBVIOUS
  <2> QED BY <2>1
<1>2. b * y = b * x + b + b * d
  BY <1>1
<1>3. b * d >= 0 /\ b * x \in Int /\ b * y \in Int /\ b * d \in Int
  OBVIOUS
<1> QED BY <1>2, <1>3

LEMMA MultiplesApart ==
    ASSUME NEW b \in Nat \ {0}, NEW s \in Nat, NEW t \in Nat,
           s % b = 0, t % b = 0, s < t + b, t < s + b
    PROVE  s = t
<1>1. s = b * (s \div b) + (s % b) /\ s \div b \in Nat
  BY DivisionLeaves
<1>2. t = b * (t \div b) + (t % b) /\ t \div b \in Nat
  BY DivisionLeaves
<1>3. CASE s \div b < t \div b
  BY <1>1, <1>2, <1>3, StepsOfProducts
<1>4. CASE t \div b < s \div b
  BY <1>1, <1>2, <1>4, StepsOfProducts
<1> QED BY <1>1, <1>2, <1>3, <1>4

\* The last multiple up to r.
LEMMA MultipleBelow ==
    ASSUME NEW b \in Nat \ {0}, NEW r \in Nat
    PROVE  \E s \in 0 .. r : s % b = 0 /\ r < s + b
<1> DEFINE s == r - (r % b)
<1>1. r = b * (r \div b) + (r % b) /\ r \div b \in Nat /\ r % b \in 0 .. b - 1
  BY DivisionLeaves
<1>2. s \in Nat /\ s = b * (r \div b)
  BY <1>1
<1>3. s \in 0 .. r /\ r < s + b
  BY <1>1
<1> HIDE DEF s
<1>4. s = b * (s \div b) + (s % b) /\ s \div b \in Nat /\ s % b \in 0 .. b - 1
  BY <1>2, DivisionLeaves
<1>5. CASE s \div b < r \div b
  BY <1>1, <1>2, <1>4, <1>5, StepsOfProducts
<1>6. CASE r \div b < s \div b
  BY <1>1, <1>2, <1>4, <1>6, StepsOfProducts
<1>7. s % b = 0
  BY <1>1, <1>2, <1>4, <1>5, <1>6
<1> QED BY <1>3, <1>7

-----------------------------------------------------------------------------
(* How the calls of an executor are shared out to requests.                *)

LEMMA GroupMembers ==
    ASSUME NEW e, NEW i \in Admitted(e)
    PROVE  /\ Group(e, i) \subseteq Admitted(e) /\ i \in Group(e, i)
           /\ Admitted(e) \subseteq 1 .. Len(calls)
           /\ \A j \in Group(e, i) : Group(e, j) = Group(e, i) /\ calls[j].key = calls[i].key
<1>1. Admitted(e) \subseteq 1 .. Len(calls)
  BY DEF Admitted, Owned, Calls
<1>2. CASE e = "http"
  BY <1>1, <1>2 DEF Group
<1>3. CASE e # "http"
  BY <1>1, <1>3 DEF Group
<1> QED BY <1>2, <1>3

\* The members of a group have the places from 0, each one of its own.
LEMMA PlacesInGroup ==
    ASSUME Len(calls) \in Nat, NEW e, NEW i \in Admitted(e)
    PROVE  LET members == Group(e, i) IN
           /\ IsFiniteSet(members) /\ Cardinality(members) \in Nat
           /\ \A j \in members : Place(e, j) \in 0 .. Cardinality(members) - 1
           /\ \A j, k \in members : Place(e, j) = Place(e, k) => j = k
           /\ \A p \in 0 .. Cardinality(members) - 1 : \E j \in members : Place(e, j) = p
<1> DEFINE members == Group(e, i)
           below == Earlier(members)
           m == Cardinality(members)
           visit == InTurn(members, below)
<1>1. members \in SUBSET (1 .. Len(calls))
  BY GroupMembers
<1>2. \A j \in members : Place(e, j) = Cardinality(below[j])
  BY GroupMembers DEF Place
<1>3. Ordering(members, below)
  BY <1>1, EarlierOrders
<1>4. /\ m \in Nat
      /\ \A j \in members : Cardinality(below[j]) \in 0 .. m - 1
      /\ \A j, k \in members : Cardinality(below[j]) = Cardinality(below[k]) => j = k
  BY <1>3, RanksDiffer
<1>5. /\ visit \in [1 .. m -> members]
      /\ \A k \in 1 .. m : Cardinality(below[visit[k]]) = k - 1
  BY <1>3, InTurnVisits
<1>6. IsFiniteSet(members)
  BY <1>3 DEF Ordering
<1> HIDE DEF members, below, m, visit
<1>7. ASSUME NEW p \in 0 .. m - 1 PROVE \E j \in members : Place(e, j) = p
  <2>1. p + 1 \in 1 .. m /\ p + 1 - 1 = p
    BY <1>4
  <2>2. visit[p + 1] \in members /\ Cardinality(below[visit[p + 1]]) = p
    BY <1>5, <2>1
  <2> QED BY <1>2, <2>2, Zenon
<1>8. \A j \in members : Place(e, j) \in 0 .. m - 1
  BY <1>2, <1>4
<1>9. \A j, k \in members : Place(e, j) = Place(e, k) => j = k
  BY <1>2, <1>4
<1> QED BY <1>4, <1>6, <1>7, <1>8, <1>9, Zenon DEF members, m

\* Chunks hold at most batchSize calls of one group, and each call is in one chunk.
LEMMA ChunksShareOut ==
    ASSUME Len(calls) \in Nat, batchSize \in Nat \ {0}, NEW e
    PROVE  /\ \A h \in Heads(e) : /\ Chunk(e, h) \in SUBSET Group(e, h)
                                  /\ Cardinality(Chunk(e, h)) \in 1 .. batchSize
           /\ \A i \in Admitted(e) : \E h \in Heads(e) : i \in Chunk(e, h)
           /\ \A g, h \in Heads(e) : Chunk(e, g) \cap Chunk(e, h) # {} => g = h
<1>1. \A h \in Heads(e) : h \in Admitted(e) /\ Place(e, h) % batchSize = 0
  BY DEF Heads
<1>2. ASSUME NEW h \in Heads(e)
      PROVE  Chunk(e, h) \in SUBSET Group(e, h) /\ Cardinality(Chunk(e, h)) \in 1 .. batchSize
  <2> DEFINE chunk == Chunk(e, h)
             from == Place(e, h)
             upTo == from + batchSize - 1
             place == [j \in chunk |-> Place(e, j)]
  <2>1. /\ IsFiniteSet(Group(e, h)) /\ h \in Group(e, h)
        /\ \A j \in Group(e, h) : Place(e, j) \in Nat
        /\ \A j, k \in Group(e, h) : Place(e, j) = Place(e, k) => j = k
    BY <1>1, GroupMembers, PlacesInGroup
  <2>2. from \in Nat /\ upTo \in Int /\ from \in from .. upTo
    BY <2>1
  <2>3. /\ chunk \in SUBSET Group(e, h) /\ h \in chunk
        /\ \A j \in chunk : Place(e, j) \in from .. upTo
    BY <2>1, <2>2 DEF Chunk
  <2>4. IsFiniteSet(from .. upTo) /\ Cardinality(from .. upTo) = batchSize
    BY <2>2, FS_Interval
  <2> HIDE DEF chunk, from, upTo
  <2>5. place \in Injection(chunk, from .. upTo)
    <3>1. place \in [chunk -> from .. upTo]
      BY <2>3
    <3>2. \A j, k \in chunk : place[j] = place[k] => j = k
      BY <2>1, <2>3
    <3> QED BY <3>1, <3>2, Zenon DEF Injection, IsInjective
  <2>6. IsFiniteSet(chunk) /\ Cardinality(chunk) <= batchSize
    BY <2>4, <2>5, FS_Injection
  <2>7. Cardinality(chunk) \in Nat /\ Cardinality(chunk) # 0
    BY <2>3, <2>6, FS_CardinalityType, FS_EmptySet
  <2> QED BY <2>3, <2>6, <2>7 DEF chunk
<1>3. ASSUME NEW i \in Admitted(e) PROVE \E h \in Heads(e) : i \in Chunk(e, h)
  <2> DEFINE n == Cardinality(Group(e, i))
  <2>1. /\ n \in Nat /\ i \in Group(e, i) /\ Group(e, i) \subseteq Admitted(e)
        /\ Place(e, i) \in 0 .. n - 1
        /\ \A p \in 0 .. n - 1 : \E j \in Group(e, i) : Place(e, j) = p
    BY GroupMembers, PlacesInGroup
  <2> HIDE DEF n
  <2>2. PICK s \in 0 .. Place(e, i) : s % batchSize = 0 /\ Place(e, i) < s + batchSize
    <3>1. Place(e, i) \in Nat
      BY <2>1
    <3> QED BY <3>1, MultipleBelow
  <2>3. s \in 0 .. n - 1 /\ Place(e, i) \in s .. s + batchSize - 1
    BY <2>1, <2>2
  <2>4. PICK h \in Group(e, i) : Place(e, h) = s
    BY <2>1, <2>3
  <2>5. h \in Heads(e)
    BY <2>1, <2>2, <2>4 DEF Heads
  <2>6. Group(e, h) = Group(e, i)
    BY GroupMembers
  <2>7. i \in Chunk(e, h)
    BY <2>1, <2>3, <2>4, <2>6, Zenon DEF Chunk
  <2> QED BY <2>5, <2>7
<1>4. ASSUME NEW g \in Heads(e), NEW h \in Heads(e), NEW i \in Chunk(e, g) \cap Chunk(e, h)
      PROVE  g = h
  <2>1. i \in Group(e, g) /\ i \in Group(e, h)
    BY DEF Chunk
  <2>2. Group(e, g) = Group(e, h) /\ g \in Group(e, g) /\ h \in Group(e, g)
    BY <1>1, <2>1, GroupMembers
  <2>3. /\ \A j \in Group(e, g) : Place(e, j) \in Nat
        /\ \A j, k \in Group(e, g) : Place(e, j) = Place(e, k) => j = k
    BY <1>1, PlacesInGroup
  <2>4. /\ Place(e, i) \in Place(e, g) .. Place(e, g) + batchSize - 1
        /\ Place(e, i) \in Place(e, h) .. Place(e, h) + batchSize - 1
    BY DEF Chunk
  <2>5. Place(e, g) = Place(e, h)
    <3>1. Place(e, g) \in Nat /\ Place(e, h) \in Nat /\ Place(e, i) \in Nat
      BY <2>1, <2>2, <2>3
    <3>2. Place(e, g) < Place(e, h) + batchSize /\ Place(e, h) < Place(e, g) + batchSize
      BY <2>4, <3>1
    <3> QED BY <1>1, <3>1, <3>2, MultiplesApart
  <2> QED BY <2>2, <2>3, <2>5
<1> QED BY <1>2, <1>3, <1>4

\* The chunks of an executor are in a total order.
LEMMA SoonerOrders ==
    ASSUME Len(calls) \in Nat, NEW e
    PROVE  Ordering(Heads(e), Sooner(e))
<1> DEFINE first(i) == Min(Group(e, i))
           Before(j, i) == first(j) < first(i) \/ (first(j) = first(i) /\ j < i)
<1>1. Heads(e) \in SUBSET (1 .. Len(calls)) /\ \A i \in Heads(e) : i \in Admitted(e)
  BY GroupMembers DEF Heads
<1>2. IsFiniteSet(Heads(e))
  <2>1. IsFiniteSet(1 .. Len(calls))
    BY FS_Interval
  <2> QED BY <1>1, <2>1, FS_Subset
<1>3. \A i \in Heads(e) : i \in Int /\ first(i) \in Int
  <2>1. ASSUME NEW i \in Heads(e) PROVE first(i) \in Group(e, i)
    BY <1>1, GroupMembers, LeastExists
  <2> QED BY <1>1, <2>1, GroupMembers
<1>4. Sooner(e) = [i \in Heads(e) |-> {j \in Heads(e) : Before(j, i)}]
  BY DEF Sooner
<1> HIDE DEF first
<1>5. Sooner(e) \in [Heads(e) -> SUBSET Heads(e)]
  BY <1>4
<1>6. \A i, j \in Heads(e) : j \in Sooner(e)[i] <=> Before(j, i)
  BY <1>4
<1>7. \A i \in Heads(e) : i \notin Sooner(e)[i]
  BY <1>3, <1>6
<1>8. \A i, j \in Heads(e) : i # j => i \in Sooner(e)[j] \/ j \in Sooner(e)[i]
  BY <1>3, <1>6
<1>9. ASSUME NEW i \in Heads(e), NEW j \in Heads(e), i \in Sooner(e)[j], NEW k \in Sooner(e)[i]
      PROVE  k \in Sooner(e)[j]
  <2>1. k \in Heads(e)
    BY <1>5, <1>9
  <2>2. Before(k, i) /\ Before(i, j)
    BY <1>6, <1>9, <2>1
  <2>3. Before(k, j)
    BY <1>3, <2>1, <2>2
  <2> QED BY <1>6, <2>1, <2>3
<1> QED BY <1>2, <1>5, <1>7, <1>8, <1>9 DEF Ordering

\* One request carries one chunk.
LEMMA RequestOfChunk ==
    ASSUME Len(calls) \in Nat, batchSize \in Nat \ {0}, NEW e, NEW h \in Heads(e)
    PROVE  LET request == InTurn(Chunk(e, h), Earlier(Chunk(e, h))) IN
           /\ request \in Seq(Admitted(e)) /\ Len(request) \in 1 .. batchSize
           /\ ToSet(request) = Chunk(e, h)
<1> DEFINE chunk == Chunk(e, h)
           n == Cardinality(chunk)
           request == InTurn(chunk, Earlier(chunk))
<1>1. /\ chunk \in SUBSET (1 .. Len(calls)) /\ chunk \in SUBSET Admitted(e)
      /\ n \in 1 .. batchSize
  <2>1. h \in Admitted(e)
    BY DEF Heads
  <2>2. chunk \in SUBSET Group(e, h) /\ n \in 1 .. batchSize
    BY ChunksShareOut
  <2> HIDE DEF chunk, n
  <2> QED BY <2>1, <2>2, GroupMembers
<1>2. Ordering(chunk, Earlier(chunk))
  BY <1>1, EarlierOrders
<1>3. /\ request \in [1 .. n -> chunk]
      /\ \A i \in chunk : \E k \in 1 .. n : request[k] = i
  BY <1>2, InTurnVisits
<1> HIDE DEF chunk, n, request
<1>4. request \in Seq(Admitted(e)) /\ Len(request) = n /\ DOMAIN request = 1 .. n
  <2>1. n \in Nat
    BY <1>1
  <2>2. request \in [1 .. n -> Admitted(e)]
    BY <1>1, <1>3
  <2> QED BY <2>1, <2>2
<1>5. ToSet(request) = chunk
  BY <1>3, <1>4 DEF ToSet
<1> QED BY <1>1, <1>4, <1>5, Zenon DEF chunk, request

\* The requests of an executor are as they should be.
LEMMA PhysicalIsProper ==
    ASSUME Len(calls) \in Nat, batchSize \in Nat \ {0}, NEW e
    PROVE  Proper(e, Physical(e))
<1> DEFINE n == Cardinality(Heads(e))
           heads == InTurn(Heads(e), Sooner(e))
           requests == Physical(e)
           Request(h) == InTurn(Chunk(e, h), Earlier(Chunk(e, h)))
<1>1. /\ n \in Nat
      /\ heads \in [1 .. n -> Heads(e)]
      /\ \A p, q \in 1 .. n : heads[p] = heads[q] => p = q
      /\ \A h \in Heads(e) : \E p \in 1 .. n : heads[p] = h
  BY SoonerOrders, InTurnVisits, RanksDiffer
<1>2. /\ requests \in [1 .. n -> {Request(h) : h \in Heads(e)}]
      /\ \A p \in 1 .. n : requests[p] = Request(heads[p])
  <2>1. requests = [p \in DOMAIN heads |-> [h \in Heads(e) |-> Request(h)][heads[p]]]
    BY DEF Physical
  <2>2. DOMAIN heads = 1 .. n
    BY <1>1
  <2> HIDE DEF heads, n, requests, Request
  <2>3. \A p \in 1 .. n : heads[p] \in Heads(e)
    BY <1>1
  <2> QED BY <2>1, <2>2, <2>3
<1>3. \A h \in Heads(e) : /\ Request(h) \in Seq(Admitted(e)) /\ Len(Request(h)) \in 1 .. batchSize
                          /\ ToSet(Request(h)) = Chunk(e, h)
  BY RequestOfChunk
<1>4. /\ \A h \in Heads(e) : Chunk(e, h) \in SUBSET Group(e, h) /\ h \in Admitted(e)
      /\ \A i \in Admitted(e) : \E h \in Heads(e) : i \in Chunk(e, h)
      /\ \A g, h \in Heads(e) : Chunk(e, g) \cap Chunk(e, h) # {} => g = h
  BY ChunksShareOut DEF Heads
<1> HIDE DEF heads, n, requests, Request
<1>5. \A p \in 1 .. n : /\ heads[p] \in Heads(e)
                        /\ requests[p] \in Seq(Admitted(e)) /\ Len(requests[p]) \in 1 .. batchSize
                        /\ ToSet(requests[p]) = Chunk(e, heads[p])
  BY <1>1, <1>2, <1>3
<1>6. requests \in Seq(Seq(Admitted(e))) /\ DOMAIN requests = 1 .. n
  <2>1. requests \in [1 .. n -> Seq(Admitted(e))]
    BY <1>2, <1>5
  <2> QED BY <1>1, <2>1
<1>7. ASSUME NEW p \in 1 .. n, NEW i \in ToSet(requests[p]), NEW j \in ToSet(requests[p])
      PROVE  calls[i].key = calls[j].key
  <2>1. i \in Group(e, heads[p]) /\ j \in Group(e, heads[p]) /\ heads[p] \in Admitted(e)
    BY <1>4, <1>5
  <2> QED BY <2>1, GroupMembers
<1>8. ASSUME NEW p \in 1 .. n, NEW q \in 1 .. n, p # q
      PROVE  ToSet(requests[p]) \cap ToSet(requests[q]) = {}
  <2>1. heads[p] # heads[q]
    BY <1>1, <1>8
  <2> QED BY <1>4, <1>5, <2>1
<1>9. ASSUME NEW i \in Admitted(e) PROVE \E p \in 1 .. n : i \in ToSet(requests[p])
  <2>1. PICK h \in Heads(e) : i \in Chunk(e, h)
    BY <1>4
  <2>2. PICK p \in 1 .. n : heads[p] = h
    BY <1>1
  <2> QED BY <1>5, <2>1, <2>2
<1>10. Proper(e, requests)
  BY <1>5, <1>6, <1>7, <1>8, <1>9, Zenon DEF Proper, SharedOut
<1> QED BY <1>10 DEF requests

-----------------------------------------------------------------------------
(* The values that tell outcomes apart, and the ways methods travel.       *)

LEMMA TagsDiffer ==
    /\ \A i : Value(i) # Missing
    /\ \A S : Error(S) # Missing
    /\ \A i, S : Value(i) # Error(S)
    /\ \A S, T : Error(S) = Error(T) => S = T
    /\ Unsent # Sent /\ Unsent # Unusable /\ Sent # Unusable
    /\ Abandoned # Sent /\ Abandoned # Unsent
    /\ \A items : /\ Items(items) # Unsent /\ Items(items) # Sent /\ Items(items) # Unusable
                  /\ Items(items)[2] = items
  BY DEF Value, Error, Missing, Unsent, Sent, Unusable, Abandoned, Items

Travels(method) == "via" \in DOMAIN method /\ method.via \in Executors

\* Every method of the catalogue goes to one of the two executors.
LEMMA CatalogTravels == \A method \in Catalog : Travels(method)
<1> DEFINE Kinds == {Public, Personal, OwnComm, Http, Placeholder, PrivateMessage,
                     Signed(Personal), Codes("tells", Public),
                     Comm("loginType", Codes("refresh", Public)),
                     Codes("ignores", Personal), Codes("qr", Http),
                     Comm("byPhone", On("android", Codes("any", Public))),
                     Comm("phoneLogin", On("android", Codes("login", Public))),
                     On("android", Public), On("web", Public), Codes("partial", OwnComm),
                     Signed(Codes("partial", OwnComm)), Codes("false", Personal)}
<1>1. Catalog \subseteq Kinds
  BY DEF Catalog,
         album_get_detail, album_get_song, album_get_new_album,
         album_fav_album, album_del_fav_album, comment_get_comment_count,
         comment_get_hot_comments, comment_get_new_comments,
         comment_get_recommend_comments, comment_get_moment_comments,
         comment_add_comment, comment_delete_comment, helper_init_upload,
         helper_finish_upload, login_check_expired, login_refresh_credential,
         login_logout, login_get_qrcode, login_check_qrcode,
         login_send_authcode, login_phone_authorize, lyric_get_lyric,
         lyric_get_singing_annotations_info,
         lyric_get_multi_style_trans_lyric, lyric_is_ai_dict_exists,
         lyric_get_ai_dict, mv_get_detail, mv_get_mv_urls, mv_get_mv_list,
         private_message_get_sessions, private_message_delete_session,
         private_message_get_messages, private_message_send_message,
         private_message_delete_message, private_message_clear_session,
         private_message_set_config, private_message_get_config,
         private_message_get_musician_message_card,
         private_message_report_card_message_action,
         private_message_get_chat_entries,
         private_message_get_media_message_details,
         private_message_mark_all_messages_read,
         private_message_get_safety_hint,
         private_message_get_friendship_badge, recommend_get_home_feed,
         recommend_get_guess_recommend, recommend_get_radar_recommend,
         recommend_get_recommend_songlist, recommend_get_recommend_newsong,
         search_get_hotkey, search_complete, search_quick_search,
         search_general_search, search_search_by_type, singer_get_singer_list,
         singer_get_singer_list_index, singer_get_info, singer_get_tab_detail,
         singer_get_desc, singer_get_similar, singer_get_songs_list,
         singer_get_album_list, singer_get_mv_tag, singer_get_mv_list,
         song_query_song, song_get_cdn_dispatch, song_get_song_urls,
         song_get_detail, song_get_similar_song, song_get_labels,
         song_get_related_songlist, song_get_related_mv,
         song_get_other_version, song_get_producer, song_get_sheet,
         song_get_chongchong_sheet, song_has_sheet, song_get_fav_num,
         songlist_get_detail, songlist_create, songlist_delete,
         songlist_add_songs, songlist_del_songs, songlist_like_song,
         songlist_unlike_song, sound_power_get_detail,
         sound_power_get_hugevip_rule, sound_power_get_friend_rank,
         sound_power_like_friend, sound_power_set_rank_privacy,
         sound_power_get_medal_entry, sound_power_get_tasks, top_get_category,
         top_get_detail, user_get_homepage, user_get_vip_info,
         user_get_follow_singers, user_get_fans, user_get_friend,
         user_get_follow_user, user_get_created_songlist, user_get_fav_song,
         user_get_fav_songlist, user_fav_songlist, user_unfav_songlist,
         user_get_fav_album, user_get_fav_mv, user_get_music_gene,
         user_get_dislike_list, user_add_dislike, user_cancel_dislike,
         user_cancel_all_dislike_song
<1>2. \A method : Travels(method) => /\ \A platform : Travels(On(platform, method))
                                     /\ Travels(Signed(method))
                                     /\ \A codes : Travels(Codes(codes, method))
                                     /\ \A comm : Travels(Comm(comm, method))
  BY DEF Travels, On, Signed, Codes, Comm
<1>3. Travels(Public) /\ Travels(Personal) /\ Travels(OwnComm) /\ Travels(Http) /\ Travels(Placeholder)
  BY DEF Travels, Public, Personal, OwnComm, Comm, Http, Placeholder, Executors
<1>4. Travels(PrivateMessage)
  BY <1>2, <1>3 DEF PrivateMessage
<1>5. ASSUME NEW method \in Kinds PROVE Travels(method)
  BY <1>2, <1>3, <1>4, Zenon
<1> QED BY <1>1, <1>5

-----------------------------------------------------------------------------
(* gather: the initial states and what a step leaves alone.                *)

LEMMA InitIsTyped == Init => Typed
<1> SUFFICES ASSUME Init PROVE Typed
  OBVIOUS
<1>1. PICK n \in 1 .. MaxCalls : calls \in [1 .. n -> CallKinds]
  BY DEF Init
<1>2. MaxCalls \in Nat /\ MaxBatch \in Nat
  BY BatchAssumption
<1>3. Len(calls) \in Nat /\ \A i \in Calls : calls[i] \in CallKinds
  BY <1>1, <1>2 DEF Calls
<1>4. \A kind \in CallKinds : kind.via \in Executors
  BY BatchAssumption, CatalogTravels DEF CallKinds, Call, Travels
<1>5. stage \in [Executors -> Stages] /\ seen \in [Executors -> Nat]
  BY DEF Init, Stages, Ended
<1>6. batchSize \in Nat \ {0}
  BY <1>2 DEF Init
<1> QED BY <1>3, <1>4, <1>5, <1>6 DEF Typed, Init

LEMMA InitIsRight == Init => BatchInv
<1> SUFFICES ASSUME Init PROVE BatchInv
  OBVIOUS
<1>1. Typed
  BY InitIsTyped
<1>2. GatherInv
  BY DEF Init, GatherInv
<1>3. ASSUME NEW e \in Executors PROVE ExecutorInv(e)
  <2>1. /\ prepared[e] = <<>> /\ outcomes[e] = <<>> /\ seen[e] = 0
        /\ stage[e] = IF Owned(e) = {} THEN "done" ELSE "start"
        /\ \A i \in Calls : found[e][i] = Missing /\ fate[i] = "none"
    BY DEF Init
  <2>2. Len(prepared[e]) = 0 /\ prepared[e] \in Seq(Seq(Admitted(e))) /\ DOMAIN outcomes[e] = 1 .. 0
    BY <2>1
  <2>3. Positions(e, Sent) = {}
    BY <2>2 DEF Positions
  <2>4. Owned(e) \subseteq Calls
    BY DEF Owned
  <2> QED BY <2>1, <2>2, <2>3, <2>4 DEF ExecutorInv
<1> QED BY <1>1, <1>2, <1>3 DEF BatchInv

\* What belongs to executor e is as before.
Untouched(e) ==
    /\ UNCHANGED askedVars
    /\ stage'[e] = stage[e] /\ batches'[e] = batches[e] /\ seen'[e] = seen[e]
    /\ prepared'[e] = prepared[e] /\ outcomes'[e] = outcomes[e] /\ found'[e] = found[e]
    /\ \A i \in Owned(e) : fate'[i] = fate[i] /\ results'[i] = results[i]

\* A gather that was cancelled, an executor that failed: they stay so.
EndsStay ==
    /\ gather = "cancelled" => gather' = "cancelled"
    /\ \A e \in Executors : stage[e] = "failed" => stage'[e] = "failed"

\* How calls are asked for does not change.
LEMMA AskedStays ==
    ASSUME UNCHANGED askedVars, NEW e
    PROVE  /\ Calls' = Calls /\ Owned(e)' = Owned(e) /\ Denied(e)' = Denied(e)
           /\ Admitted(e)' = Admitted(e) /\ Owned(e) \subseteq Calls
           /\ calls' = calls /\ batchSize' = batchSize /\ keep' = keep
  BY DEF askedVars, Calls, Owned, Denied, Admitted

\* The requests under way, by their calls.
LEMMA RequestsCarry ==
    ASSUME NEW e, prepared[e] \in Seq(Seq(Admitted(e))), NEW p \in 1 .. Len(prepared[e])
    PROVE  /\ Len(prepared[e][p]) \in Nat /\ DOMAIN prepared[e][p] = 1 .. Len(prepared[e][p])
           /\ \A k \in DOMAIN prepared[e][p] : prepared[e][p][k] \in ToSet(prepared[e][p])
           /\ \A i \in ToSet(prepared[e][p]) : \E k \in DOMAIN prepared[e][p] : prepared[e][p][k] = i
           /\ ToSet(prepared[e][p]) \subseteq Admitted(e)
           /\ Admitted(e) \subseteq Owned(e) /\ Owned(e) \subseteq Calls
<1>1. prepared[e][p] \in Seq(Admitted(e))
  OBVIOUS
<1>2. \A k \in DOMAIN prepared[e][p] : prepared[e][p][k] \in Admitted(e)
  BY <1>1
<1> QED BY <1>1, <1>2 DEF ToSet, Admitted, Owned

\* What holds at every stage.
LEMMA RequestsAreApart ==
    ASSUME NEW e, ExecutorInv(e)
    PROVE  /\ \A i \in Calls \ Owned(e) : found[e][i] = Missing
           /\ prepared[e] \in Seq(Seq(Admitted(e))) /\ Len(prepared[e]) \in Nat
           /\ DOMAIN outcomes[e] = 1 .. Len(prepared[e])
           /\ \A p, q \in 1 .. Len(prepared[e]) :
                 p # q => ToSet(prepared[e][p]) \cap ToSet(prepared[e][q]) = {}
           /\ stage[e] \in {"prepare", "send"} => Proper(e, batches[e])
           /\ stage[e] = "prepare" => Preparing(e)
           /\ stage[e] = "send" => Sending(e)
<1>1. prepared[e] \in Seq(Seq(Admitted(e)))
  BY DEF ExecutorInv
<1>2. Len(prepared[e]) \in Nat
  BY <1>1
<1> QED BY <1>1, <1>2 DEF ExecutorInv

LEMMA PositionsAreFew ==
    ASSUME NEW e, Len(prepared[e]) \in Nat
    PROVE  \A what : IsFiniteSet(Positions(e, what))
<1>1. IsFiniteSet(1 .. Len(prepared[e]))
  BY FS_Interval
<1>2. \A what : Positions(e, what) \in SUBSET (1 .. Len(prepared[e]))
  BY DEF Positions
<1> QED BY <1>1, <1>2, FS_Subset

\* The requests of an executor, by their calls.
LEMMA BatchesCarry ==
    ASSUME NEW e, Proper(e, batches[e])
    PROVE  /\ Len(batches[e]) \in Nat /\ DOMAIN batches[e] = 1 .. Len(batches[e])
           /\ \A x \in DOMAIN batches[e] :
                 /\ batches[e][x] \in Seq(Admitted(e)) /\ Len(batches[e][x]) \in 1 .. batchSize
                 /\ ToSet(batches[e][x]) \subseteq Owned(e) /\ ToSet(batches[e][x]) \subseteq Admitted(e)
                 /\ \A i, j \in ToSet(batches[e][x]) : calls[i].key = calls[j].key
           /\ \A x, y \in DOMAIN batches[e] : x # y => ToSet(batches[e][x]) \cap ToSet(batches[e][y]) = {}
           /\ \A i \in Admitted(e) : \E x \in DOMAIN batches[e] : i \in ToSet(batches[e][x])
<1>1. /\ batches[e] \in Seq(Seq(Admitted(e)))
      /\ \A x \in DOMAIN batches[e] :
            /\ Len(batches[e][x]) \in 1 .. batchSize
            /\ \A i, j \in ToSet(batches[e][x]) : calls[i].key = calls[j].key
      /\ \A x, y \in DOMAIN batches[e] : x # y => ToSet(batches[e][x]) \cap ToSet(batches[e][y]) = {}
      /\ \A i \in Admitted(e) : \E x \in DOMAIN batches[e] : i \in ToSet(batches[e][x])
  BY DEF Proper, SharedOut
<1>2. Len(batches[e]) \in Nat /\ DOMAIN batches[e] = 1 .. Len(batches[e])
  BY <1>1
<1>3. ASSUME NEW x \in DOMAIN batches[e]
      PROVE  /\ batches[e][x] \in Seq(Admitted(e)) /\ ToSet(batches[e][x]) \subseteq Admitted(e)
             /\ Admitted(e) \subseteq Owned(e)
  <2>1. batches[e][x] \in Seq(Admitted(e))
    BY <1>1
  <2> QED BY <2>1 DEF ToSet, Admitted
<1> QED BY <1>1, <1>2, <1>3

\* An outcome stands as long as nothing happens to its calls.
LEMMA MatchesStays ==
    ASSUME NEW e, NEW p, prepared'[e] = prepared[e], outcomes'[e][p] = outcomes[e][p],
           \A k \in DOMAIN prepared[e][p] : fate'[prepared[e][p][k]] = fate[prepared[e][p][k]],
           Matches(prepared[e][p], outcomes[e][p])
    PROVE  Matches(prepared[e][p], outcomes[e][p])'
  BY DEF Matches, Unsent, Sent, Unusable, Items, Value, Error

\* The invariant of an executor outlasts what others do.
LEMMA UntouchedKeeps ==
    ASSUME NEW e \in Executors, ExecutorInv(e), Untouched(e), EndsStay
    PROVE  ExecutorInv(e)'
<1> USE DEF Untouched
<1>1. /\ Calls' = Calls /\ Owned(e)' = Owned(e) /\ Admitted(e)' = Admitted(e)
      /\ Owned(e) \subseteq Calls
      /\ calls' = calls /\ batchSize' = batchSize /\ keep' = keep
  BY AskedStays
<1>2. /\ \A i \in Calls \ Owned(e) : found[e][i] = Missing
      /\ prepared[e] \in Seq(Seq(Admitted(e))) /\ DOMAIN outcomes[e] = 1 .. Len(prepared[e])
      /\ \A p, q \in 1 .. Len(prepared[e]) :
            p # q => ToSet(prepared[e][p]) \cap ToSet(prepared[e][q]) = {}
  BY DEF ExecutorInv
<1>3. Positions(e, Sent)' = Positions(e, Sent)
  BY DEF Positions, Sent
<1>4. \A i : Carried(e, i)' <=> Carried(e, i)
  BY DEF Carried
<1>5. \A what : \A i \in Owned(e) : Kept(e, i, what) => /\ keep' /\ fate'[i] = "failed"
                                                 /\ \E S \in SUBSET Owned(e) :
                                                       /\ what = Error(S) /\ i \in S
                                                       /\ \A j \in S : calls[j].key = calls[i].key
                                                                       /\ fate'[j] = "failed"
  BY <1>1 DEF Kept
<1>6. CASE stage[e] = "start"
  BY <1>1, <1>2, <1>6 DEF ExecutorInv, Ended
<1>7. CASE stage[e] = "prepare"
  <2>1. Proper(e, batches[e]) /\ Preparing(e)
    BY <1>7 DEF ExecutorInv
  <2>2. Proper(e, batches[e])'
    BY <1>1, <2>1 DEF Proper
  <2>3. Preparing(e)'
    <3>1. ASSUME NEW i \in Owned(e)
          PROVE  \/ Kept(e, i, found[e][i])'
                 \/ Carried(e, i)'
                 \/ \E x \in seen[e] + 1 .. Len(batches[e]) : i \in ToSet(batches[e][x])
      <4>1. CASE Kept(e, i, found[e][i])
        BY <1>1, <1>5, <4>1 DEF Kept, Error
      <4>2. CASE ~Kept(e, i, found[e][i])
        BY <1>4, <2>1, <4>2 DEF Preparing
      <4> QED BY <4>1, <4>2
    <3>2. \A i \in Owned(e) : Waits(e, i) => Waits(e, i)'
      BY DEF Waits, Missing
    <3>3. \A p \in 1 .. Len(prepared[e]) : \A i \in ToSet(prepared[e][p]) : Waits(e, i)'
      BY <1>2, <2>1, <3>2, RequestsCarry DEF Preparing
    <3>4. \A x \in seen[e] + 1 .. Len(batches[e]) : \A i \in ToSet(batches[e][x]) : Waits(e, i)'
      <4>1. \A x \in DOMAIN batches[e] : ToSet(batches[e][x]) \subseteq Owned(e)
        BY <2>1, BatchesCarry
      <4>2. \A x \in seen[e] + 1 .. Len(batches[e]) : x \in DOMAIN batches[e]
        BY <2>1, BatchesCarry DEF Preparing
      <4> QED BY <2>1, <3>2, <4>1, <4>2 DEF Preparing
    <3> QED BY <1>1, <2>1, <3>1, <3>3, <3>4 DEF Preparing, Unsent
  <2> QED BY <1>1, <1>2, <1>7, <2>2, <2>3 DEF ExecutorInv, Ended, Missing
<1>8. CASE stage[e] = "send"
  <2>1. Proper(e, batches[e]) /\ Sending(e)
    BY <1>8 DEF ExecutorInv
  <2>2. Proper(e, batches[e])'
    BY <1>1, <2>1 DEF Proper
  <2>3. Sending(e)'
    <3>1. ASSUME NEW i \in Owned(e)
          PROVE  Kept(e, i, found[e][i])' \/ (found[e][i] = Missing /\ Carried(e, i)')
      <4>1. CASE Kept(e, i, found[e][i])
        BY <1>1, <1>5, <4>1 DEF Kept, Error
      <4>2. CASE ~Kept(e, i, found[e][i])
        BY <1>4, <2>1, <4>2 DEF Sending
      <4> QED BY <4>1, <4>2
    <3>2. ASSUME NEW p \in 1 .. Len(prepared[e])
          PROVE  Matches(prepared[e][p], outcomes[e][p])'
      <4>1. Matches(prepared[e][p], outcomes[e][p])
        BY <2>1 DEF Sending
      <4>2. \A k \in DOMAIN prepared[e][p] : fate'[prepared[e][p][k]] = fate[prepared[e][p][k]]
        BY <1>2, RequestsCarry
      <4> QED BY <4>1, <4>2, MatchesStays
    <3> QED BY <1>1, <1>3, <2>1, <3>1, <3>2 DEF Sending, Missing
  <2> QED BY <1>1, <1>2, <1>8, <2>2, <2>3 DEF ExecutorInv, Ended, Missing
<1>9. CASE stage[e] \in Ended
  <2>1. stage[e] = "done" => \A i \in Owned(e) : Settled(e, i, results[i])'
    <3>1. ASSUME NEW i \in Owned(e), Settled(e, i, results[i]) PROVE Settled(e, i, results[i])'
      <4>1. CASE fate[i] = "answered" /\ results[i] = Value(i)
        BY <4>1 DEF Settled, Value
      <4>2. CASE Kept(e, i, results[i])
        BY <1>1, <1>5, <4>2 DEF Settled, Kept, Error
      <4> QED BY <3>1, <4>1, <4>2 DEF Settled
    <3> QED BY <3>1 DEF ExecutorInv
  <2>2. stage[e] = "failed" => ~keep /\ \E i \in Owned(e) : fate'[i] = "failed"
    BY DEF ExecutorInv
  <2>3. stage[e] = "cancelled" =>
          gather' = "cancelled" \/ \E other \in Executors : stage'[other] = "failed"
    BY DEF ExecutorInv, EndsStay
  <2>4. Positions(e, Sent)' = {}
    BY <1>3, <1>9 DEF ExecutorInv
  <2> QED BY <1>1, <1>2, <1>9, <2>1, <2>2, <2>3, <2>4 DEF ExecutorInv, Ended, Missing
<1>10. CASE stage[e] \notin Ended \cup {"start", "prepare", "send"}
  BY <1>1, <1>2, <1>10 DEF ExecutorInv, Ended, Missing
<1> QED BY <1>6, <1>7, <1>8, <1>9, <1>10

\* A step of executor e touches nothing of another.
LocalTo(e) ==
    /\ UNCHANGED <<askedVars, gather>>
    /\ \A f \in Executors \ {e} :
          /\ stage'[f] = stage[f] /\ batches'[f] = batches[f] /\ seen'[f] = seen[f]
          /\ prepared'[f] = prepared[f] /\ outcomes'[f] = outcomes[f] /\ found'[f] = found[f]
    /\ \A i \in Calls \ Owned(e) : fate'[i] = fate[i] /\ results'[i] = results[i]

LEMMA StepIsLocal ==
    ASSUME Typed, NEW e \in Executors, ExecutorInv(e), Step(e)
    PROVE  LocalTo(e) /\ Typed' /\ stage[e] \notin Ended
<1> USE DEF Stages, Ended
<1>1. /\ \A i \in Calls \ Owned(e) : found[e][i] = Missing
      /\ prepared[e] \in Seq(Seq(Admitted(e)))
      /\ Admitted(e) \subseteq Owned(e) /\ Denied(e) \subseteq Owned(e) /\ Owned(e) \subseteq Calls
  BY DEF ExecutorInv, Admitted, Denied, Owned
<1>2. CASE Check(e)
  <2>1. UNCHANGED <<askedVars, gather>> /\ stage[e] = "start"
    BY <1>2 DEF Check
  <2>2. \A i \in Calls \ Owned(e) : fate'[i] = fate[i] /\ results'[i] = results[i]
    BY <1>1, <1>2 DEF Check, Befalls, Scatter, Typed
  <2>3. stage' \in [Executors -> Stages]
    BY <1>2 DEF Check, Scatter, Goes, Typed
  <2>4. \A f \in Executors \ {e} :
          /\ stage'[f] = stage[f] /\ batches'[f] = batches[f] /\ seen'[f] = seen[f]
          /\ prepared'[f] = prepared[f] /\ outcomes'[f] = outcomes[f] /\ found'[f] = found[f]
    BY <1>2 DEF Check, Scatter, Goes, Typed
  <2>5. /\ DOMAIN batches' = Executors /\ DOMAIN found' = Executors
        /\ UNCHANGED <<seen, prepared, outcomes>>
    BY <1>2 DEF Check, Typed
  <2> QED BY <2>1, <2>2, <2>3, <2>4, <2>5, AskedStays DEF LocalTo, Typed
<1>3. CASE Prepare(e)
  <2> DEFINE request == batches[e][seen[e] + 1]
  <2>1. /\ UNCHANGED <<askedVars, gather, batches, results>> /\ stage[e] = "prepare"
        /\ seen[e] < Len(batches[e]) /\ seen' = [seen EXCEPT ![e] = @ + 1]
    BY <1>3 DEF Prepare
  <2>2. ToSet(request) \subseteq Owned(e)
    <3>1. batches[e] \in Seq(Seq(Admitted(e)))
      BY <2>1 DEF ExecutorInv, Proper, SharedOut
    <3>2. seen[e] + 1 \in DOMAIN batches[e]
      BY <2>1, <3>1 DEF Typed
    <3>3. request \in Seq(Admitted(e))
      BY <3>1, <3>2
    <3> QED BY <1>1, <3>3 DEF ToSet
  <2>3. \A i \in Calls \ Owned(e) : fate'[i] = fate[i]
    BY <1>3, <2>2 DEF Prepare, Befalls
  <2>4. stage' \in [Executors -> Stages] /\ seen' \in [Executors -> Nat]
    BY <1>3, <2>1 DEF Prepare, Goes, Typed
  <2>5. /\ \A f \in Executors \ {e} :
              /\ stage'[f] = stage[f] /\ prepared'[f] = prepared[f]
              /\ outcomes'[f] = outcomes[f] /\ found'[f] = found[f]
        /\ DOMAIN prepared' = Executors /\ DOMAIN outcomes' = Executors /\ DOMAIN found' = Executors
    BY <1>3 DEF Prepare, Spoil, Goes, Typed
  <2> QED BY <2>1, <2>3, <2>4, <2>5, AskedStays DEF LocalTo, Typed
<1>4. CASE Prepared(e)
  <2>1. /\ UNCHANGED <<askedVars, batches, seen, prepared, outcomes, gather, fate>>
        /\ UNCHANGED found /\ stage[e] = "prepare"
        /\ \/ Scatter(e)
           \/ stage' = [stage EXCEPT ![e] = "send"] /\ UNCHANGED results
    BY <1>4 DEF Prepared, Goes
  <2>2. \A i \in Calls \ Owned(e) : results'[i] = results[i]
    BY <1>1, <2>1 DEF Scatter
  <2>3. stage' \in [Executors -> Stages] /\ \A f \in Executors \ {e} : stage'[f] = stage[f]
    BY <2>1 DEF Scatter, Goes, Typed
  <2> QED BY <2>1, <2>2, <2>3, AskedStays DEF LocalTo, Typed
<1>5. CASE Send(e)
  BY <1>5, AskedStays DEF Send, LocalTo, Typed
<1>6. CASE Decode(e)
  <2>1. /\ UNCHANGED <<askedVars, batches, seen, prepared, outcomes, gather, fate>> /\ stage[e] = "send"
        /\ DOMAIN found' = Executors
        /\ \A f \in Executors \ {e} : found'[f] = found[f]
        /\ \/ Scatter(e)
           \/ stage' = [stage EXCEPT ![e] = "failed"] /\ UNCHANGED results
    BY <1>6 DEF Decode, Goes, Typed
  <2>2. \A i \in Calls \ Owned(e) : found'[e][i] = found[e][i]
    <3>1. ASSUME NEW i \in Calls \ Owned(e), NEW p \in 1 .. Len(prepared[e]) PROVE i \notin ToSet(prepared[e][p])
      BY <1>1, RequestsCarry
    <3> QED BY <1>6, <3>1 DEF Decode, Typed
  <2>3. \A i \in Calls \ Owned(e) : results'[i] = results[i]
    BY <1>1, <2>1, <2>2 DEF Scatter
  <2>4. stage' \in [Executors -> Stages] /\ \A f \in Executors \ {e} : stage'[f] = stage[f]
    BY <2>1 DEF Scatter, Goes, Typed
  <2> QED BY <2>1, <2>3, <2>4, AskedStays DEF LocalTo, Typed
<1>7. CASE Stop(e)
  BY <1>7, AskedStays DEF Stop, Goes, Abandon, LocalTo, Typed
<1>8. ASSUME NEW p \in 1 .. Len(prepared[e]), Respond(e, p) \/ SendFails(e, p)
      PROVE  LocalTo(e) /\ Typed' /\ stage[e] \notin Ended
  <2>1. ToSet(prepared[e][p]) \subseteq Owned(e)
    BY <1>1, RequestsCarry
  <2>2. /\ UNCHANGED <<askedVars, batches, seen, prepared, found, results, gather>> /\ stage[e] = "send"
        /\ DOMAIN outcomes' = Executors
        /\ \A f \in Executors \ {e} : outcomes'[f] = outcomes[f]
    BY <1>8 DEF Respond, SendFails, Abandon, Typed
  <2>3. stage' \in [Executors -> Stages] /\ \A f \in Executors \ {e} : stage'[f] = stage[f]
    BY <1>8 DEF Respond, SendFails, Goes, Typed
  <2>4. \A i \in Calls \ Owned(e) : fate'[i] = fate[i]
    BY <1>8, <2>1 DEF Respond, SendFails, Befalls
  <2> QED BY <2>2, <2>3, <2>4, AskedStays DEF LocalTo, Typed
<1> QED BY <1>2, <1>3, <1>4, <1>5, <1>6, <1>7, <1>8 DEF Step

\* So it leaves the invariant of the other executor alone.
LEMMA OthersUntouched ==
    ASSUME NEW e \in Executors, LocalTo(e), stage[e] \notin Ended
    PROVE  EndsStay /\ \A f \in Executors \ {e} : Untouched(f)
<1>1. \A f \in Executors \ {e} : Owned(f) \subseteq Calls \ Owned(e)
  BY DEF Owned
<1>2. EndsStay
  BY DEF EndsStay, LocalTo, Ended
<1> QED BY <1>1, <1>2 DEF LocalTo, Untouched

-----------------------------------------------------------------------------
(* What an executor does keeps its own invariant.                          *)

\* Kept, with what has become of the calls after a step.
KeptNow(e, i, what) ==
    /\ keep /\ fate'[i] = "failed"
    /\ \E S \in SUBSET Owned(e) :
          /\ what = Error(S) /\ i \in S
          /\ \A j \in S : calls[j].key = calls[i].key /\ fate'[j] = "failed"

\* What failed stays so.
LEMMA KeptStays ==
    ASSUME UNCHANGED askedVars, NEW e,
           \A j \in Owned(e) : fate[j] = "failed" => fate'[j] = "failed"
    PROVE  /\ \A i : Kept(e, i, found[e][i]) => KeptNow(e, i, found[e][i])
           /\ \A i : Kept(e, i, found[e][i])' <=> KeptNow(e, i, found'[e][i])
           /\ \A i : Kept(e, i, results[i])' <=> KeptNow(e, i, results'[i])
           /\ \A i, what : KeptNow(e, i, what) => what # Missing
<1>1. Owned(e)' = Owned(e) /\ calls' = calls /\ keep' = keep
  BY AskedStays
<1>2. \A i : Kept(e, i, found[e][i]) => KeptNow(e, i, found[e][i])
  BY DEF Kept, KeptNow
<1>3. \A i : Kept(e, i, found[e][i])' <=> KeptNow(e, i, found'[e][i])
  BY <1>1 DEF Kept, KeptNow, Error
<1>4. \A i : Kept(e, i, results[i])' <=> KeptNow(e, i, results'[i])
  BY <1>1 DEF Kept, KeptNow, Error
<1>5. \A i, what : KeptNow(e, i, what) => what # Missing
  BY TagsDiffer DEF KeptNow
<1> QED BY <1>2, <1>3, <1>4, <1>5

LEMMA CheckKeeps ==
    ASSUME Typed, NEW e \in Executors, ExecutorInv(e), Check(e)
    PROVE  ExecutorInv(e)'
<1>1. UNCHANGED askedVars /\ stage[e] = "start" /\ keep \in BOOLEAN
  BY DEF Check, Typed
<1>2. /\ Calls' = Calls /\ Owned(e)' = Owned(e) /\ Admitted(e)' = Admitted(e)
      /\ Owned(e) \subseteq Calls
      /\ calls' = calls /\ batchSize' = batchSize /\ keep' = keep
  BY <1>1, AskedStays
<1>3. Denied(e) \subseteq Owned(e) /\ Admitted(e) = Owned(e) \ Denied(e)
  BY DEF Denied, Admitted
<1>4. /\ \A i \in Calls \ Owned(e) : found[e][i] = Missing
      /\ \A i \in Owned(e) : found[e][i] = Missing /\ fate[i] = "none"
      /\ prepared'[e] = <<>> /\ outcomes'[e] = <<>> /\ seen'[e] = 0
  BY <1>1 DEF ExecutorInv, Check
<1>5. \A i \in Calls :
        /\ found'[e][i] = IF i \in Denied(e) THEN Error({i}) ELSE found[e][i]
        /\ fate'[i] = IF i \in Denied(e) THEN "failed" ELSE fate[i]
  BY DEF Check, Befalls, Typed
<1>6. /\ \A i \in Calls \ Owned(e) : found'[e][i] = Missing
      /\ prepared'[e] \in Seq(Seq(Admitted(e))) /\ DOMAIN outcomes'[e] = 1 .. Len(prepared'[e])
      /\ Len(prepared'[e]) = 0
  <2>1. \A i \in Calls \ Owned(e) : found'[e][i] = Missing
    BY <1>3, <1>4, <1>5
  <2>2. /\ prepared'[e] \in Seq(Seq(Admitted(e))) /\ Len(prepared'[e]) = 0
        /\ DOMAIN outcomes'[e] = 1 .. 0
    BY <1>4
  <2> QED BY <2>1, <2>2
<1>7. Positions(e, Sent)' = {}
  BY <1>6 DEF Positions
<1>8. ASSUME keep, NEW i \in Denied(e) PROVE KeptNow(e, i, Error({i}))
  BY <1>2, <1>3, <1>5, <1>8 DEF KeptNow
<1>9. \A i : /\ Kept(e, i, found[e][i])' <=> KeptNow(e, i, found'[e][i])
             /\ Kept(e, i, results[i])' <=> KeptNow(e, i, results'[i])
  BY <1>1, <1>2, <1>4, <1>5, KeptStays
<1>10. CASE Denied(e) # {} /\ ~keep
  <2>1. stage'[e] = "failed"
    BY <1>10 DEF Check, Goes, Typed
  <2>2. \E i \in Owned(e) : fate'[i] = "failed"
    BY <1>2, <1>3, <1>5, <1>10
  <2> QED BY <1>2, <1>6, <1>7, <1>10, <2>1, <2>2 DEF ExecutorInv, Ended, Missing
<1>11. CASE (Denied(e) = {} \/ keep) /\ Admitted(e) = {}
  <2>1. Scatter(e)
    BY <1>11 DEF Check
  <2>2. /\ stage'[e] = "done"
        /\ \A i \in Calls : results'[i] = IF found'[e][i] # Missing THEN found'[e][i] ELSE results[i]
    BY <2>1 DEF Scatter, Goes, Typed
  <2>3. ASSUME NEW i \in Owned(e) PROVE Settled(e, i, results[i])'
    <3>1. i \in Denied(e) /\ keep /\ i \in Calls
      BY <1>2, <1>3, <1>11
    <3>2. results'[i] = Error({i})
      BY <1>5, <2>2, <3>1, TagsDiffer
    <3> QED BY <1>8, <1>9, <3>1, <3>2 DEF Settled
  <2> QED BY <1>2, <1>6, <1>7, <2>2, <2>3 DEF ExecutorInv, Ended, Missing
<1>12. CASE (Denied(e) = {} \/ keep) /\ Admitted(e) # {}
  <2>1. stage'[e] = "prepare" /\ batches'[e] = Physical(e)
    BY <1>12 DEF Check, Goes, Typed
  <2>2. Proper(e, Physical(e))
    BY PhysicalIsProper DEF Typed
  <2>3. Proper(e, batches[e])'
    BY <1>2, <2>1, <2>2 DEF Proper
  <2>4. /\ Len(batches'[e]) \in Nat
        /\ \A x \in 1 .. Len(batches'[e]) : ToSet(batches'[e][x]) \subseteq Admitted(e)
        /\ \A i \in Admitted(e) : \E x \in 1 .. Len(batches'[e]) : i \in ToSet(batches'[e][x])
    <3>1. /\ batches'[e] \in Seq(Seq(Admitted(e)))
          /\ \A i \in Admitted(e) : \E x \in DOMAIN batches'[e] : i \in ToSet(batches'[e][x])
      BY <2>1, <2>2 DEF Proper, SharedOut
    <3>2. Len(batches'[e]) \in Nat /\ DOMAIN batches'[e] = 1 .. Len(batches'[e])
      BY <3>1
    <3>3. ASSUME NEW x \in 1 .. Len(batches'[e]) PROVE ToSet(batches'[e][x]) \subseteq Admitted(e)
      <4>1. batches'[e][x] \in Seq(Admitted(e))
        BY <3>1, <3>2
      <4> QED BY <4>1 DEF ToSet
    <3> QED BY <3>1, <3>2, <3>3
  <2>5. Preparing(e)'
    <3>1. seen'[e] \in 0 .. Len(batches'[e]) /\ outcomes'[e] \in Seq({Unsent})
      BY <1>4, <2>4
    <3>2. \A i \in Admitted(e) : Waits(e, i)'
      BY <1>2, <1>3, <1>4, <1>5 DEF Waits, Missing
    <3>3. \A x \in seen'[e] + 1 .. Len(batches'[e]) : \A i \in ToSet(batches'[e][x]) : Waits(e, i)'
      BY <1>4, <2>4, <3>2
    <3>4. ASSUME NEW i \in Owned(e)
          PROVE  \/ KeptNow(e, i, found'[e][i])
                 \/ \E x \in seen'[e] + 1 .. Len(batches'[e]) : i \in ToSet(batches'[e][x])
      <4>1. CASE i \in Denied(e)
        BY <1>2, <1>5, <1>8, <1>12, <4>1
      <4>2. CASE i \in Admitted(e)
        BY <1>4, <2>4, <4>2
      <4> QED BY <1>3, <4>1, <4>2
    <3> QED BY <1>2, <1>6, <1>9, <3>1, <3>3, <3>4 DEF Preparing, Unsent
  <2> QED BY <1>2, <1>6, <2>1, <2>3, <2>5 DEF ExecutorInv, Ended, Missing
<1> QED BY <1>10, <1>11, <1>12

LEMMA PrepareKeeps ==
    ASSUME Typed, NEW e \in Executors, ExecutorInv(e), Prepare(e)
    PROVE  ExecutorInv(e)'
<1> DEFINE n == Len(prepared[e])
           request == batches[e][seen[e] + 1]
<1>1. /\ UNCHANGED askedVars /\ stage[e] = "prepare" /\ batches'[e] = batches[e]
      /\ seen[e] < Len(batches[e]) /\ seen[e] \in Nat /\ seen'[e] = seen[e] + 1
      /\ keep \in BOOLEAN
  BY DEF Prepare, Typed
<1>2. /\ Calls' = Calls /\ Owned(e)' = Owned(e) /\ Admitted(e)' = Admitted(e)
      /\ Owned(e) \subseteq Calls
      /\ calls' = calls /\ batchSize' = batchSize /\ keep' = keep
  BY <1>1, AskedStays
<1>3. /\ \A i \in Calls \ Owned(e) : found[e][i] = Missing
      /\ prepared[e] \in Seq(Seq(Admitted(e))) /\ DOMAIN outcomes[e] = 1 .. n
      /\ \A p, q \in 1 .. n : p # q => ToSet(prepared[e][p]) \cap ToSet(prepared[e][q]) = {}
      /\ Proper(e, batches[e]) /\ Preparing(e)
  BY <1>1 DEF ExecutorInv
<1>4. /\ Len(batches[e]) \in Nat /\ DOMAIN batches[e] = 1 .. Len(batches[e])
      /\ seen[e] + 1 \in DOMAIN batches[e]
      /\ \A x, y \in DOMAIN batches[e] : x # y => ToSet(batches[e][x]) \cap ToSet(batches[e][y]) = {}
  <2>1. /\ Len(batches[e]) \in Nat /\ DOMAIN batches[e] = 1 .. Len(batches[e])
        /\ \A x, y \in DOMAIN batches[e] : x # y => ToSet(batches[e][x]) \cap ToSet(batches[e][y]) = {}
    BY <1>3, BatchesCarry
  <2>2. seen[e] + 1 \in 1 .. Len(batches[e])
    BY <1>1, <2>1
  <2> QED BY <2>1, <2>2
<1>5. /\ request \in Seq(Admitted(e)) /\ Len(request) \in 1 .. batchSize
      /\ ToSet(request) \subseteq Owned(e)
      /\ \A i, j \in ToSet(request) : calls[i].key = calls[j].key
  <2>1. \A x \in DOMAIN batches[e] :
           /\ batches[e][x] \in Seq(Admitted(e)) /\ Len(batches[e][x]) \in 1 .. batchSize
           /\ ToSet(batches[e][x]) \subseteq Owned(e)
           /\ \A i, j \in ToSet(batches[e][x]) : calls[i].key = calls[j].key
    BY <1>3, BatchesCarry
  <2> QED BY <1>4, <2>1
<1>6. Proper(e, batches[e])'
  BY <1>1, <1>2, <1>3 DEF Proper
<1>7. /\ \A p \in 1 .. n : \E x \in 1 .. seen[e] : prepared[e][p] = batches[e][x]
      /\ \A p \in 1 .. n : \A i \in ToSet(prepared[e][p]) : Waits(e, i)
      /\ \A x \in seen[e] + 1 .. Len(batches[e]) : \A i \in ToSet(batches[e][x]) : Waits(e, i)
      /\ outcomes[e] \in Seq({Unsent}) /\ n \in Nat
  <2>1. n \in Nat
    BY RequestsAreApart
  <2> QED BY <1>3, <2>1 DEF Preparing
<1>8. \A p \in 1 .. n : ToSet(prepared[e][p]) \cap ToSet(request) = {}
  <2>1. ASSUME NEW p \in 1 .. n PROVE ToSet(prepared[e][p]) \cap ToSet(request) = {}
    <3>1. PICK x \in 1 .. seen[e] : prepared[e][p] = batches[e][x]
      BY <1>7
    <3>2. x \in DOMAIN batches[e] /\ x # seen[e] + 1
      BY <1>1, <1>4
    <3> QED BY <1>4, <3>1, <3>2
  <2> QED BY <2>1
<1>9. \A x \in seen[e] + 2 .. Len(batches[e]) :
        ToSet(batches[e][x]) \cap ToSet(request) = {} /\ x \in seen[e] + 1 .. Len(batches[e])
  <2>1. ASSUME NEW x \in seen[e] + 2 .. Len(batches[e])
        PROVE  ToSet(batches[e][x]) \cap ToSet(request) = {} /\ x \in seen[e] + 1 .. Len(batches[e])
    <3>1. x \in DOMAIN batches[e] /\ x # seen[e] + 1 /\ x \in seen[e] + 1 .. Len(batches[e])
      BY <1>1, <1>4
    <3> QED BY <1>4, <3>1
  <2> QED BY <2>1
<1>10. \A i \in ToSet(request) : Waits(e, i)
  <2>1. seen[e] + 1 \in seen[e] + 1 .. Len(batches[e])
    BY <1>1, <1>4
  <2> QED BY <1>7, <2>1
<1> HIDE DEF request
<1>11. CASE /\ prepared' = [prepared EXCEPT ![e] = Append(@, request)]
            /\ outcomes' = [outcomes EXCEPT ![e] = Append(@, Unsent)]
            /\ UNCHANGED <<stage, found, fate>>
  <2>1. /\ prepared'[e] = Append(prepared[e], request) /\ outcomes'[e] = Append(outcomes[e], Unsent)
        /\ stage'[e] = "prepare" /\ found'[e] = found[e] /\ fate' = fate
    BY <1>1, <1>11 DEF Typed
  <2>2. /\ prepared'[e] \in Seq(Seq(Admitted(e))) /\ Len(prepared'[e]) = n + 1
        /\ \A p \in 1 .. n : prepared'[e][p] = prepared[e][p]
        /\ prepared'[e][n + 1] = request
    BY <1>3, <1>5, <2>1
  <2>3. outcomes'[e] \in Seq({Unsent}) /\ DOMAIN outcomes'[e] = 1 .. n + 1
    <3>1. Len(outcomes[e]) = n
      BY <1>3, <1>7
    <3> QED BY <1>7, <2>1, <3>1
  <2>4. \A p \in 1 .. n + 1 : p \in 1 .. n \/ p = n + 1
    BY <1>7
  <2>5. \A p, q \in 1 .. n + 1 : p # q => ToSet(prepared'[e][p]) \cap ToSet(prepared'[e][q]) = {}
    <3>1. ASSUME NEW p \in 1 .. n + 1, NEW q \in 1 .. n + 1, p # q
          PROVE  ToSet(prepared'[e][p]) \cap ToSet(prepared'[e][q]) = {}
      <4>1. CASE p \in 1 .. n /\ q \in 1 .. n
        BY <1>3, <2>2, <3>1, <4>1
      <4>2. CASE p \in 1 .. n /\ q = n + 1
        BY <1>8, <2>2, <4>2
      <4>3. CASE p = n + 1 /\ q \in 1 .. n
        BY <1>8, <2>2, <4>3
      <4> QED BY <2>4, <3>1, <4>1, <4>2, <4>3
    <3> QED BY <3>1
  <2>6. \A i : /\ Waits(e, i)' <=> Waits(e, i)
               /\ Kept(e, i, found[e][i]) => Kept(e, i, found[e][i])'
               /\ Carried(e, i) => Carried(e, i)'
    <3>1. \A i : Waits(e, i)' <=> Waits(e, i)
      BY <2>1 DEF Waits, Missing
    <3>2. \A i : Kept(e, i, found[e][i]) => Kept(e, i, found[e][i])'
      BY <1>1, <2>1, KeptStays
    <3>3. \A i : Carried(e, i) => Carried(e, i)'
      BY <1>7, <2>2 DEF Carried
    <3> QED BY <3>1, <3>2, <3>3
  <2>7. Preparing(e)'
    <3>1. seen'[e] \in 0 .. Len(batches'[e])
      BY <1>1, <1>4
    <3>2. ASSUME NEW p \in 1 .. n + 1
          PROVE  /\ \E x \in 1 .. seen[e] + 1 : prepared'[e][p] = batches[e][x]
                 /\ \A i \in ToSet(prepared'[e][p]) : Waits(e, i)'
      <4>1. CASE p \in 1 .. n
        <5>1. prepared'[e][p] = prepared[e][p]
          BY <2>2, <4>1
        <5>2. \E x \in 1 .. seen[e] + 1 : prepared[e][p] = batches[e][x]
          <6>1. PICK x \in 1 .. seen[e] : prepared[e][p] = batches[e][x]
            BY <1>7, <4>1, Zenon
          <6>2. x \in 1 .. seen[e] + 1
            BY <1>1
          <6> QED BY <6>1, <6>2, Zenon
        <5> QED BY <1>7, <2>6, <4>1, <5>1, <5>2, Zenon
      <4>2. CASE p = n + 1
        <5>1. seen[e] + 1 \in 1 .. seen[e] + 1
          BY <1>1
        <5> QED BY <1>10, <2>2, <2>6, <4>2, <5>1 DEF request
      <4> QED BY <2>4, <4>1, <4>2
    <3>3. \A x \in seen[e] + 2 .. Len(batches[e]) : \A i \in ToSet(batches[e][x]) : Waits(e, i)'
      BY <1>7, <1>9, <2>6
    <3>4. ASSUME NEW i \in Owned(e)
          PROVE  \/ Kept(e, i, found[e][i])' \/ Carried(e, i)'
                 \/ \E x \in seen[e] + 2 .. Len(batches[e]) : i \in ToSet(batches[e][x])
      <4>1. CASE Kept(e, i, found[e][i]) \/ Carried(e, i)
        BY <2>6, <4>1
      <4>2. CASE i \in ToSet(request)
        <5>1. n + 1 \in 1 .. n + 1
          BY <1>7
        <5> QED BY <2>2, <4>2, <5>1 DEF Carried
      <4>3. CASE \E x \in seen[e] + 2 .. Len(batches[e]) : i \in ToSet(batches[e][x])
        BY <4>3
      <4>4. \A x \in seen[e] + 1 .. Len(batches[e]) : x = seen[e] + 1 \/ x \in seen[e] + 2 .. Len(batches[e])
        BY <1>1, <1>4
      <4> QED BY <1>3, <4>1, <4>2, <4>3, <4>4 DEF Preparing, request
    <3>5. seen'[e] + 1 = seen[e] + 2
      BY <1>1
    <3> QED BY <1>1, <1>2, <2>2, <2>3, <3>1, <3>2, <3>3, <3>4, <3>5 DEF Preparing, Unsent
  <2> QED BY <1>2, <1>3, <1>6, <2>1, <2>2, <2>3, <2>5, <2>7 DEF ExecutorInv, Ended, Missing
<1>12. CASE /\ Befalls("failed", ToSet(request))
            /\ IF keep THEN Spoil(e, ToSet(request)) /\ UNCHANGED stage
               ELSE Goes(e, "failed") /\ UNCHANGED found
            /\ UNCHANGED <<prepared, outcomes>>
  <2>1. /\ prepared'[e] = prepared[e] /\ outcomes'[e] = outcomes[e]
        /\ \A i \in Calls : fate'[i] = IF i \in ToSet(request) THEN "failed" ELSE fate[i]
    BY <1>12 DEF Befalls
  <2>2. \A i : Carried(e, i)' <=> Carried(e, i)
    BY <2>1 DEF Carried
  <2>3. CASE keep
    <3>1. /\ stage'[e] = "prepare"
          /\ \A i \in Calls :
                found'[e][i] = IF i \in ToSet(request) THEN Error(ToSet(request)) ELSE found[e][i]
      BY <1>1, <1>12, <2>3 DEF Spoil, Typed
    <3>2. \A i \in Calls \ Owned(e) : found'[e][i] = Missing
      BY <1>3, <1>5, <3>1
    <3>3. \A i \in Owned(e) : i \notin ToSet(request) /\ Waits(e, i) => Waits(e, i)'
      BY <1>2, <2>1, <3>1 DEF Waits, Missing
    <3>4. /\ \A i : Kept(e, i, found[e][i]) => KeptNow(e, i, found[e][i])
          /\ \A i : Kept(e, i, found[e][i])' <=> KeptNow(e, i, found'[e][i])
      BY <1>1, <1>2, <2>1, KeptStays
    <3>5. ASSUME NEW i \in ToSet(request) PROVE Kept(e, i, found[e][i])'
      <4>1. i \in Calls /\ found'[e][i] = Error(ToSet(request)) /\ fate'[i] = "failed"
        BY <1>2, <1>5, <2>1, <3>1
      <4>2. \A j \in ToSet(request) : calls[j].key = calls[i].key /\ fate'[j] = "failed"
        BY <1>2, <1>5, <2>1
      <4>3. KeptNow(e, i, Error(ToSet(request)))
        BY <1>5, <2>3, <4>1, <4>2 DEF KeptNow
      <4> QED BY <3>4, <4>1, <4>3
    <3>6. Preparing(e)'
      <4>1. seen'[e] \in 0 .. Len(batches'[e])
        BY <1>1, <1>4
      <4>2. ASSUME NEW p \in 1 .. n
            PROVE  /\ \E x \in 1 .. seen[e] + 1 : prepared[e][p] = batches[e][x]
                   /\ \A i \in ToSet(prepared[e][p]) : Waits(e, i)'
        <5>1. \E x \in 1 .. seen[e] + 1 : prepared[e][p] = batches[e][x]
          BY <1>1, <1>7
        <5>2. ToSet(prepared[e][p]) \subseteq Owned(e)
          BY <1>3, RequestsCarry
        <5> QED BY <1>7, <1>8, <3>3, <5>1, <5>2
      <4>3. ASSUME NEW x \in seen[e] + 2 .. Len(batches[e]), NEW i \in ToSet(batches[e][x])
            PROVE  Waits(e, i)'
        <5>1. x \in DOMAIN batches[e]
          BY <1>1, <1>4
        <5>2. ToSet(batches[e][x]) \subseteq Owned(e)
          BY <1>3, <5>1, BatchesCarry
        <5> QED BY <1>7, <1>9, <3>3, <5>2
      <4>4. ASSUME NEW i \in Owned(e)
            PROVE  \/ Kept(e, i, found[e][i])' \/ Carried(e, i)'
                   \/ \E x \in seen[e] + 2 .. Len(batches[e]) : i \in ToSet(batches[e][x])
        <5>1. CASE i \in ToSet(request)
          BY <3>5, <5>1
        <5>2. CASE i \notin ToSet(request) /\ Kept(e, i, found[e][i])
          <6>1. found'[e][i] = found[e][i]
            BY <1>2, <3>1, <5>2
          <6> QED BY <3>4, <5>2, <6>1
        <5>3. CASE Carried(e, i)
          BY <2>2, <5>3
        <5>4. CASE \E x \in seen[e] + 2 .. Len(batches[e]) : i \in ToSet(batches[e][x])
          BY <5>4
        <5>5. \A x \in seen[e] + 1 .. Len(batches[e]) : x = seen[e] + 1 \/ x \in seen[e] + 2 .. Len(batches[e])
          BY <1>1, <1>4
        <5> QED BY <1>3, <5>1, <5>2, <5>3, <5>4, <5>5 DEF Preparing, request
      <4>5. seen'[e] + 1 = seen[e] + 2
        BY <1>1
      <4> QED BY <1>1, <1>2, <1>7, <2>1, <4>1, <4>2, <4>3, <4>4, <4>5 DEF Preparing, Unsent
    <3> QED BY <1>2, <1>3, <1>6, <2>1, <3>1, <3>2, <3>6 DEF ExecutorInv, Ended, Missing
  <2>4. CASE ~keep
    <3>1. stage'[e] = "failed" /\ found' = found
      BY <1>12, <2>4 DEF Goes, Typed
    <3>2. \E i \in Owned(e) : fate'[i] = "failed"
      <4>1. 1 \in DOMAIN request
        BY <1>5
      <4>2. request[1] \in ToSet(request)
        BY <4>1 DEF ToSet
      <4> QED BY <1>2, <1>5, <2>1, <4>2
    <3>3. Positions(e, Sent)' = {}
      <4>1. \A p \in 1 .. n : outcomes[e][p] = Unsent
        BY <1>3, <1>7
      <4> QED BY <2>1, <4>1, TagsDiffer DEF Positions, Sent, Unsent
    <3> QED BY <1>2, <1>3, <2>1, <2>4, <3>1, <3>2, <3>3 DEF ExecutorInv, Ended, Missing
  <2> QED BY <1>1, <2>3, <2>4
<1> QED BY <1>11, <1>12 DEF Prepare, request

LEMMA PreparedKeeps ==
    ASSUME Typed, NEW e \in Executors, ExecutorInv(e), Prepared(e)
    PROVE  ExecutorInv(e)'
<1> DEFINE n == Len(prepared[e])
<1>1. /\ UNCHANGED <<askedVars, batches, seen, prepared, outcomes, found, fate>>
      /\ stage[e] = "prepare" /\ seen[e] = Len(batches[e])
  BY DEF Prepared
<1>2. /\ Calls' = Calls /\ Owned(e)' = Owned(e) /\ Admitted(e)' = Admitted(e)
      /\ Owned(e) \subseteq Calls
      /\ calls' = calls /\ batchSize' = batchSize /\ keep' = keep
  BY <1>1, AskedStays
<1>3. /\ \A i \in Calls \ Owned(e) : found[e][i] = Missing
      /\ prepared[e] \in Seq(Seq(Admitted(e))) /\ DOMAIN outcomes[e] = 1 .. n /\ n \in Nat
      /\ \A p, q \in 1 .. n : p # q => ToSet(prepared[e][p]) \cap ToSet(prepared[e][q]) = {}
      /\ Proper(e, batches[e]) /\ Preparing(e)
  BY <1>1, RequestsAreApart
<1>4. /\ Len(batches[e]) \in Nat /\ DOMAIN batches[e] = 1 .. Len(batches[e])
  BY <1>3, BatchesCarry
<1>5. /\ \A p \in 1 .. n : \E x \in DOMAIN batches[e] : prepared[e][p] = batches[e][x]
      /\ \A p \in 1 .. n : \A i \in ToSet(prepared[e][p]) : Waits(e, i)
      /\ \A p \in 1 .. n : outcomes[e][p] = Unsent
  <2>1. 1 .. seen[e] = DOMAIN batches[e]
    BY <1>1, <1>4
  <2>2. \A p \in 1 .. n : outcomes[e][p] = Unsent
    BY <1>3 DEF Preparing
  <2> QED BY <1>3, <2>1, <2>2 DEF Preparing
<1>6. \A i \in Owned(e) : Kept(e, i, found[e][i]) \/ Carried(e, i)
  <2>1. seen[e] + 1 .. Len(batches[e]) = {}
    BY <1>1, <1>4
  <2> QED BY <1>3, <2>1 DEF Preparing
<1>7. Positions(e, Sent)' = {}
  BY <1>1, <1>5, TagsDiffer DEF Positions, Sent, Unsent
<1>8. /\ \A i : Kept(e, i, found[e][i]) => KeptNow(e, i, found[e][i])
      /\ \A i : Kept(e, i, found[e][i])' <=> KeptNow(e, i, found'[e][i])
      /\ \A i : Kept(e, i, results[i])' <=> KeptNow(e, i, results'[i])
      /\ \A i, what : KeptNow(e, i, what) => what # Missing
  BY <1>1, KeptStays
<1>9. CASE prepared[e] = <<>>
  <2>1. Scatter(e) /\ n = 0
    BY <1>9 DEF Prepared
  <2>2. /\ stage'[e] = "done"
        /\ \A i \in Calls : results'[i] = IF found'[e][i] # Missing THEN found'[e][i] ELSE results[i]
    BY <2>1 DEF Scatter, Goes, Typed
  <2>3. ASSUME NEW i \in Owned(e) PROVE Settled(e, i, results[i])'
    <3>1. Kept(e, i, found[e][i])
      BY <1>6, <2>1 DEF Carried
    <3>2. KeptNow(e, i, found[e][i]) /\ found[e][i] # Missing /\ i \in Calls
      BY <1>2, <1>8, <3>1
    <3>3. results'[i] = found[e][i]
      BY <1>1, <2>2, <3>2
    <3> QED BY <1>8, <3>2, <3>3 DEF Settled
  <2> QED BY <1>1, <1>2, <1>3, <1>7, <2>2, <2>3 DEF ExecutorInv, Ended, Missing
<1>10. CASE prepared[e] # <<>>
  <2>1. stage'[e] = "send"
    BY <1>1, <1>10 DEF Prepared, Goes, Typed
  <2>2. Proper(e, batches[e])'
    BY <1>1, <1>2, <1>3 DEF Proper
  <2>3. Sending(e)'
    <3>1. ASSUME NEW p \in 1 .. n PROVE Matches(prepared[e][p], outcomes[e][p])'
      <4>1. \A k \in DOMAIN prepared[e][p] : prepared[e][p][k] \in ToSet(prepared[e][p])
        BY <1>3, RequestsCarry
      <4>2. \A k \in DOMAIN prepared[e][p] : fate'[prepared[e][p][k]] = "none"
        BY <1>1, <1>5, <4>1 DEF Waits
      <4> QED BY <1>1, <1>5, <4>2 DEF Matches, Unsent, Sent
    <3>2. ASSUME NEW i \in Owned(e)
          PROVE  Kept(e, i, found[e][i])' \/ (found'[e][i] = Missing /\ Carried(e, i)')
      <4>1. CASE Kept(e, i, found[e][i])
        BY <1>1, <1>8, <4>1
      <4>2. CASE Carried(e, i)
        BY <1>1, <1>5, <4>2 DEF Carried, Waits
      <4> QED BY <1>6, <4>1, <4>2
    <3>3. Cardinality(Positions(e, Sent)') <= MaxConcurrency
      BY <1>7, FS_EmptySet, BatchAssumption
    <3> QED BY <1>1, <1>2, <1>5, <3>1, <3>2, <3>3 DEF Sending, Missing
  <2> QED BY <1>1, <1>2, <1>3, <2>1, <2>2, <2>3 DEF ExecutorInv, Ended, Missing
<1> QED BY <1>9, <1>10

LEMMA SendKeeps ==
    ASSUME Typed, NEW e \in Executors, ExecutorInv(e), Send(e)
    PROVE  ExecutorInv(e)'
<1> DEFINE n == Len(prepared[e])
           q == Min(Positions(e, Unsent))
<1>1. /\ UNCHANGED <<askedVars, stage, batches, seen, prepared, found, results, gather, fate>>
      /\ stage[e] = "send" /\ Positions(e, Unsent) # {}
      /\ Cardinality(Positions(e, Sent)) < MaxConcurrency
      /\ outcomes'[e] = [outcomes[e] EXCEPT ![q] = Sent]
  BY DEF Send, Typed
<1>2. /\ Calls' = Calls /\ Owned(e)' = Owned(e) /\ Admitted(e)' = Admitted(e)
      /\ Owned(e) \subseteq Calls
      /\ calls' = calls /\ batchSize' = batchSize /\ keep' = keep
  BY <1>1, AskedStays
<1>3. /\ \A i \in Calls \ Owned(e) : found[e][i] = Missing
      /\ prepared[e] \in Seq(Seq(Admitted(e))) /\ DOMAIN outcomes[e] = 1 .. n /\ n \in Nat
      /\ \A p, r \in 1 .. n : p # r => ToSet(prepared[e][p]) \cap ToSet(prepared[e][r]) = {}
      /\ Proper(e, batches[e]) /\ Sending(e)
  BY <1>1, RequestsAreApart
<1>4. q \in 1 .. n /\ outcomes[e][q] = Unsent
  <2>1. Positions(e, Unsent) \in SUBSET (1 .. n)
    BY DEF Positions
  <2>2. q \in Positions(e, Unsent)
    BY <1>1, <1>3, <2>1, LeastExists
  <2> QED BY <2>2 DEF Positions
<1> HIDE DEF q
<1>5. /\ DOMAIN outcomes'[e] = 1 .. n /\ outcomes'[e][q] = Sent
      /\ \A p \in 1 .. n : p # q => outcomes'[e][p] = outcomes[e][p]
  BY <1>1, <1>3, <1>4
<1>6. Positions(e, Sent)' = Positions(e, Sent) \cup {q}
  BY <1>1, <1>4, <1>5 DEF Positions, Sent
<1>7. Cardinality(Positions(e, Sent)') <= MaxConcurrency
  <2>1. IsFiniteSet(Positions(e, Sent))
    BY <1>3, PositionsAreFew
  <2>2. q \notin Positions(e, Sent)
    BY <1>4, TagsDiffer DEF Positions
  <2>3. Cardinality(Positions(e, Sent) \cup {q}) = Cardinality(Positions(e, Sent)) + 1
    BY <2>1, <2>2, FS_AddElement
  <2>4. Cardinality(Positions(e, Sent)) \in Nat /\ MaxConcurrency \in Nat
    BY <2>1, FS_CardinalityType, BatchAssumption
  <2> QED BY <1>1, <1>6, <2>3, <2>4
<1>8. Proper(e, batches[e])'
  BY <1>1, <1>2, <1>3 DEF Proper
<1>9. /\ \A i : Kept(e, i, found[e][i]) => KeptNow(e, i, found[e][i])
      /\ \A i : Kept(e, i, found[e][i])' <=> KeptNow(e, i, found'[e][i])
  BY <1>1, KeptStays
<1>10. Sending(e)'
  <2>1. ASSUME NEW p \in 1 .. n PROVE Matches(prepared[e][p], outcomes[e][p])'
    <3>1. Matches(prepared[e][p], outcomes[e][p])
      BY <1>3 DEF Sending
    <3>2. CASE p # q
      BY <1>1, <1>5, <3>1, <3>2, MatchesStays
    <3>3. CASE p = q
      <4>1. \A k \in DOMAIN prepared[e][p] : fate[prepared[e][p][k]] = "none"
        BY <1>4, <3>1, <3>3, TagsDiffer DEF Matches
      <4> QED BY <1>1, <1>5, <3>3, <4>1 DEF Matches, Unsent, Sent
    <3> QED BY <3>2, <3>3
  <2>2. ASSUME NEW i \in Owned(e)
        PROVE  Kept(e, i, found[e][i])' \/ (found'[e][i] = Missing /\ Carried(e, i)')
    <3>1. Carried(e, i)' <=> Carried(e, i)
      BY <1>1 DEF Carried
    <3> QED BY <1>1, <1>3, <1>9, <3>1 DEF Sending
  <2> QED BY <1>1, <1>2, <1>3, <1>7, <2>1, <2>2 DEF Sending, Missing
<1>11. /\ stage'[e] = "send" /\ prepared'[e] = prepared[e] /\ found'[e] = found[e]
       /\ DOMAIN outcomes'[e] = 1 .. n
  BY <1>1, <1>5
<1> QED BY <1>2, <1>3, <1>8, <1>10, <1>11 DEF ExecutorInv, Ended, Missing

\* The calls of a request that is under way wait.
LEMMA UnderWayWaits ==
    ASSUME NEW e, ExecutorInv(e), stage[e] = "send",
           NEW p \in 1 .. Len(prepared[e]), outcomes[e][p] = Sent
    PROVE  /\ \A i \in ToSet(prepared[e][p]) : fate[i] = "none" /\ i \in Owned(e)
           /\ \E i \in Owned(e) : i \in ToSet(prepared[e][p])
           /\ \A q \in 1 .. Len(prepared[e]) : \A k \in DOMAIN prepared[e][q] :
                 q # p => /\ prepared[e][q][k] \notin ToSet(prepared[e][p])
                          /\ prepared[e][q][k] \in Owned(e)
<1>1. /\ prepared[e] \in Seq(Seq(Admitted(e)))
      /\ \A q, r \in 1 .. Len(prepared[e]) :
            q # r => ToSet(prepared[e][q]) \cap ToSet(prepared[e][r]) = {}
      /\ Proper(e, batches[e]) /\ Sending(e)
  BY RequestsAreApart
<1>2. \A k \in DOMAIN prepared[e][p] : fate[prepared[e][p][k]] = "none"
  BY <1>1, TagsDiffer DEF Sending, Matches
<1>3. ASSUME NEW i \in ToSet(prepared[e][p]) PROVE fate[i] = "none" /\ i \in Owned(e)
  <2>1. /\ \E k \in DOMAIN prepared[e][p] : prepared[e][p][k] = i
        /\ ToSet(prepared[e][p]) \subseteq Owned(e)
    BY <1>1, RequestsCarry
  <2> QED BY <1>2, <2>1
<1>4. \E i \in Owned(e) : i \in ToSet(prepared[e][p])
  <2>1. PICK x \in DOMAIN batches[e] : prepared[e][p] = batches[e][x]
    BY <1>1 DEF Sending
  <2>2. prepared[e][p] \in Seq(Admitted(e)) /\ Len(prepared[e][p]) \in 1 .. batchSize
    BY <1>1, <2>1, BatchesCarry
  <2>3. 1 \in DOMAIN prepared[e][p]
    BY <2>2
  <2>4. prepared[e][p][1] \in ToSet(prepared[e][p])
    BY <2>3 DEF ToSet
  <2> QED BY <1>3, <2>4
<1>5. ASSUME NEW q \in 1 .. Len(prepared[e]), NEW k \in DOMAIN prepared[e][q], q # p
      PROVE  prepared[e][q][k] \notin ToSet(prepared[e][p]) /\ prepared[e][q][k] \in Owned(e)
  <2>1. /\ prepared[e][q][k] \in ToSet(prepared[e][q]) /\ ToSet(prepared[e][q]) \subseteq Admitted(e)
        /\ Admitted(e) \subseteq Owned(e)
    BY <1>1, RequestsCarry
  <2>2. ToSet(prepared[e][q]) \cap ToSet(prepared[e][p]) = {}
    BY <1>1, <1>5
  <2> QED BY <2>1, <2>2
<1> QED BY <1>3, <1>4, <1>5

\* A request that was under way has its outcome, the executor goes on.
LEMMA AnswerKeeps ==
    ASSUME NEW e \in Executors, ExecutorInv(e), stage[e] = "send",
           NEW p \in 1 .. Len(prepared[e]), outcomes[e][p] = Sent,
           UNCHANGED <<askedVars, stage, batches, seen, prepared, found, results, gather>>,
           NEW o, o # Sent, outcomes'[e] = [outcomes[e] EXCEPT ![p] = o],
           \A i \in Calls : i \notin ToSet(prepared[e][p]) => fate'[i] = fate[i],
           Matches(prepared[e][p], outcomes[e][p])'
    PROVE  ExecutorInv(e)'
<1> DEFINE n == Len(prepared[e])
<1>1. /\ Calls' = Calls /\ Owned(e)' = Owned(e) /\ Admitted(e)' = Admitted(e)
      /\ Owned(e) \subseteq Calls
      /\ calls' = calls /\ batchSize' = batchSize /\ keep' = keep
  BY AskedStays
<1>2. /\ \A i \in Calls \ Owned(e) : found[e][i] = Missing
      /\ prepared[e] \in Seq(Seq(Admitted(e))) /\ DOMAIN outcomes[e] = 1 .. n /\ n \in Nat
      /\ \A q, r \in 1 .. n : q # r => ToSet(prepared[e][q]) \cap ToSet(prepared[e][r]) = {}
      /\ Proper(e, batches[e]) /\ Sending(e)
  BY RequestsAreApart
<1>3. /\ DOMAIN outcomes'[e] = 1 .. n /\ outcomes'[e][p] = o
      /\ \A q \in 1 .. n : q # p => outcomes'[e][q] = outcomes[e][q]
  BY <1>2
<1>4. \A j \in Owned(e) : fate[j] = "failed" => fate'[j] = "failed"
  BY <1>1, UnderWayWaits
<1>5. /\ \A i : Kept(e, i, found[e][i]) => KeptNow(e, i, found[e][i])
      /\ \A i : Kept(e, i, found[e][i])' <=> KeptNow(e, i, found'[e][i])
  BY <1>4, KeptStays
<1>6. Proper(e, batches[e])'
  BY <1>1, <1>2 DEF Proper
<1>7. Cardinality(Positions(e, Sent)') <= MaxConcurrency
  <2>1. Positions(e, Sent)' \in SUBSET Positions(e, Sent)
    <3>1. ASSUME NEW q \in 1 .. n, outcomes'[e][q] = Sent PROVE outcomes[e][q] = Sent
      BY <1>3, <3>1
    <3> QED BY <3>1 DEF Positions, Sent
  <2>2. IsFiniteSet(Positions(e, Sent))
    BY <1>2, PositionsAreFew
  <2>3. /\ Cardinality(Positions(e, Sent)') <= Cardinality(Positions(e, Sent))
        /\ IsFiniteSet(Positions(e, Sent)')
    BY <2>1, <2>2, FS_Subset
  <2>4. /\ Cardinality(Positions(e, Sent)') \in Nat /\ Cardinality(Positions(e, Sent)) \in Nat
        /\ Cardinality(Positions(e, Sent)) <= MaxConcurrency /\ MaxConcurrency \in Nat
    BY <1>2, <2>2, <2>3, FS_CardinalityType, BatchAssumption DEF Sending
  <2> QED BY <2>3, <2>4
<1>8. Sending(e)'
  <2>1. ASSUME NEW q \in 1 .. n PROVE Matches(prepared[e][q], outcomes[e][q])'
    <3>1. Matches(prepared[e][q], outcomes[e][q])
      BY <1>2 DEF Sending
    <3>2. CASE q # p
      <4>1. \A k \in DOMAIN prepared[e][q] : fate'[prepared[e][q][k]] = fate[prepared[e][q][k]]
        <5>1. \A k \in DOMAIN prepared[e][q] : /\ prepared[e][q][k] \notin ToSet(prepared[e][p])
                                               /\ prepared[e][q][k] \in Owned(e)
          BY <3>2, UnderWayWaits
        <5> QED BY <1>1, <5>1
      <4>2. prepared'[e] = prepared[e] /\ outcomes'[e][q] = outcomes[e][q]
        BY <1>3, <3>2
      <4> QED BY <3>1, <4>1, <4>2, MatchesStays
    <3> QED BY <3>2
  <2>2. ASSUME NEW i \in Owned(e)
        PROVE  Kept(e, i, found[e][i])' \/ (found'[e][i] = Missing /\ Carried(e, i)')
    <3>1. Carried(e, i)' <=> Carried(e, i)
      BY DEF Carried
    <3> QED BY <1>2, <1>5, <3>1 DEF Sending
  <2> QED BY <1>1, <1>2, <1>7, <2>1, <2>2 DEF Sending, Missing
<1> QED BY <1>1, <1>2, <1>3, <1>6, <1>8 DEF ExecutorInv, Ended, Missing

LEMMA RespondKeeps ==
    ASSUME Typed, NEW e \in Executors, ExecutorInv(e), NEW p \in 1 .. Len(prepared[e]), Respond(e, p)
    PROVE  ExecutorInv(e)'
<1> DEFINE request == prepared[e][p]
<1>1. /\ UNCHANGED <<askedVars, stage, batches, seen, prepared, found, results, gather>>
      /\ stage[e] = "send" /\ outcomes[e][p] = Sent
  BY DEF Respond
<1>2. /\ \A k \in DOMAIN request : request[k] \in ToSet(request)
      /\ ToSet(request) \subseteq Calls /\ DOMAIN request = 1 .. Len(request)
      /\ p \in DOMAIN outcomes[e]
  BY RequestsAreApart, RequestsCarry
<1>3. CASE /\ outcomes' = [outcomes EXCEPT ![e][p] = Unusable]
           /\ Befalls("failed", ToSet(request))
  <2>1. /\ outcomes'[e] = [outcomes[e] EXCEPT ![p] = Unusable]
        /\ \A i \in Calls : fate'[i] = IF i \in ToSet(request) THEN "failed" ELSE fate[i]
    BY <1>3 DEF Befalls, Typed
  <2>2. \A k \in DOMAIN request : fate'[request[k]] = "failed"
    BY <1>2, <2>1
  <2>3. outcomes'[e][p] = Unusable
    BY <1>2, <2>1
  <2>4. Matches(prepared[e][p], outcomes[e][p])'
    BY <1>1, <2>2, <2>3 DEF Matches, Unusable
  <2> QED BY <1>1, <2>1, <2>4, AnswerKeeps, TagsDiffer
<1>4. ASSUME NEW good \in SUBSET ToSet(request),
             outcomes' = [outcomes EXCEPT ![e][p] =
                 Items([k \in 1 .. Len(request) |->
                     IF request[k] \in good THEN Value(request[k]) ELSE Error({request[k]})])],
             fate' = [i \in Calls |-> IF i \in good THEN "answered"
                                      ELSE IF i \in ToSet(request) THEN "failed" ELSE fate[i]]
      PROVE  ExecutorInv(e)'
  <2> DEFINE items == [k \in 1 .. Len(request) |->
                          IF request[k] \in good THEN Value(request[k]) ELSE Error({request[k]})]
  <2>1. outcomes'[e] = [outcomes[e] EXCEPT ![p] = Items(items)]
    BY <1>4 DEF Typed
  <2>2. outcomes'[e][p] = Items(items)
    BY <1>2, <2>1
  <2>3. ASSUME NEW k \in DOMAIN request
        PROVE  \/ items[k] = Value(request[k]) /\ fate'[request[k]] = "answered"
               \/ items[k] = Error({request[k]}) /\ fate'[request[k]] = "failed"
    BY <1>2, <1>4
  <2>4. \A i \in Calls : i \notin ToSet(request) => fate'[i] = fate[i]
    BY <1>4
  <2> HIDE DEF items
  <2>5. Matches(prepared[e][p], outcomes[e][p])'
    <3>1. outcomes'[e][p] = Items(outcomes'[e][p][2]) /\ outcomes'[e][p][2] = items
      BY <2>2, TagsDiffer
    <3> QED BY <1>1, <2>3, <3>1 DEF Matches, Items, Value, Error
  <2> QED BY <1>1, <2>1, <2>4, <2>5, AnswerKeeps, TagsDiffer
<1> QED BY <1>3, <1>4 DEF Respond

LEMMA SendFailsKeeps ==
    ASSUME Typed, NEW e \in Executors, ExecutorInv(e),
           NEW p \in 1 .. Len(prepared[e]), SendFails(e, p)
    PROVE  ExecutorInv(e)'
<1> DEFINE n == Len(prepared[e])
           request == prepared[e][p]
<1>1. /\ UNCHANGED <<askedVars, batches, seen, prepared, found, results, gather>>
      /\ stage[e] = "send" /\ outcomes[e][p] = Sent
      /\ \A i \in Calls : fate'[i] = IF i \in ToSet(request) THEN "failed" ELSE fate[i]
      /\ keep \in BOOLEAN
  BY DEF SendFails, Befalls, Typed
<1>2. /\ \A k \in DOMAIN request : request[k] \in ToSet(request)
      /\ ToSet(request) \subseteq Calls
      /\ DOMAIN outcomes[e] = 1 .. n
  BY RequestsAreApart, RequestsCarry
<1>3. CASE keep
  <2>1. outcomes'[e] = [outcomes[e] EXCEPT ![p] = Unusable] /\ UNCHANGED stage
    BY <1>3 DEF SendFails, Typed
  <2>2. \A k \in DOMAIN request : fate'[request[k]] = "failed"
    BY <1>1, <1>2
  <2>3. outcomes'[e][p] = Unusable
    BY <1>2, <2>1
  <2>4. Matches(prepared[e][p], outcomes[e][p])'
    BY <1>1, <2>2, <2>3 DEF Matches, Unusable
  <2> QED BY <1>1, <2>1, <2>4, AnswerKeeps, TagsDiffer
<1>4. CASE ~keep
  <2>1. /\ stage'[e] = "failed"
        /\ outcomes'[e] = [q \in 1 .. n |-> IF outcomes[e][q] \in {Unsent, Sent} THEN Abandoned
                                            ELSE outcomes[e][q]]
    BY <1>2, <1>4 DEF SendFails, Goes, Abandon, Typed
  <2>2. /\ Calls' = Calls /\ Owned(e)' = Owned(e) /\ Admitted(e)' = Admitted(e)
        /\ Owned(e) \subseteq Calls
        /\ calls' = calls /\ batchSize' = batchSize /\ keep' = keep
    BY <1>1, AskedStays
  <2>3. /\ \A i \in Calls \ Owned(e) : found[e][i] = Missing
        /\ prepared[e] \in Seq(Seq(Admitted(e)))
        /\ \A q, r \in 1 .. n : q # r => ToSet(prepared[e][q]) \cap ToSet(prepared[e][r]) = {}
    BY RequestsAreApart
  <2>4. \E i \in Owned(e) : fate'[i] = "failed"
    BY <1>1, <2>2, UnderWayWaits
  <2>5. Positions(e, Sent)' = {}
    <3>1. \A q \in 1 .. n : outcomes'[e][q] # Sent
      BY <2>1, TagsDiffer
    <3>2. prepared'[e] = prepared[e]
      BY <1>1
    <3> QED BY <3>1, <3>2 DEF Positions, Sent
  <2>6. /\ stage'[e] = "failed" /\ DOMAIN outcomes'[e] = 1 .. n
        /\ prepared'[e] = prepared[e] /\ found'[e] = found[e]
    BY <1>1, <2>1
  <2> QED BY <1>4, <2>2, <2>3, <2>4, <2>5, <2>6 DEF ExecutorInv, Ended, Missing
<1> QED BY <1>1, <1>3, <1>4

LEMMA StopKeeps ==
    ASSUME Typed, NEW e \in Executors, ExecutorInv(e), Stop(e)
    PROVE  ExecutorInv(e)'
<1> DEFINE n == Len(prepared[e])
<1>1. /\ UNCHANGED <<askedVars, batches, seen, prepared, found, results, gather, fate>>
      /\ stage[e] \notin Ended /\ stage'[e] = "cancelled"
  BY DEF Stop, Goes, Typed
<1>2. /\ \A i \in Calls \ Owned(e) : found[e][i] = Missing
      /\ prepared[e] \in Seq(Seq(Admitted(e))) /\ DOMAIN outcomes[e] = 1 .. n
      /\ \A q, r \in 1 .. n : q # r => ToSet(prepared[e][q]) \cap ToSet(prepared[e][r]) = {}
  BY RequestsAreApart
<1>3. outcomes'[e] = [q \in 1 .. n |-> IF outcomes[e][q] \in {Unsent, Sent} THEN Abandoned
                                       ELSE outcomes[e][q]]
  BY <1>2 DEF Stop, Abandon, Typed
<1>4. Positions(e, Sent)' = {}
  BY <1>1, <1>3, TagsDiffer DEF Positions, Sent
<1>5. gather' = "cancelled" \/ \E other \in Executors : stage'[other] = "failed"
  <2>1. CASE gather = "cancelled"
    BY <1>1, <2>1
  <2>2. ASSUME NEW other \in Executors, stage[other] = "failed" PROVE stage'[other] = "failed"
    BY <1>1, <2>2 DEF Stop, Goes, Typed, Ended
  <2> QED BY <2>1, <2>2 DEF Stop
<1>6. /\ Calls' = Calls /\ Owned(e)' = Owned(e) /\ Admitted(e)' = Admitted(e)
      /\ calls' = calls /\ batchSize' = batchSize /\ keep' = keep
  BY <1>1, AskedStays
<1> QED BY <1>1, <1>2, <1>3, <1>4, <1>5, <1>6 DEF ExecutorInv, Ended, Missing

\* An answer to call i, or an error about a request of e that carried it.
Verdict(e, i, what) ==
    \/ fate[i] = "answered" /\ what = Value(i)
    \/ /\ fate[i] = "failed"
       /\ \E S \in SUBSET Owned(e) :
             /\ what = Error(S) /\ i \in S
             /\ \A j \in S : calls[j].key = calls[i].key /\ fate[j] = "failed"

LEMMA DecodedIsVerdict ==
    ASSUME NEW e, ExecutorInv(e), stage[e] = "send",
           NEW p \in 1 .. Len(prepared[e]), outcomes[e][p] \notin {Unsent, Sent},
           NEW i \in ToSet(prepared[e][p])
    PROVE  i \in Owned(e) /\ Verdict(e, i, Decoded(prepared[e][p], outcomes[e][p])[i])
<1> DEFINE request == prepared[e][p]
           reply == outcomes[e][p]
           place == CHOOSE k \in 1 .. Len(request) : request[k] = i
<1>1. /\ DOMAIN request = 1 .. Len(request)
      /\ \A j \in ToSet(request) : \E k \in DOMAIN request : request[k] = j
      /\ ToSet(request) \subseteq Owned(e)
  BY RequestsAreApart, RequestsCarry
<1>2. Decoded(request, reply)[i] = IF reply = Unusable THEN Error(ToSet(request)) ELSE reply[2][place]
  BY DEF Decoded
<1>3. Proper(e, batches[e]) /\ Sending(e)
  BY RequestsAreApart
<1>4. \A j, k \in ToSet(request) : calls[j].key = calls[k].key
  <2>1. PICK x \in DOMAIN batches[e] : request = batches[e][x]
    BY <1>3 DEF Sending
  <2> QED BY <1>3, <2>1, BatchesCarry
<1>5. Matches(request, reply)
  BY <1>3 DEF Sending
<1> HIDE DEF request, reply
<1>6. CASE reply = Unusable
  <2>1. \A k \in DOMAIN request : fate[request[k]] = "failed"
    BY <1>5, <1>6, TagsDiffer DEF Matches
  <2>2. \A j \in ToSet(request) : fate[j] = "failed"
    BY <1>1, <2>1
  <2>3. Verdict(e, i, Error(ToSet(request)))
    BY <1>1, <1>4, <2>2 DEF Verdict, request
  <2> QED BY <1>1, <1>2, <1>6, <2>3 DEF request, reply
<1>7. CASE reply # Unusable
  <2>1. \A k \in DOMAIN request :
           \/ reply[2][k] = Value(request[k]) /\ fate[request[k]] = "answered"
           \/ reply[2][k] = Error({request[k]}) /\ fate[request[k]] = "failed"
    BY <1>5, <1>7 DEF Matches, reply
  <2>2. place \in DOMAIN request /\ request[place] = i
    <3>1. \E k \in 1 .. Len(request) : request[k] = i
      BY <1>1 DEF request
    <3> QED BY <1>1, <3>1
  <2> HIDE DEF place
  <2>3. Verdict(e, i, reply[2][place])
    <3>1. i \in Owned(e)
      BY <1>1 DEF request
    <3>2. CASE reply[2][place] = Value(i) /\ fate[i] = "answered"
      BY <3>2 DEF Verdict
    <3>3. CASE reply[2][place] = Error({i}) /\ fate[i] = "failed"
      <4>1. {i} \in SUBSET Owned(e) /\ \A j \in {i} : calls[j].key = calls[i].key /\ fate[j] = "failed"
        BY <3>1, <3>3
      <4> QED BY <3>3, <4>1 DEF Verdict
    <3> QED BY <2>1, <2>2, <3>2, <3>3
  <2> QED BY <1>1, <1>2, <1>7, <2>3 DEF request, reply
<1> QED BY <1>6, <1>7

LEMMA DecodeKeeps ==
    ASSUME Typed, NEW e \in Executors, ExecutorInv(e), Decode(e)
    PROVE  ExecutorInv(e)'
<1> DEFINE n == Len(prepared[e])
           carrier(i) == {p \in 1 .. Len(prepared[e]) : i \in ToSet(prepared[e][p])}
           value(i) == LET p == CHOOSE p \in carrier(i) : TRUE
                       IN  Decoded(prepared[e][p], outcomes[e][p])[i]
           decoded == {i \in Calls : carrier(i) # {}}
<1>1. /\ UNCHANGED <<askedVars, batches, seen, prepared, outcomes, gather, fate>>
      /\ stage[e] = "send" /\ Positions(e, Unsent) \cup Positions(e, Sent) = {}
      /\ found' = [found EXCEPT ![e] = [i \in Calls |-> IF i \in decoded THEN value(i) ELSE @[i]]]
      /\ IF ~keep /\ \E i \in decoded : value(i) # Value(i)
         THEN Goes(e, "failed") /\ UNCHANGED results
         ELSE Scatter(e)
  BY DEF Decode
<1>2. /\ Calls' = Calls /\ Owned(e)' = Owned(e) /\ Admitted(e)' = Admitted(e)
      /\ Owned(e) \subseteq Calls
      /\ calls' = calls /\ batchSize' = batchSize /\ keep' = keep
  BY <1>1, AskedStays
<1>3. /\ \A i \in Calls \ Owned(e) : found[e][i] = Missing
      /\ prepared[e] \in Seq(Seq(Admitted(e))) /\ DOMAIN outcomes[e] = 1 .. n
      /\ \A p, q \in 1 .. n : p # q => ToSet(prepared[e][p]) \cap ToSet(prepared[e][q]) = {}
      /\ Sending(e)
  BY <1>1, RequestsAreApart
<1>4. ASSUME NEW i \in decoded PROVE i \in Owned(e) /\ Verdict(e, i, value(i))
  <2> DEFINE p == CHOOSE p \in carrier(i) : TRUE
  <2>1. p \in carrier(i)
    BY <1>4
  <2>2. value(i) = Decoded(prepared[e][p], outcomes[e][p])[i]
    OBVIOUS
  <2> HIDE DEF p, value
  <2>3. p \in 1 .. Len(prepared[e]) /\ i \in ToSet(prepared[e][p])
    BY <2>1
  <2>4. outcomes[e][p] \notin {Unsent, Sent}
    BY <1>1, <2>3 DEF Positions
  <2>5. stage[e] = "send"
    BY <1>1
  <2>6. i \in Owned(e) /\ Verdict(e, i, Decoded(prepared[e][p], outcomes[e][p])[i])
    BY <2>3, <2>4, <2>5, DecodedIsVerdict
  <2> QED BY <2>2, <2>6
<1>5. \A i \in Owned(e) : i \in decoded <=> Carried(e, i)
  BY <1>2 DEF Carried
<1>6. \A i \in Calls : found'[e][i] = IF i \in decoded THEN value(i) ELSE found[e][i]
  BY <1>1 DEF Typed
<1> HIDE DEF value, decoded, carrier
<1>7. \A i \in Calls \ Owned(e) : found'[e][i] = Missing
  BY <1>3, <1>4, <1>6
<1>8. Positions(e, Sent)' = {}
  BY <1>1 DEF Positions, Sent
<1>9. /\ \A i : Kept(e, i, found[e][i]) => KeptNow(e, i, found[e][i])
      /\ \A i : Kept(e, i, results[i])' <=> KeptNow(e, i, results'[i])
      /\ \A i, what : KeptNow(e, i, what) => what # Missing
  BY <1>1, KeptStays
<1>10. CASE ~keep /\ \E i \in decoded : value(i) # Value(i)
  <2>1. stage'[e] = "failed"
    BY <1>1, <1>10 DEF Goes, Typed
  <2>2. \E i \in Owned(e) : fate'[i] = "failed"
    BY <1>1, <1>4, <1>10 DEF Verdict
  <2> QED BY <1>1, <1>2, <1>3, <1>7, <1>8, <1>10, <2>1, <2>2 DEF ExecutorInv, Ended, Missing
<1>11. CASE keep \/ \A i \in decoded : value(i) = Value(i)
  <2>1. Scatter(e)
    BY <1>1, <1>11
  <2>2. /\ stage'[e] = "done"
        /\ \A i \in Calls : results'[i] = IF found'[e][i] # Missing THEN found'[e][i] ELSE results[i]
    BY <2>1 DEF Scatter, Goes, Typed
  <2>3. ASSUME NEW i \in Owned(e) PROVE Settled(e, i, results[i])'
    <3>1. CASE i \in decoded /\ fate[i] = "answered" /\ value(i) = Value(i)
      <4>1. results'[i] = Value(i)
        BY <1>2, <1>6, <2>2, <3>1, TagsDiffer
      <4> QED BY <1>1, <3>1, <4>1 DEF Settled, Value
    <3>2. CASE i \in decoded /\ ~(fate[i] = "answered" /\ value(i) = Value(i))
      <4>1. PICK S \in SUBSET Owned(e) :
              /\ value(i) = Error(S) /\ i \in S /\ fate[i] = "failed"
              /\ \A j \in S : calls[j].key = calls[i].key /\ fate[j] = "failed"
        BY <1>4, <3>2 DEF Verdict
      <4>2. keep
        BY <1>11, <3>2, <4>1, TagsDiffer
      <4>3. KeptNow(e, i, value(i))
        BY <1>1, <4>1, <4>2 DEF KeptNow
      <4>4. results'[i] = value(i)
        BY <1>2, <1>6, <2>2, <3>2, <4>1, TagsDiffer
      <4> QED BY <1>9, <4>3, <4>4 DEF Settled
    <3>3. CASE i \notin decoded
      <4>1. Kept(e, i, found[e][i])
        BY <1>3, <1>5, <3>3 DEF Sending
      <4>2. KeptNow(e, i, found[e][i]) /\ found[e][i] # Missing
        BY <1>9, <4>1
      <4>3. results'[i] = found[e][i]
        BY <1>2, <1>6, <2>2, <3>3, <4>2
      <4> QED BY <1>9, <4>2, <4>3 DEF Settled
    <3> QED BY <3>1, <3>2, <3>3
  <2> QED BY <1>1, <1>2, <1>3, <1>7, <1>8, <2>2, <2>3 DEF ExecutorInv, Ended, Missing
<1> QED BY <1>10, <1>11

-----------------------------------------------------------------------------
(* The invariant of gather, and what follows from it.                      *)

LEMMA StepKeeps ==
    ASSUME Typed, NEW e \in Executors, ExecutorInv(e), Step(e)
    PROVE  ExecutorInv(e)'
  BY CheckKeeps, PrepareKeeps, PreparedKeeps, SendKeeps, RespondKeeps, SendFailsKeeps, DecodeKeeps,
     StopKeeps DEF Step

LEMMA NextKeeps == BatchInv /\ [Next]_vars => BatchInv'
<1> SUFFICES ASSUME BatchInv, [Next]_vars PROVE BatchInv'
  OBVIOUS
<1>1. Typed /\ GatherInv /\ \A e \in Executors : ExecutorInv(e)
  BY DEF BatchInv
<1>2. ASSUME NEW e \in Executors, Step(e) PROVE BatchInv'
  <2>1. LocalTo(e) /\ Typed' /\ stage[e] \notin Ended
    BY <1>1, <1>2, StepIsLocal
  <2>2. EndsStay /\ \A f \in Executors \ {e} : Untouched(f)
    BY <2>1, OthersUntouched
  <2>3. \A f \in Executors \ {e} : ExecutorInv(f)'
    BY <1>1, <2>2, UntouchedKeeps
  <2>4. ExecutorInv(e)'
    BY <1>1, <1>2, StepKeeps
  <2>5. GatherInv'
    BY <1>1, <2>1 DEF GatherInv, LocalTo, Ended
  <2> QED BY <2>1, <2>3, <2>4, <2>5 DEF BatchInv
<1>3. CASE Return \/ Cancel \/ UNCHANGED vars
  <2>1. /\ UNCHANGED <<askedVars, stage, batches, seen, prepared, outcomes, found, results, fate>>
        /\ gather = "cancelled" => gather' = "cancelled"
        /\ gather' \in {"running", "returned", "raised", "cancelled"}
    BY <1>1, <1>3 DEF Return, Cancel, vars, askedVars, Typed
  <2>2. EndsStay /\ \A e \in Executors : Untouched(e)
    BY <2>1 DEF EndsStay, Untouched
  <2>3. \A e \in Executors : ExecutorInv(e)'
    BY <1>1, <2>2, UntouchedKeeps
  <2>4. Typed'
    BY <1>1, <2>1, AskedStays DEF Typed
  <2>5. GatherInv'
    <3>1. CASE Return
      <4>1. /\ \A e \in Executors : stage'[e] \in Ended /\ stage'[e] = stage[e]
            /\ gather' = IF /\ \A e \in Executors : stage[e] = "done"
                            /\ \A i \in Calls : results[i] # Missing
                         THEN "returned" ELSE "raised"
        BY <2>1, <3>1 DEF Return
      <4>2. ASSUME \A e \in Executors : stage[e] = "done" PROVE \A i \in Calls : results[i] # Missing
        <5>1. ASSUME NEW i \in Calls PROVE results[i] # Missing
          <6>1. PICK e \in Executors : i \in Owned(e)
            BY <1>1 DEF Typed, Owned
          <6>2. Settled(e, i, results[i])
            BY <1>1, <4>2, <6>1 DEF ExecutorInv
          <6> QED BY <6>2, TagsDiffer DEF Settled, Kept
        <5> QED BY <5>1
      <4> QED BY <4>1, <4>2 DEF GatherInv, Ended
    <3>2. CASE Cancel
      BY <3>2 DEF Cancel, GatherInv
    <3>3. CASE UNCHANGED vars
      BY <1>1, <3>3 DEF vars, GatherInv, Ended
    <3> QED BY <1>3, <3>1, <3>2, <3>3
  <2> QED BY <2>3, <2>4, <2>5 DEF BatchInv
<1> QED BY <1>2, <1>3 DEF Next

\* For any number of calls of any methods, any batch_size and any number of workers the
\* invariant holds in every reachable state of gather.
THEOREM BatchInvariant == Spec => []BatchInv
<1>1. Init => BatchInv
  BY InitIsRight
<1>2. BatchInv /\ [Next]_vars => BatchInv'
  BY NextKeeps
<1> QED BY <1>1, <1>2, PTL DEF Spec

\* Whatever gather was asked, a list it returns has every answer in the place of its call,
\* and an error about a request that carried it in the place of every other; without
\* return_exceptions there is no list once a call has failed, with it there always is one
\* unless the caller is cancelled.
THEOREM EveryResultInItsPlace == Spec => []ResultsInPlace
<1>1. BatchInv => ResultsInPlace
  <2> SUFFICES ASSUME BatchInv PROVE ResultsInPlace
    OBVIOUS
  <2>1. Typed /\ GatherInv /\ \A e \in Executors : ExecutorInv(e)
    BY DEF BatchInv
  <2>2. ASSUME gather = "returned", NEW i \in Calls
        PROVE  \/ fate[i] = "answered" /\ results[i] = Value(i)
               \/ /\ keep /\ fate[i] = "failed"
                  /\ results[i][1] = "error" /\ i \in results[i][2]
                  /\ \A j \in results[i][2] : calls[j].key = calls[i].key /\ fate[j] = "failed"
    <3>1. PICK e \in Executors : i \in Owned(e)
      BY <2>1 DEF Typed, Owned
    <3>2. Settled(e, i, results[i])
      BY <2>1, <2>2, <3>1 DEF ExecutorInv, GatherInv
    <3>3. CASE Kept(e, i, results[i])
      <4>1. PICK S \in SUBSET Owned(e) :
              /\ results[i] = Error(S) /\ i \in S
              /\ \A j \in S : calls[j].key = calls[i].key /\ fate[j] = "failed"
        BY <3>3 DEF Kept
      <4>2. results[i][1] = "error" /\ results[i][2] = S
        BY <4>1 DEF Error
      <4> QED BY <3>3, <4>1, <4>2 DEF Kept
    <3> QED BY <3>2, <3>3 DEF Settled
  <2>3. ASSUME gather = "raised" PROVE ~keep /\ \E i \in Calls : fate[i] = "failed"
    <3>1. PICK e \in Executors : stage[e] \in {"failed", "cancelled"}
      BY <2>1, <2>3 DEF GatherInv, Ended
    <3>2. PICK f \in Executors : stage[f] = "failed"
      BY <2>1, <2>3, <3>1 DEF ExecutorInv
    <3>3. ~keep /\ \E i \in Owned(f) : fate[i] = "failed"
      BY <2>1, <3>2 DEF ExecutorInv
    <3> QED BY <3>3 DEF Owned
  <2> QED BY <2>2, <2>3 DEF ResultsInPlace
<1> QED BY <1>1, BatchInvariant, PTL

\* Calls that share a request have one key, however many there are, and every admitted call
\* is in exactly one request of at most batch_size calls.
THEOREM OneScopePerEnvelope == Spec => []EnvelopesShareOneScope
<1>1. BatchInv => EnvelopesShareOneScope
  <2> SUFFICES ASSUME BatchInv, NEW e \in Executors, stage[e] \in {"prepare", "send"}
               PROVE  /\ \A p \in DOMAIN batches[e] :
                            /\ Len(batches[e][p]) \in 1 .. batchSize
                            /\ \A i, j \in ToSet(batches[e][p]) : calls[i].key = calls[j].key
                      /\ \A i \in Admitted(e) :
                            Cardinality({p \in DOMAIN batches[e] : i \in ToSet(batches[e][p])}) = 1
    BY Zenon DEF EnvelopesShareOneScope
  <2>1. Proper(e, batches[e])
    BY DEF BatchInv, ExecutorInv
  <2>2. ASSUME NEW i \in Admitted(e)
        PROVE  Cardinality({p \in DOMAIN batches[e] : i \in ToSet(batches[e][p])}) = 1
    <3>1. PICK p \in DOMAIN batches[e] : i \in ToSet(batches[e][p])
      BY <2>1, BatchesCarry
    <3>2. {q \in DOMAIN batches[e] : i \in ToSet(batches[e][q])} = {p}
      <4>1. \A q \in DOMAIN batches[e] : i \in ToSet(batches[e][q]) => q = p
        BY <2>1, <3>1, BatchesCarry
      <4> QED BY <3>1, <4>1
    <3>3. Cardinality({p}) = 1
      BY FS_Singleton
    <3> QED BY <3>2, <3>3
  <2> QED BY <2>1, <2>2, BatchesCarry
<1> QED BY <1>1, BatchInvariant, PTL

\* Never are more requests under way than there are workers, and none outlives its executor:
\* not its failure, not a cancellation, not its end.
THEOREM NoRequestRunsOn == Spec => []NothingRunsOn
<1>1. BatchInv => NothingRunsOn
  <2> SUFFICES ASSUME BatchInv, NEW e \in Executors
               PROVE  Cardinality(Positions(e, Sent)) <= IF stage[e] = "send" THEN MaxConcurrency ELSE 0
    BY DEF NothingRunsOn
  <2>1. ExecutorInv(e) /\ stage[e] \in Stages
    BY DEF BatchInv, Typed
  <2>2. CASE stage[e] = "send"
    BY <2>1, <2>2 DEF ExecutorInv, Sending
  <2>3. CASE stage[e] # "send"
    <3>1. Positions(e, Sent) = {}
      <4>1. CASE stage[e] = "start"
        <5>1. Len(prepared[e]) = 0
          BY <2>1, <4>1 DEF ExecutorInv
        <5> QED BY <5>1 DEF Positions
      <4>2. CASE stage[e] = "prepare"
        <5>1. outcomes[e] \in Seq({Unsent}) /\ DOMAIN outcomes[e] = 1 .. Len(prepared[e])
          BY <2>1, <4>2, RequestsAreApart DEF Preparing
        <5>2. \A p \in 1 .. Len(prepared[e]) : outcomes[e][p] = Unsent
          BY <5>1
        <5> QED BY <5>2, TagsDiffer DEF Positions
      <4>3. CASE stage[e] \in Ended
        BY <2>1, <4>3 DEF ExecutorInv
      <4> QED BY <2>1, <2>3, <4>1, <4>2, <4>3 DEF Stages
    <3>2. Cardinality(Positions(e, Sent)) = 0
      BY <3>1, FS_EmptySet
    <3> QED BY <2>3, <3>2
  <2> QED BY <2>2, <2>3
<1> QED BY <1>1, BatchInvariant, PTL

-----------------------------------------------------------------------------
(* The life cycle.  The argument is CloseInv (EngineLifecycle).  The       *)
(* properties alone are not inductive: that a close in progress holds the  *)
(* lock (LockIsExact) keeps operations from registering, so what it found  *)
(* running when it took the lock is all there is to wait for               *)
(* (CloseSeesAll).                                                         *)

USE EngineAssumption

\* The invariant of the life cycle holds initially.
LEMMA LifeStartsRight == LifeInit => CloseInv
  BY DEF LifeInit, CloseInv, TypeOK, RegistryIsExact, LockIsExact, CloseSeesAll,
         NobodySlipsIn, TransportOutlivesOperations, OkMeansClosed,
         OpResults, CloseOutcomes, Callers

\* Every step keeps its types.
LEMMA LifeStaysTyped == TypeOK /\ [LifeNext]_lifeVars => TypeOK'
<1> SUFFICES ASSUME TypeOK, [LifeNext]_lifeVars PROVE TypeOK'
  OBVIOUS
<1> USE DEF TypeOK, OpResults, CloseOutcomes, Callers, opVars, closeVars
<1>1. ASSUME NEW o \in Ops, OpBegin(o) \/ OpLock(o) \/ OpRegister(o) PROVE TypeOK'
  BY <1>1 DEF OpBegin, OpLock, OpRegister
<1>2. ASSUME NEW o \in Ops, BodyEnds(o) \/ BodyCancelled(o) \/ OuterCancel(o) PROVE TypeOK'
  BY <1>2 DEF BodyEnds, BodyCancelled, OuterCancel, Deregister
<1>3. ASSUME NEW c \in Closers, CloseBegin(c) PROVE TypeOK'
  BY <1>3 DEF CloseBegin
<1>4. ASSUME NEW c \in Closers, CloseLock(c) PROVE TypeOK'
  BY <1>4 DEF CloseLock, CloseReturns
<1>5. ASSUME NEW c \in Closers, AllDone(c) \/ BudgetSpent(c) PROVE TypeOK'
  BY <1>5 DEF AllDone, BudgetSpent
<1>6. ASSUME NEW c \in Closers, CloseTransport(c) \/ CloseCancelled(c) PROVE TypeOK'
  BY <1>6 DEF CloseTransport, CloseCancelled, CloseReturns
<1>7. CASE UNCHANGED lifeVars
  BY <1>7 DEF lifeVars
<1> QED
  BY <1>1, <1>2, <1>3, <1>4, <1>5, <1>6, <1>7 DEF LifeNext, OpStep, CloseStep

\* Every step of an operation keeps the rest of the invariant.
LEMMA OperationKeepsLife ==
  ASSUME CloseInv, TypeOK', NEW o \in Ops,
         OpBegin(o) \/ OpStep(o) \/ BodyEnds(o) \/ BodyCancelled(o) \/ OuterCancel(o)
  PROVE  CloseInv'
<1> USE DEF CloseInv, TypeOK, opVars, closeVars
<1>1. CASE OpBegin(o)
  BY <1>1 DEF OpBegin, RegistryIsExact, LockIsExact, CloseSeesAll,
              NobodySlipsIn, TransportOutlivesOperations, OkMeansClosed
<1>2. CASE OpLock(o)
  BY <1>2 DEF OpLock, RegistryIsExact, LockIsExact, CloseSeesAll,
              NobodySlipsIn, TransportOutlivesOperations, OkMeansClosed
<1>3. CASE OpRegister(o)
  <2>1. lock = o /\ \A c \in Closers : closePc[c] \notin {"waiting", "transport"}
    BY <1>3 DEF OpRegister, LockIsExact
  <2>2. RegistryIsExact' /\ LockIsExact' /\ CloseSeesAll'
    BY <1>3, <2>1 DEF OpRegister, RegistryIsExact, LockIsExact, CloseSeesAll
  <2>3. NobodySlipsIn' /\ TransportOutlivesOperations' /\ OkMeansClosed'
    BY <1>3 DEF OpRegister, NobodySlipsIn, TransportOutlivesOperations, OkMeansClosed
  <2> QED
    BY <2>2, <2>3
<1>4. CASE BodyEnds(o) \/ BodyCancelled(o) \/ OuterCancel(o)
  <2>1. /\ opPc' = [opPc EXCEPT ![o] = "done"] /\ opPc[o] \in {"locking", "running"}
        /\ operations' = operations \ {o} \/ (operations' = operations /\ opPc[o] = "locking")
        /\ UNCHANGED <<state, lock, marked, closeVars, transport>>
    BY <1>4 DEF BodyEnds, BodyCancelled, OuterCancel, Deregister
  <2>2. RegistryIsExact' /\ LockIsExact' /\ CloseSeesAll'
    BY <2>1 DEF RegistryIsExact, LockIsExact, CloseSeesAll
  <2>3. NobodySlipsIn' /\ TransportOutlivesOperations' /\ OkMeansClosed'
    BY <2>1 DEF NobodySlipsIn, TransportOutlivesOperations, OkMeansClosed
  <2> QED
    BY <2>2, <2>3
<1> QED
  BY <1>1, <1>2, <1>3, <1>4 DEF OpStep

\* Every step of a close keeps the rest of the invariant.
LEMMA CloseKeepsLife ==
  ASSUME CloseInv, TypeOK', NEW c \in Closers,
         CloseBegin(c) \/ CloseStep(c) \/ CloseCancelled(c)
  PROVE  CloseInv'
<1> USE DEF CloseInv, TypeOK, opVars
<1>1. CASE CloseBegin(c)
  BY <1>1 DEF CloseBegin, RegistryIsExact, LockIsExact, CloseSeesAll,
              NobodySlipsIn, TransportOutlivesOperations, OkMeansClosed
<1>2. CASE CloseLock(c)
  <2>1. CASE closePc'[c] = "done"
    BY <1>2, <2>1 DEF CloseLock, CloseReturns, RegistryIsExact, LockIsExact, CloseSeesAll,
                      NobodySlipsIn, TransportOutlivesOperations, OkMeansClosed
  <2>2. CASE closePc'[c] = "waiting"
    <3>1. /\ state # "closed" /\ state' = "closing" /\ lock = None /\ lock' = c
          /\ marked' = marked \cup operations
          /\ awaited' = [awaited EXCEPT ![c] = operations]
          /\ closePc' = [closePc EXCEPT ![c] = "waiting"]
          /\ UNCHANGED <<operations, opPc, overdue, outcome, transport>>
      BY <1>2, <2>2 DEF CloseLock, CloseReturns
    <3>2. RegistryIsExact' /\ LockIsExact' /\ CloseSeesAll'
      BY <3>1 DEF RegistryIsExact, LockIsExact, CloseSeesAll
    <3>3. NobodySlipsIn' /\ TransportOutlivesOperations' /\ OkMeansClosed'
      BY <3>1 DEF NobodySlipsIn, RegistryIsExact, TransportOutlivesOperations, OkMeansClosed
    <3> QED
      BY <3>2, <3>3
  <2> QED
    BY <1>2, <2>1, <2>2 DEF CloseLock, CloseReturns
<1>3. CASE AllDone(c)
  <2>1. operations = {}
    BY <1>3 DEF AllDone, RegistryIsExact, CloseSeesAll
  <2> QED
    BY <1>3, <2>1 DEF AllDone, RegistryIsExact, LockIsExact, CloseSeesAll,
                      NobodySlipsIn, TransportOutlivesOperations, OkMeansClosed
<1>4. CASE BudgetSpent(c)
  <2>1. operations \subseteq overdue'
    BY <1>4 DEF BudgetSpent, RegistryIsExact, CloseSeesAll
  <2> QED
    BY <1>4, <2>1 DEF BudgetSpent, RegistryIsExact, LockIsExact, CloseSeesAll,
                      NobodySlipsIn, TransportOutlivesOperations, OkMeansClosed
<1>5. CASE CloseTransport(c)
  <2>1. lock = c /\ state = "closing" /\ operations \subseteq overdue
    BY <1>5 DEF CloseTransport, LockIsExact, CloseSeesAll
  <2>2. \A d \in Closers : closePc[d] \in {"waiting", "transport"} => d = c
    BY <2>1 DEF LockIsExact
  <2>3. RegistryIsExact' /\ LockIsExact' /\ CloseSeesAll'
    BY <1>5, <2>1, <2>2 DEF CloseTransport, CloseReturns, RegistryIsExact, LockIsExact, CloseSeesAll
  <2>4. NobodySlipsIn' /\ TransportOutlivesOperations' /\ OkMeansClosed'
    BY <1>5, <2>1 DEF CloseTransport, CloseReturns, RegistryIsExact, NobodySlipsIn,
                      TransportOutlivesOperations, OkMeansClosed
  <2> QED
    BY <2>3, <2>4
<1>6. CASE CloseCancelled(c)
  BY <1>6 DEF CloseCancelled, CloseReturns, RegistryIsExact, LockIsExact, CloseSeesAll,
              NobodySlipsIn, TransportOutlivesOperations, OkMeansClosed
<1> QED
  BY <1>1, <1>2, <1>3, <1>4, <1>5, <1>6 DEF CloseStep

\* Whatever the sets of operations and of calls of close, state, lock, marks and operations
\* fit together in every reachable state of the engine.
THEOREM CloseInvariant == LifeSpec => []CloseInv
<1>1. CloseInv /\ [LifeNext]_lifeVars => CloseInv'
  <2> SUFFICES ASSUME CloseInv, [LifeNext]_lifeVars PROVE CloseInv'
    OBVIOUS
  <2>1. TypeOK'
    BY LifeStaysTyped DEF CloseInv
  <2>2. CASE UNCHANGED lifeVars
    BY <2>2 DEF lifeVars, CloseInv, TypeOK, RegistryIsExact, LockIsExact, CloseSeesAll,
                NobodySlipsIn, TransportOutlivesOperations, OkMeansClosed
  <2> QED
    BY <2>1, <2>2, OperationKeepsLife, CloseKeepsLife DEF LifeNext
<1> QED
  BY LifeStartsRight, <1>1, PTL DEF LifeSpec

\* Whatever the sets of operations and of calls of close, the types of the life cycle hold.
THEOREM TypeCorrect == LifeSpec => []TypeOK
<1>1. CloseInv => TypeOK
  BY DEF CloseInv
<1> QED
  BY CloseInvariant, <1>1, PTL

\* Once a close has begun, every running operation has been told to stop:
\* the check of `_close_state` and the registration are one step under the lock.
THEOREM NoUnseenOperation == LifeSpec => []NobodySlipsIn
<1>1. CloseInv => NobodySlipsIn
  BY DEF CloseInv
<1> QED
  BY CloseInvariant, <1>1, PTL

\* The transport is closed under no operation that has not let the clean-up
\* budget pass.
THEOREM NoTransportUnderfoot == LifeSpec => []TransportOutlivesOperations
<1>1. CloseInv => TransportOutlivesOperations
  BY DEF CloseInv
<1> QED
  BY CloseInvariant, <1>1, PTL

\* An engine is closed exactly when its transport is, and a close that says ok
\* has closed it, whatever failed before.
THEOREM ClosedIsClosed == LifeSpec => []OkMeansClosed
<1>1. CloseInv => OkMeansClosed
  BY DEF CloseInv
<1> QED
  BY CloseInvariant, <1>1, PTL
===============================================================================
