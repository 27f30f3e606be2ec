----------------------------- MODULE GatewayProofs -----------------------------
(***************************************************************************)
(* Proofs about Gateway for any number of addresses, requests, slots,      *)
(* windows and cache entries: slots and rates are kept, the cache is       *)
(* public and evicts what was used longest ago, marks blame the server     *)
(* alone, and callers act as themselves.                                   *)
(***************************************************************************)
EXTENDS Gateway, FiniteSetTheorems, SequenceTheorems, TLAPS

-----------------------------------------------------------------------------
(* What At returns.                                                        *)

\* Up to which place a set has how many places.
Rank(places, i) == Cardinality({j \in places : j <= i})

\* A later place has a higher rank, and every rank is between one and the size of the set.
LEMMA RankRises ==
    ASSUME NEW n \in Nat, NEW places \in SUBSET (1 .. n)
    PROVE  /\ IsFiniteSet(places) /\ Cardinality(places) \in 0 .. n
           /\ Cardinality(places) = n => places = 1 .. n
           /\ \A i \in places : Rank(places, i) \in 1 .. Cardinality(places)
           /\ \A i, j \in places : i < j => Rank(places, i) < Rank(places, j)
<1>1. IsFiniteSet(1 .. n) /\ Cardinality(1 .. n) = n
  BY FS_Interval
<1>2. IsFiniteSet(places) /\ Cardinality(places) <= n /\ Cardinality(places) \in Nat
  BY <1>1, FS_Subset, FS_CardinalityType
<1>3. Cardinality(places) = n => places = 1 .. n
  BY <1>1, FS_Subset
<1>4. ASSUME NEW i \in places PROVE Rank(places, i) \in 1 .. Cardinality(places)
  <2> DEFINE upto == {j \in places : j <= i}
  <2>1. IsFiniteSet(upto) /\ Cardinality(upto) <= Cardinality(places)
    BY <1>2, FS_Subset
  <2>2. Cardinality(upto) \in Nat /\ (Cardinality(upto) = 0 <=> upto = {})
    BY <2>1, FS_CardinalityType, FS_EmptySet
  <2>3. i \in upto
    BY <1>4
  <2>4. Rank(places, i) = Cardinality(upto)
    BY DEF Rank
  <2> QED BY <2>1, <2>2, <2>3, <2>4, <1>2
<1>5. ASSUME NEW i \in places, NEW j \in places, i < j
      PROVE  Rank(places, i) < Rank(places, j)
  <2> DEFINE low == {k \in places : k <= i}
             high == {k \in places : k <= j}
  <2>1. low \in SUBSET high /\ j \in high /\ j \notin low
    <3>1. i \in Nat /\ j \in Nat /\ \A k \in places : k \in Nat
      OBVIOUS
    <3>2. \A k \in places : k <= i => k <= j
      BY <3>1, <1>5
    <3>3. j <= j /\ ~ (j <= i)
      BY <3>1, <1>5
    <3> QED BY <3>2, <3>3
  <2>2. IsFiniteSet(high)
    BY <1>2, FS_Subset
  <2>3. IsFiniteSet(low) /\ Cardinality(low) <= Cardinality(high) /\ Cardinality(low) # Cardinality(high)
    BY <2>1, <2>2, FS_Subset
  <2>4. Cardinality(low) \in Nat /\ Cardinality(high) \in Nat
    BY <2>2, <2>3, FS_CardinalityType
  <2>5. Rank(places, i) = Cardinality(low) /\ Rank(places, j) = Cardinality(high)
    BY DEF Rank
  <2> QED BY <2>3, <2>4, <2>5
<1> QED BY <1>2, <1>3, <1>4, <1>5

\* The places are visited in their order, each of them once.
Visits(f, places) ==
    /\ f \in [1 .. Cardinality(places) -> places]
    /\ \A k, l \in 1 .. Cardinality(places) : k < l => f[k] < f[l]
    /\ \A i \in places : \E k \in 1 .. Cardinality(places) : f[k] = i

\* At is the sequence along such a visit.
LEMMA AtVisits ==
    ASSUME NEW S, NEW seq \in Seq(S), NEW places \in SUBSET DOMAIN seq
    PROVE  \E f : /\ Visits(f, places)
                  /\ At(seq, places) = [k \in 1 .. Cardinality(places) |-> seq[f[k]]]
<1> DEFINE m == Cardinality(places)
           rank == [i \in places |-> Rank(places, i)]
           f == [k \in 1 .. m |-> CHOOSE i \in places : Rank(places, i) = k]
<1>1. /\ IsFiniteSet(places) /\ m \in Nat
      /\ \A i \in places : Rank(places, i) \in 1 .. m
      /\ \A i, j \in places : i < j => Rank(places, i) < Rank(places, j)
  <2>1. PICK n \in Nat : DOMAIN seq = 1 .. n
    OBVIOUS
  <2>2. m \in 0 .. n
    BY <2>1, RankRises
  <2> QED BY <2>1, <2>2, RankRises
<1>2. IsFiniteSet(1 .. m) /\ Cardinality(1 .. m) = m
  BY <1>1, FS_Interval
<1>3. \A i, j \in places : Rank(places, i) = Rank(places, j) => i = j
  <2>1. ASSUME NEW i \in places, NEW j \in places, i # j, Rank(places, i) = Rank(places, j)
        PROVE  FALSE
    <3>1. i < j \/ j < i
      BY <2>1
    <3>2. Rank(places, i) \in Nat /\ Rank(places, j) \in Nat
      BY <1>1
    <3> QED BY <3>1, <3>2, <2>1, <1>1
  <2> QED BY <2>1
<1>4. rank \in Injection(places, 1 .. m)
  BY <1>1, <1>3 DEF Injection, IsInjective
<1>5. rank \in Surjection(places, 1 .. m)
  BY <1>1, <1>2, <1>4, FS_Injection
<1>6. \A k \in 1 .. m : \E i \in places : Rank(places, i) = k
  BY <1>5 DEF Surjection
<1>7. \A k \in 1 .. m : f[k] \in places /\ Rank(places, f[k]) = k
  BY <1>6
<1>8. \A k, l \in 1 .. m : k < l => f[k] < f[l]
  <2>1. ASSUME NEW k \in 1 .. m, NEW l \in 1 .. m, k < l, ~ (f[k] < f[l]) PROVE FALSE
    <3>1. f[k] \in places /\ f[l] \in places /\ Rank(places, f[k]) = k /\ Rank(places, f[l]) = l
      BY <1>7, <2>1
    <3>2. PICK i \in places, j \in places : i = f[k] /\ j = f[l]
      BY <3>1
    <3> HIDE DEF f
    <3>3. i \in Nat /\ j \in Nat /\ k \in Nat /\ l \in Nat
      BY <1>1
    <3>4. i = j \/ j < i
      BY <3>2, <3>3, <2>1
    <3>5. Rank(places, j) <= Rank(places, i)
      BY <3>4, <3>1, <3>2, <3>3, <1>1
    <3> QED BY <3>1, <3>2, <3>3, <3>5, <2>1
  <2> QED BY <2>1
<1>9. \A i \in places : \E k \in 1 .. m : f[k] = i
  <2>1. ASSUME NEW i \in places PROVE f[Rank(places, i)] = i
    BY <1>1, <1>3, <1>7
  <2> QED BY <1>1, <2>1
<1>10. Visits(f, places)
  <2>1. f \in [1 .. m -> places]
    BY <1>7
  <2> QED BY <2>1, <1>8, <1>9 DEF Visits
<1>11. At(seq, places) = [k \in 1 .. m |-> seq[f[k]]]
  BY DEF At, Rank
<1> QED BY <1>10, <1>11

\* What At leaves out and keeps, and its length.
LEMMA AtKeeps ==
    ASSUME NEW S, NEW seq \in Seq(S), NEW places \in SUBSET DOMAIN seq
    PROVE  /\ At(seq, places) \in Seq(S)
           /\ Len(At(seq, places)) \in 0 .. Len(seq)
           /\ Len(At(seq, places)) = Len(seq) => places = DOMAIN seq
           /\ \A k \in DOMAIN At(seq, places) : \E i \in places : At(seq, places)[k] = seq[i]
           /\ \A i \in places : \E k \in DOMAIN At(seq, places) : At(seq, places)[k] = seq[i]
<1> DEFINE m == Cardinality(places)
<1>1. Len(seq) \in Nat /\ DOMAIN seq = 1 .. Len(seq) /\ \A i \in DOMAIN seq : seq[i] \in S
  OBVIOUS
<1>2. m \in 0 .. Len(seq) /\ (m = Len(seq) => places = DOMAIN seq)
  BY <1>1, RankRises
<1>3. PICK f : Visits(f, places) /\ At(seq, places) = [k \in 1 .. m |-> seq[f[k]]]
  BY AtVisits
<1>4. \A k \in 1 .. m : f[k] \in places /\ At(seq, places)[k] = seq[f[k]]
  BY <1>3 DEF Visits
<1>5. At(seq, places) \in Seq(S) /\ Len(At(seq, places)) = m /\ DOMAIN At(seq, places) = 1 .. m
  <2>1. m \in Nat
    BY <1>1, <1>2
  <2>2. \A k \in 1 .. m : seq[f[k]] \in S
    BY <1>1, <1>4
  <2> HIDE DEF m
  <2> QED BY <2>1, <2>2, <1>3
<1>6. \A i \in places : \E k \in 1 .. m : f[k] = i
  BY <1>3 DEF Visits
<1> HIDE DEF m
<1>7. \A k \in DOMAIN At(seq, places) : \E i \in places : At(seq, places)[k] = seq[i]
  BY <1>4, <1>5, Zenon
<1>8. ASSUME NEW i \in places
      PROVE  \E k \in DOMAIN At(seq, places) : At(seq, places)[k] = seq[i]
  <2>1. PICK k \in 1 .. m : f[k] = i
    BY <1>6, Zenon
  <2>2. k \in DOMAIN At(seq, places) /\ At(seq, places)[k] = seq[i]
    BY <1>4, <1>5, <2>1, Zenon
  <2> QED BY <2>2
<1>9. Len(At(seq, places)) \in 0 .. Len(seq) /\ (Len(At(seq, places)) = Len(seq) => places = DOMAIN seq)
  BY <1>2, <1>5, Zenon
<1> QED BY <1>5, <1>7, <1>8, <1>9, Zenon

-----------------------------------------------------------------------------
(* The order of the cache. *)

\* No key is there twice.
Distinct(keys) == \A i, j \in DOMAIN keys : keys[i] = keys[j] => i = j

\* The entries have the keys of the history, in its order.
Follows(entries, keys) ==
    /\ \A i \in DOMAIN entries : \E k \in DOMAIN keys : keys[k] = entries[i].key
    /\ \A i, j \in DOMAIN entries, k, l \in DOMAIN keys :
          i < j /\ keys[k] = entries[i].key /\ keys[l] = entries[j].key => k < l

\* The history after a key has been asked for or set.
Touched(keys, key) == Append(At(keys, {i \in DOMAIN keys : keys[i] # key}), key)

\* What is taken out of the entries leaves the others in order.
LEMMA AtFollows ==
    ASSUME NEW S, NEW entries \in Seq(S), NEW places \in SUBSET DOMAIN entries, NEW keys,
           Follows(entries, keys)
    PROVE  Follows(At(entries, places), keys)
<1> DEFINE m == Cardinality(places)
<1>1. Len(entries) \in Nat /\ DOMAIN entries = 1 .. Len(entries)
  OBVIOUS
<1>2. PICK f : Visits(f, places) /\ At(entries, places) = [k \in 1 .. m |-> entries[f[k]]]
  BY AtVisits
<1>3. /\ DOMAIN At(entries, places) = 1 .. m
      /\ \A k \in 1 .. m : f[k] \in DOMAIN entries /\ At(entries, places)[k] = entries[f[k]]
      /\ \A k, l \in 1 .. m : k < l => f[k] < f[l]
  BY <1>2 DEF Visits
<1> HIDE DEF m
<1> QED BY <1>3 DEF Follows

\* So does the oldest that goes.
LEMMA TailFollows ==
    ASSUME NEW S, NEW entries \in Seq(S), entries # <<>>, NEW keys, Follows(entries, keys)
    PROVE  Follows(Tail(entries), keys)
<1>1. /\ DOMAIN Tail(entries) = 1 .. Len(entries) - 1 /\ Len(entries) \in Nat
      /\ \A i \in DOMAIN Tail(entries) : Tail(entries)[i] = entries[i + 1] /\ i + 1 \in DOMAIN entries
  OBVIOUS
<1>2. \A i, j \in DOMAIN Tail(entries) : i < j => i + 1 < j + 1
  BY <1>1
<1> QED BY <1>1, <1>2 DEF Follows

\* A key that is touched becomes the last one, and the others stay as they were.
LEMMA TouchedOrder ==
    ASSUME NEW K, NEW keys \in Seq(K), Distinct(keys), NEW key \in K
    PROVE  /\ Touched(keys, key) \in Seq(K) /\ Distinct(Touched(keys, key))
           /\ \A S : \A entries \in Seq(S) :
                 /\ Follows(entries, keys)
                 /\ \A i \in DOMAIN entries : entries[i].key # key
                 => /\ Follows(entries, Touched(keys, key))
                    /\ \A entry \in S : entry.key = key =>
                          Follows(Append(entries, entry), Touched(keys, key))
<1> DEFINE others == {i \in DOMAIN keys : keys[i] # key}
           m == Cardinality(others)
           old == At(keys, others)
<1>1. Len(keys) \in Nat /\ DOMAIN keys = 1 .. Len(keys) /\ others \in SUBSET (1 .. Len(keys))
  OBVIOUS
<1>2. PICK f : Visits(f, others) /\ old = [k \in 1 .. m |-> keys[f[k]]]
  <2>1. others \in SUBSET DOMAIN keys
    OBVIOUS
  <2> HIDE DEF others
  <2> QED BY <2>1, AtVisits
<1>3. m \in Nat
  <2>1. m \in 0 .. Len(keys)
    BY <1>1, RankRises
  <2> QED BY <2>1, <1>1
<1>4. /\ \A k \in 1 .. m : f[k] \in others
      /\ \A k, l \in 1 .. m : k < l => f[k] < f[l]
      /\ \A i \in others : \E k \in 1 .. m : f[k] = i
  BY <1>2 DEF Visits
<1>5. old \in Seq(K) /\ Len(old) = m
  <2>1. others \in SUBSET DOMAIN keys
    OBVIOUS
  <2>2. old \in Seq(K)
    <3> HIDE DEF others
    <3> QED BY <2>1, AtKeeps
  <2> HIDE DEF m, old
  <2>3. Len(old) = m
    BY <1>2, <1>3, <2>2
  <2> QED BY <2>2, <2>3
<1>6. Touched(keys, key) = Append(old, key)
  BY DEF Touched
<1> HIDE DEF m, old
<1>7. /\ Touched(keys, key) \in Seq(K) /\ DOMAIN Touched(keys, key) = 1 .. m + 1
      /\ Touched(keys, key)[m + 1] = key
      /\ \A k \in 1 .. m : Touched(keys, key)[k] = keys[f[k]] /\ keys[f[k]] # key
  BY <1>2, <1>3, <1>4, <1>5, <1>6
<1>8. Distinct(Touched(keys, key))
  <2>1. ASSUME NEW k \in 1 .. m, NEW l \in 1 .. m, keys[f[k]] = keys[f[l]] PROVE k = l
    <3>1. f[k] = f[l]
      BY <1>4, <2>1 DEF Distinct
    <3>2. ~ (f[k] < f[l]) /\ ~ (f[l] < f[k])
      BY <3>1, <1>1, <1>4
    <3> QED BY <3>2, <1>4
  <2>2. \A k \in 1 .. m + 1 : k \in 1 .. m \/ k = m + 1
    BY <1>3
  <2> QED BY <2>1, <2>2, <1>7 DEF Distinct
<1>9. ASSUME NEW S, NEW entries \in Seq(S), Follows(entries, keys),
             \A i \in DOMAIN entries : entries[i].key # key
      PROVE  Follows(entries, Touched(keys, key))
  <2>1. \A i \in DOMAIN entries : \E k \in 1 .. m : keys[f[k]] = entries[i].key
    <3>1. ASSUME NEW i \in DOMAIN entries PROVE \E k \in 1 .. m : keys[f[k]] = entries[i].key
      <4>1. PICK k \in DOMAIN keys : keys[k] = entries[i].key
        BY <1>9 DEF Follows
      <4>2. k \in others
        BY <4>1, <1>9
      <4> QED BY <4>1, <4>2, <1>4
    <3> QED BY <3>1
  <2>2. ASSUME NEW i \in DOMAIN entries, NEW j \in DOMAIN entries, i < j,
               NEW k \in 1 .. m + 1, NEW l \in 1 .. m + 1,
               Touched(keys, key)[k] = entries[i].key, Touched(keys, key)[l] = entries[j].key
        PROVE  k < l
    <3>1. k \in 1 .. m /\ l \in 1 .. m
      BY <2>2, <1>3, <1>7, <1>9
    <3>2. f[k] \in DOMAIN keys /\ f[l] \in DOMAIN keys
      BY <3>1, <1>4
    <3>3. f[k] < f[l]
      BY <3>1, <3>2, <2>2, <1>7, <1>9 DEF Follows
    <3>4. ~ (l < k) /\ l # k
      BY <3>1, <3>2, <3>3, <1>1, <1>4
    <3> QED BY <3>1, <3>4
  <2> QED BY <2>1, <2>2, <1>3, <1>7 DEF Follows
<1>10. ASSUME NEW S, NEW entries \in Seq(S), Follows(entries, keys), NEW entry \in S,
              \A i \in DOMAIN entries : entries[i].key # key, entry.key = key
       PROVE  Follows(Append(entries, entry), Touched(keys, key))
  <2> DEFINE n == Len(entries)
             more == Append(entries, entry)
  <2>1. n \in Nat /\ DOMAIN entries = 1 .. n /\ DOMAIN more = 1 .. n + 1
    OBVIOUS
  <2>2. more[n + 1] = entry /\ \A i \in 1 .. n : more[i] = entries[i]
    OBVIOUS
  <2>3. Follows(entries, Touched(keys, key))
    BY <1>9, <1>10
  <2> HIDE DEF n, more
  <2>4. \A i \in 1 .. n + 1 : \E k \in 1 .. m + 1 : Touched(keys, key)[k] = more[i].key
    <3>1. \A i \in 1 .. n : \E k \in 1 .. m + 1 : Touched(keys, key)[k] = entries[i].key
      BY <2>1, <2>3, <1>7 DEF Follows
    <3>2. m + 1 \in 1 .. m + 1 /\ Touched(keys, key)[m + 1] = more[n + 1].key
      BY <2>2, <1>3, <1>7, <1>10
    <3>3. \A i \in 1 .. n + 1 : i \in 1 .. n \/ i = n + 1
      BY <2>1
    <3> QED BY <3>1, <3>2, <3>3, <2>2
  <2>5. ASSUME NEW i \in 1 .. n + 1, NEW j \in 1 .. n + 1, i < j,
               NEW k \in 1 .. m + 1, NEW l \in 1 .. m + 1,
               Touched(keys, key)[k] = more[i].key, Touched(keys, key)[l] = more[j].key
        PROVE  k < l
    <3>1. i \in 1 .. n
      BY <2>5, <2>1
    <3>2. CASE j \in 1 .. n
      <4>1. Touched(keys, key)[k] = entries[i].key /\ Touched(keys, key)[l] = entries[j].key
        BY <3>1, <3>2, <2>2, <2>5
      <4>2. i \in DOMAIN entries /\ j \in DOMAIN entries
        BY <3>1, <3>2, <2>1
      <4>3. k \in DOMAIN Touched(keys, key) /\ l \in DOMAIN Touched(keys, key)
        BY <1>7
      <4> QED BY <4>1, <4>2, <4>3, <2>3, <2>5 DEF Follows
    <3>3. CASE j = n + 1
      <4>1. l = m + 1
        BY <3>3, <2>2, <2>5, <1>3, <1>7, <1>10
      <4>2. k # m + 1
        <5>1. i \in DOMAIN entries /\ more[i] = entries[i]
          BY <3>1, <2>1, <2>2
        <5>2. Touched(keys, key)[k] # key
          BY <5>1, <2>5, <1>10
        <5> QED BY <5>2, <1>7
      <4> QED BY <4>1, <4>2, <1>3
    <3> QED BY <3>2, <3>3, <2>1
  <2>6. more = Append(entries, entry)
    BY DEF more
  <2> QED BY <2>1, <2>4, <2>5, <2>6, <1>7 DEF Follows
<1> QED BY <1>7, <1>8, <1>9, <1>10

-----------------------------------------------------------------------------
(* get and set of the cache. *)

ServerFailures == {"http5xx", "malformed", "network", "timeout"}

\* Keys of the cache, and what went out with a request.
CacheKeys == {"answer", "failure"} \X Keys
Sents ==
    [who : {"none", "caller", "pool"}, as : {"nothing", "placeholder", "credential", "uin"}]

\* Entries anybody may see: answers, and failures of the server.
PublicEntries ==
    {entry \in [key : CacheKeys, until : Nat, sent : Sents, result : ServerFailures \cup {"payload"}] :
        /\ entry.sent.who = "none"
        /\ entry.key[1] = "failure" => entry.result \in ServerFailures}

\* A cache within its size, in the order of the history.
CacheOK(entries, keys) ==
    /\ entries \in Seq(PublicEntries) /\ Len(entries) <= MaxSize
    /\ keys \in Seq(CacheKeys) /\ Distinct(keys)
    /\ Follows(entries, keys)

\* What is found and what is kept of a key.
LEMMA Parts ==
    ASSUME NEW entries, NEW keys, CacheOK(entries, keys), NEW key \in CacheKeys
    PROVE  /\ Find(entries, key) = <<>> <=> \A i \in DOMAIN entries : entries[i].key # key
           /\ Without(entries, key) \in Seq(PublicEntries)
           /\ Len(Without(entries, key)) \in 0 .. Len(entries)
           /\ Find(entries, key) # <<>> => Len(Without(entries, key)) < Len(entries)
           /\ \A i \in DOMAIN Without(entries, key) : Without(entries, key)[i].key # key
           /\ Follows(Without(entries, key), keys)
           /\ \A i \in DOMAIN entries : entries[i].key # key =>
                 \E j \in DOMAIN Without(entries, key) : Without(entries, key)[j] = entries[i]
<1> DEFINE there == {i \in DOMAIN entries : entries[i].key = key}
           elsewhere == {i \in DOMAIN entries : entries[i].key # key}
<1>1. entries \in Seq(PublicEntries) /\ Len(entries) \in Nat /\ Follows(entries, keys)
  BY DEF CacheOK
<1>2. there \in SUBSET DOMAIN entries /\ elsewhere \in SUBSET DOMAIN entries
  OBVIOUS
<1>3. Find(entries, key) = At(entries, there) /\ Without(entries, key) = At(entries, elsewhere)
  BY DEF Find, Without
<1>4. Find(entries, key) = <<>> <=> there = {}
  <2>1. Find(entries, key) \in Seq(PublicEntries)
    BY <1>1, <1>2, <1>3, AtKeeps
  <2>2. DOMAIN Find(entries, key) = {} <=> Find(entries, key) = <<>>
    BY <2>1
  <2>3. /\ \A k \in DOMAIN Find(entries, key) : \E i \in there : Find(entries, key)[k] = entries[i]
        /\ \A i \in there : \E k \in DOMAIN Find(entries, key) : Find(entries, key)[k] = entries[i]
    <3> HIDE DEF there
    <3> QED BY <1>1, <1>2, <1>3, AtKeeps
  <2> QED BY <2>2, <2>3
<1>5. /\ Without(entries, key) \in Seq(PublicEntries)
      /\ Len(Without(entries, key)) \in 0 .. Len(entries)
      /\ Len(Without(entries, key)) = Len(entries) => elsewhere = DOMAIN entries
      /\ \A k \in DOMAIN Without(entries, key) : \E i \in elsewhere : Without(entries, key)[k] = entries[i]
      /\ \A i \in elsewhere : \E k \in DOMAIN Without(entries, key) : Without(entries, key)[k] = entries[i]
      /\ Follows(Without(entries, key), keys)
  <2> HIDE DEF elsewhere
  <2>1. Follows(Without(entries, key), keys)
    BY <1>1, <1>2, <1>3, AtFollows
  <2> QED BY <2>1, <1>1, <1>2, <1>3, AtKeeps
<1>6. there # {} => elsewhere # DOMAIN entries
  OBVIOUS
<1>7. there # {} => Len(Without(entries, key)) < Len(entries)
  <2> HIDE DEF there, elsewhere
  <2> QED BY <1>1, <1>5, <1>6
<1> QED BY <1>4, <1>5, <1>7

\* get keeps the cache in order and loses nothing that is good.
LEMMA GetKeepsOrder ==
    ASSUME NEW entries, NEW keys, CacheOK(entries, keys), NEW key \in CacheKeys, NEW t \in Nat
    PROVE  /\ Hit(entries, key, t) = <<>> => CacheOK(AfterGet(entries, key, t), keys)
           /\ Hit(entries, key, t) # <<>> =>
                 /\ CacheOK(AfterGet(entries, key, t), Touched(keys, key))
                 /\ Hit(entries, key, t)[1] \in PublicEntries
                 /\ Hit(entries, key, t)[1].key = key
           /\ \A i \in DOMAIN entries : ~Expired(entries[i], t) =>
                 \E j \in DOMAIN AfterGet(entries, key, t) : AfterGet(entries, key, t)[j] = entries[i]
<1> DEFINE good == {i \in DOMAIN entries : entries[i].key = key /\ ~Expired(entries[i], t)}
           hit == Hit(entries, key, t)
           rest == Without(entries, key)
           after == AfterGet(entries, key, t)
<1>1. /\ entries \in Seq(PublicEntries) /\ Len(entries) \in Nat /\ Len(entries) <= MaxSize
      /\ Follows(entries, keys)
      /\ keys \in Seq(CacheKeys) /\ Distinct(keys) /\ MaxSize \in Nat
  BY GatewayAssumption DEF CacheOK
<1>2. /\ hit \in Seq(PublicEntries) /\ Follows(hit, keys)
      /\ \A k \in DOMAIN hit : \E i \in good : hit[k] = entries[i]
      /\ \A i \in good : \E k \in DOMAIN hit : hit[k] = entries[i]
  <2>1. good \in SUBSET DOMAIN entries /\ hit = At(entries, good)
    BY DEF Hit
  <2> HIDE DEF good, hit
  <2> QED BY <1>1, <2>1, AtKeeps, AtFollows
<1>3. after = rest \o hit
  BY DEF AfterGet
<1>4. /\ rest \in Seq(PublicEntries) /\ Len(rest) \in 0 .. Len(entries) /\ Follows(rest, keys)
      /\ Find(entries, key) # <<>> => Len(rest) < Len(entries)
      /\ \A i \in DOMAIN rest : rest[i].key # key
      /\ \A i \in DOMAIN entries : entries[i].key # key => \E j \in DOMAIN rest : rest[j] = entries[i]
  BY Parts
<1>5. \A k \in DOMAIN hit : hit[k].key = key
  <2>1. \A i \in good : entries[i].key = key
    OBVIOUS
  <2> HIDE DEF good, hit
  <2> QED BY <2>1, <1>2
<1>6. \A i \in DOMAIN entries : ~Expired(entries[i], t) /\ entries[i].key = key => i \in good
  OBVIOUS
<1>7. hit # <<>> => Find(entries, key) # <<>>
  <2>1. good # {} => Find(entries, key) # <<>>
    BY Parts
  <2> HIDE DEF good, hit
  <2> QED BY <2>1, <1>2
<1> HIDE DEF good, hit, rest, after
<1>8. CASE hit = <<>>
  <2>1. after = rest
    BY <1>3, <1>4, <1>8
  <2>2. CacheOK(after, keys)
    BY <2>1, <1>1, <1>4 DEF CacheOK
  <2>3. \A i \in DOMAIN entries : ~Expired(entries[i], t) => \E j \in DOMAIN after : after[j] = entries[i]
    BY <2>1, <1>2, <1>4, <1>6, <1>8
  <2> QED BY <2>2, <2>3, <1>8 DEF hit, after
<1>9. CASE hit # <<>>
  <2>1. 1 \in DOMAIN hit /\ hit[1] \in PublicEntries /\ hit[1].key = key
    BY <1>2, <1>5, <1>9
  <2>2. Len(hit) = 1
    <3>1. Len(hit) \in Nat /\ Len(hit) # 0 /\ DOMAIN hit = 1 .. Len(hit)
      BY <1>2, <1>9
    <3>2. ASSUME Len(hit) # 1 PROVE FALSE
      <4>1. 1 \in DOMAIN hit /\ 2 \in DOMAIN hit
        BY <3>1, <3>2
      <4>2. PICK k \in DOMAIN keys : keys[k] = hit[1].key
        BY <4>1, <1>2 DEF Follows
      <4>3. keys[k] = hit[2].key
        BY <4>1, <4>2, <1>5
      <4>4. k < k
        <5>1. \A i, j \in DOMAIN hit : i < j /\ keys[k] = hit[i].key /\ keys[k] = hit[j].key => k < k
          BY <4>2, <1>2 DEF Follows
        <5>2. 1 < 2
          OBVIOUS
        <5> QED BY <5>1, <5>2, <4>1, <4>2, <4>3
      <4>5. k \in Nat
        BY <1>1
      <4> QED BY <4>4, <4>5
    <3> QED BY <3>2
  <2>3. after = Append(rest, hit[1])
    <3>1. after \in Seq(PublicEntries) /\ Len(after) = Len(rest) + 1
      <4>1. after \in Seq(PublicEntries) /\ Len(after) = Len(rest) + Len(hit)
        BY <1>2, <1>3, <1>4, ConcatProperties
      <4> QED BY <4>1, <2>2
    <3>2. Append(rest, hit[1]) \in Seq(PublicEntries) /\ Len(Append(rest, hit[1])) = Len(rest) + 1
      BY <2>1, <1>4
    <3>3. \A i \in 1 .. Len(rest) + 1 : after[i] = IF i <= Len(rest) THEN rest[i] ELSE hit[i - Len(rest)]
      <4>1. \A i \in 1 .. Len(rest) + Len(hit) :
               after[i] = IF i <= Len(rest) THEN rest[i] ELSE hit[i - Len(rest)]
        BY <1>2, <1>3, <1>4, ConcatProperties
      <4> QED BY <4>1, <2>2
    <3>4. \A i \in 1 .. Len(rest) + 1 : after[i] = Append(rest, hit[1])[i]
      <4>1. Len(rest) \in Nat
        BY <1>4
      <4>2. \A i \in 1 .. Len(rest) : after[i] = rest[i]
        BY <3>3, <4>1
      <4>3. after[Len(rest) + 1] = hit[1]
        BY <3>3, <4>1
      <4> QED BY <4>1, <4>2, <4>3, <2>1, <1>4
    <3> QED BY <3>1, <3>2, <3>4, SeqEqual
  <2>4. Len(rest) < Len(entries)
    BY <1>4, <1>7, <1>9
  <2>5. after \in Seq(PublicEntries) /\ Len(after) <= MaxSize
    BY <2>1, <2>3, <2>4, <1>1, <1>4
  <2>6. Follows(after, Touched(keys, key)) /\ Touched(keys, key) \in Seq(CacheKeys)
        /\ Distinct(Touched(keys, key))
    BY <2>1, <2>3, <1>1, <1>4, TouchedOrder
  <2>7. CacheOK(after, Touched(keys, key))
    BY <2>5, <2>6 DEF CacheOK
  <2>8. /\ \A j \in DOMAIN rest : j \in DOMAIN after /\ after[j] = rest[j]
        /\ Len(rest) + 1 \in DOMAIN after /\ after[Len(rest) + 1] = hit[1]
    BY <2>1, <2>3, <1>4
  <2>9. \A i \in DOMAIN entries : ~Expired(entries[i], t) => \E j \in DOMAIN after : after[j] = entries[i]
    <3>1. ASSUME NEW i \in DOMAIN entries, ~Expired(entries[i], t), entries[i].key = key
          PROVE  entries[i] = hit[1]
      <4>1. PICK k \in DOMAIN hit : hit[k] = entries[i]
        BY <3>1, <1>2, <1>6
      <4>2. k = 1
        BY <2>2, <1>2
      <4> QED BY <4>1, <4>2
    <3> QED BY <3>1, <2>8, <1>4
  <2> QED BY <2>1, <2>7, <2>9, <1>9 DEF hit, after
<1> QED BY <1>8, <1>9

\* set keeps the cache in order and within its size.  A good entry goes only if there is no
\* other way to make room, and then it is the one used longest ago.
LEMMA SetKeepsOrder ==
    ASSUME NEW entries, NEW keys, CacheOK(entries, keys), NEW entry \in PublicEntries, NEW t \in Nat
    PROVE  /\ CacheOK(AfterSet(entries, entry, t, MaxSize), Touched(keys, entry.key))
           /\ \A i \in DOMAIN entries :
                 /\ ~Expired(entries[i], t)
                 /\ \A j \in DOMAIN AfterSet(entries, entry, t, MaxSize) :
                       AfterSet(entries, entry, t, MaxSize)[j].key # entries[i].key
                 => /\ Len(entries) = MaxSize
                    /\ \A j \in DOMAIN entries : ~Expired(entries[j], t)
                    /\ \A j \in DOMAIN entries, k, l \in DOMAIN keys :
                          keys[k] = entries[i].key /\ keys[l] = entries[j].key => k <= l
<1> DEFINE good == {i \in DOMAIN entries : ~Expired(entries[i], t)}
           kept == At(entries, good)
           rest == Without(entries, entry.key)
           after == AfterSet(entries, entry, t, MaxSize)
<1>1. /\ entries \in Seq(PublicEntries) /\ Len(entries) \in Nat /\ Len(entries) <= MaxSize
      /\ Follows(entries, keys)
      /\ keys \in Seq(CacheKeys) /\ Distinct(keys) /\ MaxSize \in Nat \ {0}
      /\ entry.key \in CacheKeys
  BY GatewayAssumption DEF CacheOK, PublicEntries
<1>2. ASSUME NEW some \in Seq(PublicEntries), Follows(some, keys), Len(some) < MaxSize,
             \A i \in DOMAIN some : some[i].key # entry.key
      PROVE  CacheOK(Append(some, entry), Touched(keys, entry.key))
  <2>1. /\ Touched(keys, entry.key) \in Seq(CacheKeys) /\ Distinct(Touched(keys, entry.key))
        /\ Follows(Append(some, entry), Touched(keys, entry.key))
    BY <1>1, <1>2, TouchedOrder
  <2>2. Append(some, entry) \in Seq(PublicEntries) /\ Len(Append(some, entry)) <= MaxSize
    BY <1>1, <1>2
  <2> QED BY <2>1, <2>2 DEF CacheOK
<1>3. /\ Find(entries, entry.key) = <<>> <=> \A i \in DOMAIN entries : entries[i].key # entry.key
      /\ rest \in Seq(PublicEntries) /\ Len(rest) \in 0 .. Len(entries)
      /\ Find(entries, entry.key) # <<>> => Len(rest) < Len(entries)
      /\ \A i \in DOMAIN rest : rest[i].key # entry.key
      /\ Follows(rest, keys)
      /\ \A i \in DOMAIN entries : entries[i].key # entry.key => \E j \in DOMAIN rest : rest[j] = entries[i]
  <2>1. PICK key \in CacheKeys : key = entry.key
    BY <1>1
  <2>2. /\ Find(entries, key) = <<>> <=> \A i \in DOMAIN entries : entries[i].key # key
        /\ Without(entries, key) \in Seq(PublicEntries)
        /\ Len(Without(entries, key)) \in 0 .. Len(entries)
        /\ Find(entries, key) # <<>> => Len(Without(entries, key)) < Len(entries)
        /\ \A i \in DOMAIN Without(entries, key) : Without(entries, key)[i].key # key
        /\ Follows(Without(entries, key), keys)
        /\ \A i \in DOMAIN entries : entries[i].key # key =>
              \E j \in DOMAIN Without(entries, key) : Without(entries, key)[j] = entries[i]
    BY Parts
  <2> QED BY <2>1, <2>2
<1>4. /\ kept \in Seq(PublicEntries) /\ Follows(kept, keys) /\ Len(kept) \in 0 .. Len(entries)
      /\ Len(kept) = Len(entries) => good = DOMAIN entries
      /\ \A k \in DOMAIN kept : \E i \in good : kept[k] = entries[i]
      /\ \A i \in good : \E k \in DOMAIN kept : kept[k] = entries[i]
  <2>1. good \in SUBSET DOMAIN entries
    OBVIOUS
  <2> HIDE DEF good
  <2> QED BY <1>1, <2>1, AtKeeps, AtFollows
<1>5. \A i \in good : i \in DOMAIN entries /\ ~Expired(entries[i], t)
  OBVIOUS
<1>6. \A i \in DOMAIN entries : ~Expired(entries[i], t) => i \in good
  OBVIOUS
<1>7. after = IF Find(entries, entry.key) # <<>> \/ Len(entries) < MaxSize THEN Append(rest, entry)
              ELSE Append(IF Len(kept) >= MaxSize THEN Tail(kept) ELSE kept, entry)
  BY DEF AfterSet, Evicted
<1> HIDE DEF good, kept, rest, after
<1>8. CASE Find(entries, entry.key) # <<>> \/ Len(entries) < MaxSize
  <2>1. after = Append(rest, entry) /\ Len(rest) < MaxSize
    BY <1>1, <1>3, <1>7, <1>8
  <2>2. CacheOK(after, Touched(keys, entry.key))
    BY <2>1, <1>2, <1>3
  <2>3. /\ \A j \in DOMAIN rest : j \in DOMAIN after /\ after[j] = rest[j]
        /\ Len(rest) + 1 \in DOMAIN after /\ after[Len(rest) + 1] = entry
    BY <2>1, <1>3
  <2>4. \A i \in DOMAIN entries : \E j \in DOMAIN after : after[j].key = entries[i].key
    BY <2>3, <1>3
  <2> QED BY <2>2, <2>4 DEF after
<1>9. CASE ~ (Find(entries, entry.key) # <<>> \/ Len(entries) < MaxSize)
  <2>1. Len(entries) = MaxSize /\ \A i \in DOMAIN entries : entries[i].key # entry.key
    BY <1>1, <1>3, <1>9
  <2>2. \A k \in DOMAIN kept : kept[k].key # entry.key
    BY <2>1, <1>4, <1>5
  <2>3. CASE Len(kept) >= MaxSize
    <3>1. /\ after = Append(Tail(kept), entry) /\ kept # <<>>
          /\ Len(kept) = Len(entries) /\ good = DOMAIN entries
      BY <2>1, <2>3, <1>1, <1>4, <1>7, <1>9
    <3>2. /\ Tail(kept) \in Seq(PublicEntries) /\ Len(Tail(kept)) = MaxSize - 1
          /\ DOMAIN kept = 1 .. MaxSize /\ DOMAIN Tail(kept) = 1 .. MaxSize - 1
          /\ \A k \in 1 .. MaxSize - 1 : Tail(kept)[k] = kept[k + 1]
      BY <3>1, <2>1, <1>1, <1>4, HeadTailProperties
    <3>3. Follows(Tail(kept), keys)
      BY <3>1, <1>4, TailFollows
    <3>4. CacheOK(after, Touched(keys, entry.key))
      <4>1. \A k \in DOMAIN Tail(kept) : Tail(kept)[k].key # entry.key
        BY <3>2, <2>2, <1>1
      <4>2. Len(Tail(kept)) < MaxSize
        BY <3>2, <1>1
      <4> QED BY <4>1, <4>2, <3>1, <3>2, <3>3, <1>2
    <3>5. \A k \in 2 .. MaxSize : \E j \in DOMAIN after : after[j] = kept[k]
      <4>1. \A j \in 1 .. MaxSize - 1 : j \in DOMAIN after /\ after[j] = kept[j + 1]
        BY <3>1, <3>2, <1>1
      <4>2. ASSUME NEW k \in 2 .. MaxSize PROVE k - 1 \in DOMAIN after /\ after[k - 1] = kept[k]
        <5>1. k - 1 \in 1 .. MaxSize - 1 /\ (k - 1) + 1 = k
          BY <1>1
        <5> QED BY <5>1, <4>1
      <4> QED BY <4>2
    <3>6. ASSUME NEW i \in DOMAIN entries, \A j \in DOMAIN after : after[j].key # entries[i].key,
                 NEW j \in DOMAIN entries, NEW k \in DOMAIN keys, NEW l \in DOMAIN keys,
                 keys[k] = entries[i].key, keys[l] = entries[j].key
          PROVE  k <= l
      <4>1. PICK p \in 1 .. MaxSize : kept[p] = entries[i]
        BY <3>1, <3>2, <1>4
      <4>2. p = 1
        BY <4>1, <3>5, <3>6, <1>1
      <4>3. PICK q \in 1 .. MaxSize : kept[q] = entries[j]
        BY <3>1, <3>2, <1>4
      <4>4. k \in Nat /\ l \in Nat
        BY <1>1
      <4>5. CASE q = 1
        <5>1. keys[k] = keys[l]
          BY <4>1, <4>2, <4>3, <4>5, <3>6
        <5>2. k = l
          BY <5>1, <1>1 DEF Distinct
        <5> QED BY <5>2, <4>4
      <4>6. CASE q # 1
        <5>1. p < q
          BY <4>2, <4>6, <1>1
        <5>2. k < l
          <6>1. p \in DOMAIN kept /\ q \in DOMAIN kept
            BY <3>2
          <6>2. keys[k] = kept[p].key /\ keys[l] = kept[q].key
            BY <4>1, <4>3, <3>6
          <6> QED BY <6>1, <6>2, <5>1, <1>4 DEF Follows
        <5> QED BY <5>2, <4>4
      <4> QED BY <4>5, <4>6
    <3>7. \A i \in DOMAIN entries : ~Expired(entries[i], t)
      BY <3>1, <1>5
    <3> QED BY <3>4, <3>6, <3>7, <2>1 DEF after
  <2>4. CASE ~ (Len(kept) >= MaxSize)
    <3>1. after = Append(kept, entry) /\ Len(kept) < MaxSize
      BY <2>4, <1>1, <1>4, <1>7, <1>9
    <3>2. CacheOK(after, Touched(keys, entry.key))
      BY <3>1, <2>2, <1>2, <1>4
    <3>3. \A k \in DOMAIN kept : k \in DOMAIN after /\ after[k] = kept[k]
      BY <3>1, <1>4
    <3>4. \A i \in DOMAIN entries : ~Expired(entries[i], t) => \E j \in DOMAIN after : after[j] = entries[i]
      BY <3>3, <1>4, <1>6
    <3> QED BY <3>2, <3>4 DEF after
  <2> QED BY <2>3, <2>4
<1> QED BY <1>8, <1>9

-----------------------------------------------------------------------------
(* The catalogue. *)

Methods ==
    [via : {"cgi", "http"}, platform : {"scope", "android", "web"}, login : BOOLEAN, own : BOOLEAN,
     comm : {"none", "sheet", "loginType", "byPhone", "phoneLogin"}, sign : BOOLEAN, placeholder : BOOLEAN,
     codes : {"raise", "tells", "refresh", "ignores", "qr", "any", "login", "partial", "false"}]

\* A method for everybody, and one that needs a login and shows it.
PublicMethods == {method \in Methods : ~method.login}
LoginMethods ==
    {method \in Methods : /\ method.login /\ method.via = "cgi" /\ ~method.own
                          /\ method.platform \in {"scope", "android"}}

\* A route reads the cookies where its method needs a login.
SafeRoute(route) ==
    /\ route = [method |-> route.method, path |-> route.path, verb |-> route.verb,
                auth |-> route.auth, ttl |-> route.ttl]
    /\ route.method \in PublicMethods \cup LoginMethods
    /\ route.auth \in {NONE, COOKIE_OR_DEFAULT, OPTIONAL} /\ route.ttl \in Nat
    /\ route.method \in LoginMethods => route.auth # NONE

\* The kinds of methods there are.
LEMMA MethodKinds ==
    /\ Public \in PublicMethods /\ OwnComm \in PublicMethods
    /\ Http \in PublicMethods /\ Placeholder \in PublicMethods
    /\ \A platform \in {"android", "web"} : On(platform, Public) \in PublicMethods
    /\ Codes("tells", Public) \in PublicMethods
    /\ Comm("loginType", Codes("refresh", Public)) \in PublicMethods
    /\ Comm("byPhone", On("android", Codes("any", Public))) \in PublicMethods
    /\ Comm("phoneLogin", On("android", Codes("login", Public))) \in PublicMethods
    /\ Codes("qr", Http) \in PublicMethods /\ Codes("partial", OwnComm) \in PublicMethods
    /\ Personal \in LoginMethods /\ Signed(Personal) \in LoginMethods
    /\ Codes("false", Personal) \in LoginMethods
  BY DEF Public, OwnComm, Comm, Http, Placeholder, On, Codes, Personal, Signed, Methods, PublicMethods,
         LoginMethods

\* The kinds of routes there are.
LEMMA RouteKinds ==
    /\ \A method \in PublicMethods : \A path : SafeRoute(R(method, path))
    /\ \A method \in PublicMethods \cup LoginMethods : \A path : SafeRoute(Mine(method, path))
    /\ \A route : SafeRoute(route) =>
          /\ SafeRoute(Cached(PUBLIC_60, route)) /\ SafeRoute(Cached(PUBLIC_300, route))
          /\ SafeRoute(Cached(PUBLIC_600, route))
          /\ \A verb : SafeRoute(Verb(verb, route))
          /\ SafeRoute(Auth(OPTIONAL, route))
<1>1. ASSUME NEW method \in PublicMethods, NEW path PROVE SafeRoute(R(method, path))
  BY <1>1 DEF SafeRoute, R, PublicMethods, LoginMethods, NONE, NoCache
<1>2. ASSUME NEW method \in PublicMethods \cup LoginMethods, NEW path
      PROVE  SafeRoute(Mine(method, path))
  BY <1>2 DEF SafeRoute, Mine, Auth, R, NONE, COOKIE_OR_DEFAULT, NoCache
<1>3. ASSUME NEW route, SafeRoute(route), NEW ttl \in Nat PROVE SafeRoute(Cached(ttl, route))
  BY <1>3 DEF SafeRoute, Cached
<1>4. ASSUME NEW route, SafeRoute(route), NEW verb PROVE SafeRoute(Verb(verb, route))
  BY <1>4 DEF SafeRoute, Verb
<1>5. ASSUME NEW route, SafeRoute(route) PROVE SafeRoute(Auth(OPTIONAL, route))
  BY <1>5 DEF SafeRoute, Auth, OPTIONAL, NONE
<1>6. PUBLIC_60 \in Nat /\ PUBLIC_300 \in Nat /\ PUBLIC_600 \in Nat
  BY DEF PUBLIC_60, PUBLIC_300, PUBLIC_600
<1> QED BY <1>1, <1>2, <1>3, <1>4, <1>5, <1>6

\* Every route is one of them.
LEMMA CatalogIsSafe == \A route \in ROUTES : SafeRoute(route)
<1>1. \A route \in AlbumRoutes : SafeRoute(route)
  BY MethodKinds, RouteKinds
     DEF AlbumRoutes, album_get_detail, album_get_song
<1>2. \A route \in CommentRoutes : SafeRoute(route)
  BY MethodKinds, RouteKinds
     DEF CommentRoutes, comment_add_comment, comment_delete_comment,
         comment_get_comment_count, comment_get_hot_comments, comment_get_moment_comments,
         comment_get_new_comments, comment_get_recommend_comments
<1>3. \A route \in LoginRoutes : SafeRoute(route)
  BY MethodKinds, RouteKinds
     DEF LoginRoutes, login_check_expired, login_check_qrcode, login_get_qrcode,
         login_phone_authorize, login_refresh_credential, login_send_authcode
<1>4. \A route \in LyricRoutes : SafeRoute(route)
  BY MethodKinds, RouteKinds
     DEF LyricRoutes, lyric_get_ai_dict, lyric_get_lyric, lyric_get_multi_style_trans_lyric,
         lyric_get_singing_annotations_info, lyric_is_ai_dict_exists
<1>5. \A route \in MvRoutes : SafeRoute(route)
  BY MethodKinds, RouteKinds
     DEF MvRoutes, mv_get_detail, mv_get_mv_urls
<1>6. \A route \in RecommendRoutes : SafeRoute(route)
  BY MethodKinds, RouteKinds
     DEF RecommendRoutes, recommend_get_guess_recommend, recommend_get_home_feed,
         recommend_get_radar_recommend, recommend_get_recommend_newsong,
         recommend_get_recommend_songlist
<1>7. \A route \in SearchRoutes : SafeRoute(route)
  BY MethodKinds, RouteKinds
     DEF SearchRoutes, search_complete, search_general_search, search_get_hotkey,
         search_quick_search, search_search_by_type
<1>8. \A route \in SingerRoutes : SafeRoute(route)
  BY MethodKinds, RouteKinds
     DEF SingerRoutes, singer_get_album_list, singer_get_desc, singer_get_info,
         singer_get_mv_list, singer_get_similar, singer_get_singer_list,
         singer_get_singer_list_index, singer_get_songs_list, singer_get_tab_detail
<1>9. \A route \in SongRoutes : SafeRoute(route)
  BY MethodKinds, RouteKinds
     DEF SongRoutes, song_get_cdn_dispatch, song_get_detail, song_get_fav_num,
         song_get_labels, song_get_other_version, song_get_producer, song_get_related_mv,
         song_get_related_songlist, song_get_sheet, song_get_similar_song,
         song_get_song_urls, song_has_sheet, song_query_song
<1>10. \A route \in SonglistRoutes : SafeRoute(route)
  BY MethodKinds, RouteKinds
     DEF SonglistRoutes, songlist_add_songs, songlist_create, songlist_del_songs,
         songlist_delete, songlist_get_detail
<1>11. \A route \in SoundPowerRoutes : SafeRoute(route)
  BY MethodKinds, RouteKinds
     DEF SoundPowerRoutes, sound_power_get_detail, sound_power_get_friend_rank,
         sound_power_get_hugevip_rule, sound_power_get_medal_entry, sound_power_get_tasks,
         sound_power_like_friend, sound_power_set_rank_privacy
<1>12. \A route \in TopRoutes : SafeRoute(route)
  BY MethodKinds, RouteKinds
     DEF TopRoutes, top_get_category, top_get_detail
<1>13. \A route \in UserRoutes : SafeRoute(route)
  BY MethodKinds, RouteKinds
     DEF UserRoutes, user_add_dislike, user_cancel_all_dislike_song, user_cancel_dislike,
         user_fav_songlist, user_get_created_songlist, user_get_dislike_list, user_get_fans,
         user_get_fav_album, user_get_fav_mv, user_get_fav_song, user_get_fav_songlist,
         user_get_follow_singers, user_get_follow_user, user_get_friend, user_get_homepage,
         user_get_music_gene, user_get_vip_info, user_unfav_songlist
<1> QED BY <1>1, <1>2, <1>3, <1>4, <1>5, <1>6, <1>7, <1>8, <1>9, <1>10, <1>11, <1>12, <1>13
        DEF ROUTES

\* What a policy decides of who is seen by the server.
PolicyOK ==
    /\ policy.ttl \in Nat /\ policy.auth \in {NONE, COOKIE_OR_DEFAULT, OPTIONAL}
    /\ policy.login \in BOOLEAN /\ policy.placeholder \in BOOLEAN
    /\ policy.shows \in {"nothing", "credential", "uin"}
    /\ policy.ttl # NoCache => policy.auth = NONE
    /\ policy.login => policy.auth # NONE /\ policy.shows = "credential"

LEMMA PoliciesAreOK == policy \in Policies => PolicyOK
<1> SUFFICES ASSUME policy \in Policies PROVE PolicyOK
  OBVIOUS
<1>1. PICK route \in Declarations : ValidRoute(route) /\ policy = PolicyOf(route)
  BY DEF Policies
<1>2. SafeRoute(route)
  <2>1. UserRoutes \subseteq ROUTES
    BY DEF ROUTES
  <2> QED BY <1>1, <2>1, CatalogIsSafe, RouteKinds DEF Declarations
<1>3. /\ policy.auth = route.auth /\ policy.ttl = route.ttl /\ policy.login = route.method.login
      /\ policy.placeholder = route.method.placeholder
      /\ policy.shows = IF route.auth = NONE THEN "nothing" ELSE Shows(route.method, "android")
  BY <1>1 DEF PolicyOf
<1>4. Shows(route.method, "android") \in {"nothing", "credential", "uin"}
  BY DEF Shows
<1>5. route.method \in LoginMethods => Shows(route.method, "android") = "credential"
  BY DEF Shows, PlatformOf, LoginMethods, Methods
<1>6. route.method \in Methods /\ (route.method \in LoginMethods <=> route.method.login)
  BY <1>2 DEF SafeRoute, PublicMethods, LoginMethods
<1> QED BY <1>1, <1>2, <1>3, <1>4, <1>5, <1>6 DEF PolicyOK, SafeRoute, ValidRoute, Methods

-----------------------------------------------------------------------------
(* The invariant. *)

\* A request that was let through to the server.
AskedOK(q) ==
    /\ q \in [stage : {"asked"}, key : Keys, cookie : {"none", "valid", "broken"},
              who : {"none", "caller", "pool"}, sent : Sents, tries : {1, 2}]
    /\ q.sent.who = q.who
    /\ policy.auth = NONE => q.who = "none"
    /\ q.who = "pool" => granted /\ q.cookie # "valid"
    /\ policy.login =>
          /\ q.who # "none" /\ q.sent = [who |-> q.who, as |-> "credential"]
          /\ q.cookie = "valid" => q.who = "caller"

\* A request with an answer under way.
SendingOK(q) ==
    /\ q.stage = "sending"
    /\ q.from = "cache" => q.about.sent.who = "none"
    /\ q.from = "mark" => q.about.status \in {502, 503, 504}
    /\ q.from = "gateway" => (q.about.cookie = "valid" => q.about.status = 422)

RequestsOK ==
    /\ requests = [r \in Requests |-> requests[r]]
    /\ \A r \in Requests :
          \/ requests[r] \in {Idle, Entered, Done}
          \/ AskedOK(requests[r])
          \/ SendingOK(requests[r])

Slots == active \in Nat /\ lost \in Nat /\ SlotsConserved

\* The limiter remembers of the current window and of later ones all that it let through.
Meter ==
    /\ now \in 0 .. MaxNow
    /\ passed \in [Clients \X Windows -> Nat] /\ counters \in [Clients \X Windows -> Nat]
    /\ RateHolds
    /\ \A place \in Clients \X Windows : place[2] >= now \div Window => passed[place] <= counters[place]

GatewayInv ==
    /\ PolicyOK /\ granted \in BOOLEAN
    /\ RequestsOK /\ Slots /\ Meter /\ CacheOK(store, recency)

LEMMA WindowsPass ==
    ASSUME NEW a \in Nat, NEW b \in Nat, NEW w \in Nat \ {0}, a <= b
    PROVE  /\ a \div w \in Nat /\ b \div w \in Nat
           /\ a \div w <= b \div w
  OBVIOUS

LEMMA InitGateway == Init => GatewayInv
<1> SUFFICES ASSUME Init PROVE GatewayInv
  OBVIOUS
<1>1. PolicyOK /\ granted \in BOOLEAN
  BY PoliciesAreOK DEF Init
<1>2. RequestsOK
  BY DEF Init, RequestsOK, Idle
<1>3. Slots
  <2>1. Live = {}
    BY DEF Init, Live, Idle
  <2> QED BY <2>1, FS_EmptySet, GatewayAssumption DEF Init, Slots, SlotsConserved
<1>4. Meter
  <2>1. Windows \subseteq Nat
    BY DEF Windows
  <2> QED BY <2>1, GatewayAssumption DEF Init, Meter, RateHolds
<1>5. CacheOK(store, recency)
  <2>1. CASE store = <<>>
    <3>1. recency = <<>>
      BY <2>1 DEF Init
    <3> QED BY <2>1, <3>1, GatewayAssumption DEF CacheOK, Distinct, Follows
  <2>2. CASE store # <<>>
    <3> DEFINE until(i) == IF i = 1 THEN policy.ttl \div 2 ELSE policy.ttl
    <3>1. store = [i \in 1 .. MaxSize |->
                      [key |-> AnswerKey(i), until |-> until(i), sent |-> Nobody, result |-> "payload"]]
      BY <2>2 DEF Init
    <3>2. \A i \in 1 .. MaxSize : until(i) \in Nat
      BY <1>1 DEF PolicyOK
    <3>3. MaxSize \in Nat /\ \A i \in 1 .. MaxSize : i \in Keys
      BY GatewayAssumption
    <3> HIDE DEF until
    <3>4. \A i \in 1 .. MaxSize : store[i] \in PublicEntries /\ store[i].key = AnswerKey(i)
      BY <3>1, <3>2, <3>3 DEF PublicEntries, CacheKeys, Sents, AnswerKey, Nobody
    <3>5. DOMAIN store = 1 .. MaxSize /\ recency = [i \in 1 .. MaxSize |-> store[i].key]
      BY <3>1 DEF Init
    <3>6. store \in Seq(PublicEntries) /\ Len(store) = MaxSize
      BY <3>1, <3>3, <3>4
    <3>7. recency \in Seq(CacheKeys) /\ DOMAIN recency = 1 .. MaxSize
      BY <3>3, <3>4, <3>5 DEF PublicEntries
    <3>8. \A i \in 1 .. MaxSize : recency[i] = <<"answer", i>> /\ store[i].key = <<"answer", i>>
      BY <3>4, <3>5 DEF AnswerKey
    <3> QED BY <3>3, <3>5, <3>6, <3>7, <3>8 DEF CacheOK, Distinct, Follows
  <2> QED BY <2>1, <2>2
<1> QED BY <1>1, <1>2, <1>3, <1>4, <1>5 DEF GatewayInv

-----------------------------------------------------------------------------
(* Slots. *)

\* How the requests under way change with one of them.
LEMMA LiveChanges ==
    ASSUME RequestsOK, NEW r \in Requests, NEW q, requests' = [requests EXCEPT ![r] = q]
    PROVE  /\ Cardinality(Live) \in Nat
           /\ q.stage \notin {"idle", "done"} =>
                 Cardinality(Live)' = IF r \in Live THEN Cardinality(Live) ELSE Cardinality(Live) + 1
           /\ q.stage \in {"idle", "done"} =>
                 /\ r \in Live => Cardinality(Live) > 0 /\ Cardinality(Live)' = Cardinality(Live) - 1
                 /\ r \notin Live => Cardinality(Live)' = Cardinality(Live)
<1>1. IsFiniteSet(Requests)
  BY GatewayAssumption, FS_Interval DEF Requests
<1>2. IsFiniteSet(Live)
  BY <1>1, FS_Subset DEF Live
<1>3. Cardinality(Live) \in Nat /\ (r \in Live => Cardinality(Live) # 0)
  BY <1>2, FS_CardinalityType, FS_EmptySet
<1>4. /\ requests'[r] = q
      /\ \A x \in Requests : x # r => requests'[x] = requests[x]
  BY DEF RequestsOK
<1>5. Live' = IF q.stage \in {"idle", "done"} THEN Live \ {r} ELSE Live \cup {r}
  BY <1>4 DEF Live, Requests
<1>6. /\ Cardinality(Live \cup {r}) = IF r \in Live THEN Cardinality(Live) ELSE Cardinality(Live) + 1
      /\ Cardinality(Live \ {r}) = IF r \in Live THEN Cardinality(Live) - 1 ELSE Cardinality(Live)
  BY <1>2, FS_AddElement, FS_RemoveElement
<1> QED BY <1>3, <1>5, <1>6

\* A reply leaves a request under way, whoever answers.
LEMMA SlotsOfReply ==
    ASSUME RequestsOK, Slots, NEW r \in Requests, r \in Live, NEW q,
           requests' = [requests EXCEPT ![r] = q], q.stage \notin {"idle", "done"},
           UNCHANGED <<active, lost>>
    PROVE  Slots'
  BY LiveChanges DEF Slots, SlotsConserved

LEMMA SlotsOfReplies ==
    ASSUME RequestsOK, Slots, NEW r \in Requests, r \in Live, UNCHANGED <<active, lost>>
    PROVE  /\ \A from, about : Reply(r, from, about) => Slots'
           /\ \A key, cookie, who : Ask(r, key, cookie, who) => Slots'
<1>1. ASSUME NEW from, NEW about, Reply(r, from, about) PROVE Slots'
  <2> DEFINE q == [stage |-> "sending", from |-> from, about |-> about]
  <2>1. requests' = [requests EXCEPT ![r] = q] /\ q.stage \notin {"idle", "done"}
    BY <1>1 DEF Reply
  <2> HIDE DEF q
  <2> QED BY <2>1, SlotsOfReply
<1>2. ASSUME NEW key, NEW cookie, NEW who, Ask(r, key, cookie, who) PROVE Slots'
  <2> DEFINE q == [stage |-> "asked", key |-> key, cookie |-> cookie, who |-> who,
                   sent |-> Shown(who), tries |-> 1]
  <2>1. CASE NeedsLogin(policy, who # "none")
    BY <2>1, <1>1, <1>2 DEF Ask, Refuse
  <2>2. CASE ~NeedsLogin(policy, who # "none")
    <3>1. requests' = [requests EXCEPT ![r] = q] /\ q.stage \notin {"idle", "done"}
      BY <2>2, <1>2 DEF Ask
    <3> HIDE DEF q
    <3> QED BY <3>1, SlotsOfReply
  <2> QED BY <2>1, <2>2
<1> QED BY <1>1, <1>2

LEMMA SlotsOfEnd ==
    ASSUME RequestsOK, Slots, NEW r \in Requests, r \in Live,
           requests' = [requests EXCEPT ![r] = Done]
    PROVE  /\ Release /\ UNCHANGED lost => Slots'
           /\ lost' = lost + 1 /\ UNCHANGED active => Slots'
<1>1. Done.stage = "done"
  BY DEF Done
<1>2. Cardinality(Live) \in Nat /\ Cardinality(Live) > 0 /\ Cardinality(Live)' = Cardinality(Live) - 1
  BY <1>1, LiveChanges
<1>3. Limit \in Nat
  BY GatewayAssumption
<1> QED BY <1>2, <1>3 DEF Slots, SlotsConserved, Release

LEMMA NextSlots == RequestsOK /\ Slots /\ [Next]_vars => Slots'
<1> SUFFICES ASSUME RequestsOK, Slots, [Next]_vars PROVE Slots'
  OBVIOUS
<1>1. ASSUME NEW r \in Requests, NEW address \in Addresses, Arrive(r, address) PROVE Slots'
  <2>1. r \notin Live /\ UNCHANGED lost
    BY <1>1 DEF Arrive, Live, Idle
  <2>2. \/ requests' = [requests EXCEPT ![r] = Done] /\ UNCHANGED active
        \/ active < Limit /\ active' = active + 1 /\ requests' = [requests EXCEPT ![r] = Entered]
    BY <1>1 DEF Arrive, Acquire
  <2>3. Done.stage = "done" /\ Entered.stage = "entered"
    BY DEF Done, Entered
  <2> QED BY <2>1, <2>2, <2>3, LiveChanges, GatewayAssumption DEF Slots, SlotsConserved
<1>2. ASSUME NEW r \in Requests, Reject(r) PROVE Slots'
  <2>1. r \in Live
    BY <1>2 DEF Reject, Live, Entered
  <2> QED BY <2>1, <1>2, SlotsOfReplies DEF Reject, Refuse, limitVars
<1>3. ASSUME NEW r \in Requests, Begin(r) PROVE Slots'
  <2>1. r \in Live
    BY <1>3 DEF Begin, Live, Entered
  <2>2. \/ \E from, about : Reply(r, from, about)
        \/ \E key, cookie, who : Ask(r, key, cookie, who)
    BY <1>3 DEF Begin, LookUp, Refuse
  <2> QED BY <2>1, <2>2, <1>3, SlotsOfReplies DEF Begin, limitVars
<1>4. ASSUME NEW r \in Requests, Refresh(r) PROVE Slots'
  <2>1. requests' = [requests EXCEPT ![r] = [requests[r] EXCEPT !.tries = 2]]
    BY <1>4 DEF Refresh
  <2>2. r \in Live /\ [requests[r] EXCEPT !.tries = 2].stage = "asked"
    BY <1>4 DEF Refresh, Asked
  <2> QED BY <2>1, <2>2, <1>4, SlotsOfReply DEF Refresh, limitVars
<1>5. ASSUME NEW r \in Requests, Crash(r) PROVE Slots'
  <2>1. r \in Live /\ requests' = [requests EXCEPT ![r] = Done] /\ Release /\ UNCHANGED lost
    BY <1>5 DEF Crash, Asked
  <2> QED BY <2>1, SlotsOfEnd
<1>6. ASSUME NEW r \in Requests, Finish(r) PROVE Slots'
  <2>1. r \in Live /\ requests' = [requests EXCEPT ![r] = Done] /\ Release /\ UNCHANGED lost
    BY <1>6 DEF Finish, Sending
  <2> QED BY <2>1, SlotsOfEnd
<1>7. ASSUME NEW r \in Requests, Cut(r) PROVE Slots'
  <2>1. r \in Live /\ requests' = [requests EXCEPT ![r] = Done] /\ lost' = lost + 1 /\ UNCHANGED active
    BY <1>7 DEF Cut
  <2> QED BY <2>1, SlotsOfEnd
<1>8. ASSUME NEW r \in Requests, NEW outcome \in Outcomes, Answer(r, outcome) PROVE Slots'
  <2>1. r \in Live /\ Reply(r, "server", <<>>)
    BY <1>8 DEF Answer, Asked
  <2> QED BY <2>1, <1>8, SlotsOfReplies DEF Answer, limitVars
<1>9. ASSUME Tick \/ UNCHANGED vars PROVE Slots'
  BY <1>9 DEF Tick, vars, limitVars, Slots, SlotsConserved, Live
<1> QED BY <1>1, <1>2, <1>3, <1>4, <1>5, <1>6, <1>7, <1>8, <1>9 DEF Next

-----------------------------------------------------------------------------
(* Rates. *)

LEMMA NextMeter == Meter /\ [Next]_vars => Meter'
<1> SUFFICES ASSUME Meter, [Next]_vars PROVE Meter'
  OBVIOUS
<1> USE GatewayAssumption
<1>1. now \in Nat /\ now <= MaxNow /\ MaxNow \in Nat /\ Window \in Nat \ {0} /\ Capacity \in Nat
  BY DEF Meter
<1>2. PICK window \in Nat : window = now \div Window /\ window \in Windows /\ Windows \subseteq Nat
  BY <1>1, WindowsPass DEF Windows
<1>3. ASSUME UNCHANGED <<now, passed, counters>> PROVE Meter'
  BY <1>3 DEF Meter, RateHolds
<1>4. ASSUME NEW r \in Requests, NEW address \in Addresses, Arrive(r, address) PROVE Meter'
  <2>1. CASE address \in {"invalid", "denied", "exempt"}
    BY <2>1, <1>3, <1>4 DEF Arrive
  <2>2. CASE address \notin {"invalid", "denied", "exempt"}
    <3> DEFINE place == <<address, window>>
    <3>1. address \in Clients /\ place \in Clients \X Windows
      BY <2>2, <1>2 DEF Addresses
    <3>2. now' = now /\ Check(address)
      BY <2>2, <1>4 DEF Arrive
    <3>3. \/ passed' = passed
          \/ counters'[place] <= Capacity /\ passed' = [passed EXCEPT ![place] = @ + 1]
      BY <2>2, <1>2, <1>4 DEF Arrive
    <3>4. counters' = [other \in Clients \X Windows |->
              IF other[1] # address THEN counters[other]
              ELSE IF other[2] = window THEN counters[other] + 1
              ELSE IF other[2] < window - 1 THEN 0
              ELSE counters[other]]
      BY <3>2, <1>2 DEF Check, Meter
    <3>5. counters' \in [Clients \X Windows -> Nat]
      BY <3>4 DEF Meter
    <3>6. /\ counters'[place] = counters[place] + 1
          /\ \A other \in Clients \X Windows : other[2] >= window => counters'[other] >= counters[other]
      <4>1. counters'[place] = counters[place] + 1
        BY <3>1, <3>4
      <4>2. ASSUME NEW other \in Clients \X Windows, other[2] >= window
            PROVE  counters'[other] >= counters[other]
        <5>1. counters[other] \in Nat /\ other[2] \in Nat
          BY <1>2 DEF Meter
        <5>2. ~ (other[2] < window - 1)
          BY <5>1, <4>2
        <5> QED BY <5>1, <5>2, <3>4
      <4> QED BY <4>1, <4>2
    <3>7. passed' \in [Clients \X Windows -> Nat]
      BY <3>1, <3>3 DEF Meter
    <3>8. /\ \A other \in Clients \X Windows : other # place => passed'[other] = passed[other]
          /\ \/ passed'[place] = passed[place]
             \/ passed'[place] = passed[place] + 1 /\ counters'[place] <= Capacity
      BY <3>1, <3>3 DEF Meter
    <3>9. passed[place] <= counters[place] /\ passed[place] \in Nat /\ counters[place] \in Nat
      BY <3>1, <1>2 DEF Meter
    <3>10. ASSUME NEW other \in Clients \X Windows PROVE passed'[other] <= Capacity
      <4>1. passed[other] <= Capacity /\ passed[other] \in Nat
        BY DEF Meter, RateHolds
      <4> HIDE DEF place
      <4> QED BY <4>1, <3>6, <3>8, <3>9, <1>1
    <3>11. ASSUME NEW other \in Clients \X Windows, other[2] >= window
           PROVE  passed'[other] <= counters'[other]
      <4>1. /\ passed[other] \in Nat /\ counters[other] \in Nat /\ counters'[other] \in Nat
            /\ passed[other] <= counters[other] /\ counters'[other] >= counters[other]
        BY <3>5, <3>6, <3>11, <1>2 DEF Meter
      <4> HIDE DEF place
      <4> QED BY <4>1, <3>6, <3>8, <3>9
    <3>12. DOMAIN passed' = Clients \X Windows
      BY <3>7
    <3> QED BY <3>2, <3>5, <3>7, <3>10, <3>11, <3>12, <1>2 DEF Meter, RateHolds
  <2> QED BY <2>1, <2>2
<1>5. ASSUME Tick PROVE Meter'
  <2>1. now' \in 0 .. MaxNow /\ now <= now' /\ UNCHANGED <<passed, counters>>
    BY <1>1, <1>5 DEF Tick, limitVars
  <2>2. now \div Window <= now' \div Window /\ now \div Window \in Nat /\ now' \div Window \in Nat
    <3>1. PICK later \in Nat : later = now' /\ now <= later
      BY <1>1, <2>1
    <3>2. now \div Window <= later \div Window /\ now \div Window \in Nat /\ later \div Window \in Nat
      BY <1>1, <3>1, WindowsPass
    <3> QED BY <3>1, <3>2
  <2>3. \A place \in Clients \X Windows : place[2] \in Nat
    BY <1>2
  <2>4. \A place \in Clients \X Windows : place[2] >= now' \div Window => place[2] >= now \div Window
    BY <2>2, <2>3
  <2> QED BY <2>1, <2>4 DEF Meter, RateHolds
<1>6. ASSUME NEW r \in Requests, Reject(r) \/ Begin(r) \/ Refresh(r) \/ Crash(r) \/ Finish(r) \/ Cut(r)
      PROVE  Meter'
  BY <1>3, <1>6 DEF Reject, Begin, Refresh, Crash, Finish, Cut, limitVars
<1>7. ASSUME NEW r \in Requests, NEW outcome \in Outcomes, Answer(r, outcome) PROVE Meter'
  BY <1>3, <1>7 DEF Answer, limitVars
<1>8. CASE UNCHANGED vars
  BY <1>3, <1>8 DEF vars, limitVars
<1> QED BY <1>4, <1>5, <1>6, <1>7, <1>8 DEF Next

-----------------------------------------------------------------------------
(* The cache. *)

\* What a step may do to entries that are still good.
EvictsOldest ==
    \A i \in DOMAIN store :
       /\ ~Expired(store[i], now)
       /\ \A j \in DOMAIN store' : store'[j].key # store[i].key
       => /\ Len(store) = MaxSize
          /\ \A j \in DOMAIN store : ~Expired(store[j], now)
          /\ \A j \in DOMAIN store, k, l \in DOMAIN recency :
                recency[k] = store[i].key /\ recency[l] = store[j].key => k <= l

LEMMA LookUpKeepsCache ==
    ASSUME CacheOK(store, recency), now \in Nat, NEW r, NEW key \in Keys, NEW cookie, NEW who,
           LookUp(r, key, cookie, who)
    PROVE  /\ CacheOK(store', recency') /\ EvictsOldest
           /\ \/ Ask(r, key, cookie, who)
              \/ \E about : Reply(r, "cache", about) /\ about.sent.who = "none"
              \/ \E about : Reply(r, "mark", about) /\ about.status \in {502, 503, 504}
<1> DEFINE answer == AnswerKey(key)
           failure == FailureKey(key)
           hit == Hit(store, answer, now)
           missed == AfterGet(store, answer, now)
           mark == Hit(missed, failure, now)
           after == AfterGet(missed, failure, now)
<1>1. answer \in CacheKeys /\ failure \in CacheKeys /\ failure[1] = "failure"
  BY DEF AnswerKey, FailureKey, CacheKeys
<1>2. IF hit # <<>>
      THEN /\ Reply(r, "cache", [sent |-> hit[1].sent])
           /\ store' = missed /\ Touch(answer)
      ELSE /\ store' = after
           /\ IF mark # <<>>
              THEN Reply(r, "mark", [status |-> StatusOf(mark[1].result)]) /\ Touch(failure)
              ELSE Ask(r, key, cookie, who) /\ UNCHANGED recency
  BY DEF LookUp
<1> HIDE DEF answer, failure
<1>3. /\ hit = <<>> => CacheOK(missed, recency)
      /\ hit # <<>> =>
            CacheOK(missed, Touched(recency, answer)) /\ hit[1] \in PublicEntries /\ hit[1].key = answer
      /\ \A i \in DOMAIN store : ~Expired(store[i], now) => \E j \in DOMAIN missed : missed[j] = store[i]
  BY <1>1, GetKeepsOrder
<1>4. CacheOK(missed, recency) =>
         /\ mark = <<>> => CacheOK(after, recency)
         /\ mark # <<>> =>
               CacheOK(after, Touched(recency, failure)) /\ mark[1] \in PublicEntries /\ mark[1].key = failure
         /\ \A i \in DOMAIN missed : ~Expired(missed[i], now) => \E j \in DOMAIN after : after[j] = missed[i]
  <2> HIDE DEF missed
  <2> QED BY <1>1, GetKeepsOrder
<1> HIDE DEF hit, missed, mark, after
<1>5. \A k : Touch(k) => recency' = Touched(recency, k)
  BY DEF Touch, Touched
<1>6. CASE hit # <<>>
  <2>1. CacheOK(store', recency')
    BY <1>2, <1>3, <1>5, <1>6
  <2>2. EvictsOldest
    BY <1>2, <1>3, <1>6 DEF EvictsOldest
  <2>3. [sent |-> hit[1].sent].sent.who = "none"
    BY <1>3, <1>6 DEF PublicEntries
  <2> QED BY <2>1, <2>2, <2>3, <1>2, <1>6
<1>7. CASE hit = <<>>
  <2>1. CacheOK(store', recency')
    BY <1>2, <1>3, <1>4, <1>5, <1>7
  <2>2. \A i \in DOMAIN store : ~Expired(store[i], now) => \E j \in DOMAIN after : after[j] = store[i]
    BY <1>3, <1>4, <1>7
  <2>3. EvictsOldest
    BY <2>2, <1>2, <1>7 DEF EvictsOldest
  <2>4. mark # <<>> => [status |-> StatusOf(mark[1].result)].status \in {502, 503, 504}
    <3>1. mark # <<>> => mark[1].result \in ServerFailures
      BY <1>1, <1>3, <1>4, <1>7 DEF PublicEntries
    <3> QED BY <3>1 DEF ServerFailures, StatusOf
  <2> QED BY <2>1, <2>3, <2>4, <1>2, <1>7
<1> QED BY <1>6, <1>7

LEMMA KeepKeepsCache ==
    ASSUME CacheOK(store, recency), now \in Nat, PolicyOK, NEW r \in Requests,
           AskedOK(requests[r]), NEW result, Keep(r, result)
    PROVE  CacheOK(store', recency') /\ EvictsOldest
<1>1. ASSUME NEW entry \in PublicEntries, store' = AfterSet(store, entry, now, MaxSize),
             Touch(entry.key)
      PROVE  CacheOK(store', recency') /\ EvictsOldest
  <2>1. recency' = Touched(recency, entry.key)
    BY <1>1 DEF Touch, Touched
  <2>2. CacheOK(store', recency')
    BY <2>1, <1>1, SetKeepsOrder
  <2>3. EvictsOldest
    BY <1>1, SetKeepsOrder DEF EvictsOldest
  <2> QED BY <2>2, <2>3
<1>2. CASE UNCHANGED cacheVars
  BY <1>2 DEF cacheVars, EvictsOldest
<1>3. ASSUME policy.ttl # NoCache
      PROVE  requests[r].sent \in Sents /\ requests[r].sent.who = "none" /\ requests[r].key \in Keys
  BY <1>3 DEF PolicyOK, AskedOK
<1>4. CASE policy.ttl # NoCache /\ result = "payload"
  <2> DEFINE entry == Entry(AnswerKey(requests[r].key), policy.ttl, requests[r].sent, result)
  <2>1. entry \in PublicEntries
    BY <1>3, <1>4 DEF Entry, AnswerKey, PublicEntries, CacheKeys, PolicyOK
  <2>2. store' = AfterSet(store, entry, now, MaxSize) /\ Touch(entry.key)
    BY <1>4 DEF Keep
  <2> HIDE DEF entry
  <2> QED BY <2>1, <2>2, <1>1
<1>5. CASE policy.ttl # NoCache /\ result # "payload" /\ IsUpstreamFailure(result)
  <2> DEFINE entry == Entry(FailureKey(requests[r].key), NegativeTtl, requests[r].sent, result)
  <2>1. result \in ServerFailures
    BY <1>5 DEF IsUpstreamFailure, StatusOf, ServerFailures
  <2>2. entry \in PublicEntries
    BY <2>1, <1>3, <1>5, GatewayAssumption DEF Entry, FailureKey, PublicEntries, CacheKeys
  <2>3. store' = AfterSet(store, entry, now, MaxSize) /\ Touch(entry.key)
    BY <1>5 DEF Keep
  <2> HIDE DEF entry
  <2> QED BY <2>2, <2>3, <1>1
<1> QED BY <1>2, <1>4, <1>5 DEF Keep

\* A request that was asked is one that was let through.
LEMMA AskedIsOK == RequestsOK => \A r \in Asked : AskedOK(requests[r])
  BY DEF RequestsOK, Asked, Live, SendingOK, Idle, Entered, Done

LEMMA NextCache == GatewayInv /\ [Next]_vars => CacheOK(store', recency') /\ EvictsOldest
<1> SUFFICES ASSUME GatewayInv, [Next]_vars PROVE CacheOK(store', recency') /\ EvictsOldest
  OBVIOUS
<1>1. CacheOK(store, recency) /\ now \in Nat /\ PolicyOK /\ RequestsOK
  BY DEF GatewayInv, Meter
<1>2. ASSUME UNCHANGED cacheVars PROVE CacheOK(store', recency') /\ EvictsOldest
  BY <1>1, <1>2 DEF cacheVars, EvictsOldest
<1>3. ASSUME NEW r \in Requests, Begin(r) PROVE CacheOK(store', recency') /\ EvictsOldest
  <2>1. \/ UNCHANGED cacheVars
        \/ \E key \in Keyed : \E cookie, who : LookUp(r, key, cookie, who)
    BY <1>3 DEF Begin
  <2>2. Keyed \subseteq Keys
    BY GatewayAssumption DEF Keyed
  <2> QED BY <2>1, <2>2, <1>1, <1>2, LookUpKeepsCache
<1>4. ASSUME NEW r \in Requests, NEW outcome \in Outcomes, Answer(r, outcome)
      PROVE  CacheOK(store', recency') /\ EvictsOldest
  <2>1. r \in Asked /\ \E result : Keep(r, result)
    BY <1>4 DEF Answer
  <2> QED BY <2>1, <1>1, AskedIsOK, KeepKeepsCache
<1>5. ASSUME NEW r \in Requests, NEW address \in Addresses, Arrive(r, address)
      PROVE  CacheOK(store', recency') /\ EvictsOldest
  BY <1>2, <1>5 DEF Arrive
<1>6. ASSUME NEW r \in Requests, Reject(r) \/ Refresh(r) \/ Crash(r) \/ Finish(r) \/ Cut(r)
      PROVE  CacheOK(store', recency') /\ EvictsOldest
  BY <1>2, <1>6 DEF Reject, Refresh, Crash, Finish, Cut
<1>7. CASE Tick \/ UNCHANGED vars
  BY <1>2, <1>7 DEF Tick, vars, cacheVars
<1> QED BY <1>3, <1>4, <1>5, <1>6, <1>7 DEF Next

-----------------------------------------------------------------------------
(* Requests. *)

LEMMA RequestChanges ==
    ASSUME RequestsOK, UNCHANGED configVars, NEW r \in Requests, NEW q,
           requests' = [requests EXCEPT ![r] = q],
           q \in {Idle, Entered, Done} \/ AskedOK(q) \/ SendingOK(q)
    PROVE  RequestsOK'
<1>1. /\ requests' = [x \in Requests |-> requests'[x]]
      /\ requests'[r] = q /\ \A x \in Requests : x # r => requests'[x] = requests[x]
  BY DEF RequestsOK
<1>2. policy' = policy /\ granted' = granted
  BY DEF configVars
<1>3. \A x \in Requests :
         \/ requests'[x] \in {Idle, Entered, Done} \/ AskedOK(requests'[x]) \/ SendingOK(requests'[x])
  BY <1>1 DEF RequestsOK
<1> QED BY <1>1, <1>2, <1>3 DEF RequestsOK, AskedOK, SendingOK, Idle, Entered, Done

LEMMA ReplyIsOK ==
    ASSUME RequestsOK, UNCHANGED configVars, NEW r \in Requests, NEW from, NEW about,
           Reply(r, from, about),
           from = "cache" => about.sent.who = "none",
           from = "mark" => about.status \in {502, 503, 504},
           from = "gateway" => (about.cookie = "valid" => about.status = 422)
    PROVE  RequestsOK'
<1> DEFINE q == [stage |-> "sending", from |-> from, about |-> about]
<1>1. requests' = [requests EXCEPT ![r] = q]
  BY DEF Reply
<1>2. SendingOK(q)
  BY DEF SendingOK
<1> HIDE DEF q
<1> QED BY <1>1, <1>2, RequestChanges

LEMMA RefuseIsOK ==
    ASSUME RequestsOK, UNCHANGED configVars, NEW r \in Requests, NEW cookie, NEW status,
           Refuse(r, cookie, status), cookie = "valid" => status = 422
    PROVE  RequestsOK'
<1> DEFINE about == [cookie |-> cookie, status |-> status]
<1>1. Reply(r, "gateway", about) /\ about.cookie = cookie /\ about.status = status
  BY DEF Refuse
<1> HIDE DEF about
<1> QED BY <1>1, ReplyIsOK

LEMMA AskIsOK ==
    ASSUME RequestsOK, PolicyOK, granted \in BOOLEAN, UNCHANGED configVars, NEW r \in Requests,
           NEW key \in Keys, NEW cookie \in Cookies, NEW who \in Resolved(cookie),
           cookie = "broken" => policy.auth = NONE,
           Ask(r, key, cookie, who)
    PROVE  RequestsOK'
<1>1. CASE NeedsLogin(policy, who # "none")
  <2>1. policy.login /\ who = "none" /\ policy.auth # NONE
    BY <1>1 DEF NeedsLogin, PolicyOK
  <2>2. cookie # "valid"
    BY <2>1 DEF Resolved
  <2> QED BY <1>1, <2>2, RefuseIsOK DEF Ask
<1>2. CASE ~NeedsLogin(policy, who # "none")
  <2> DEFINE q == [stage |-> "asked", key |-> key, cookie |-> cookie, who |-> who,
                   sent |-> Shown(who), tries |-> 1]
  <2>1. requests' = [requests EXCEPT ![r] = q]
    BY <1>2 DEF Ask
  <2>2. Shown(who) \in Sents /\ Shown(who).who = who
        /\ (who # "none" => Shown(who) = [who |-> who, as |-> policy.shows])
    BY DEF Shown, Nobody, Sents, Resolved, PolicyOK
  <2>3. /\ cookie \in {"none", "valid", "broken"} /\ who \in {"none", "caller", "pool"}
        /\ policy.auth = NONE => who = "none"
        /\ who = "pool" => granted /\ cookie # "valid"
        /\ policy.auth # NONE /\ cookie = "valid" => who = "caller"
    BY DEF Cookies, Resolved
  <2>4. policy.login => policy.auth # NONE /\ policy.shows = "credential" /\ who # "none"
    BY <1>2 DEF NeedsLogin, PolicyOK
  <2>5. AskedOK(q)
    BY <2>2, <2>3, <2>4 DEF AskedOK
  <2> HIDE DEF q
  <2> QED BY <2>1, <2>5, RequestChanges
<1> QED BY <1>1, <1>2

\* A request with an answer under way is one of those described.
LEMMA SendingIsOK == RequestsOK => \A r \in Sending : SendingOK(requests[r])
<1>1. ASSUME NEW r, requests[r].stage = "sending", requests[r] \in {Idle, Entered, Done} PROVE FALSE
  BY <1>1 DEF Idle, Entered, Done
<1>2. ASSUME NEW r, requests[r].stage = "sending", AskedOK(requests[r]) PROVE FALSE
  BY <1>2 DEF AskedOK
<1> QED BY <1>1, <1>2 DEF RequestsOK, Sending, Live

LEMMA ConfigStays == [Next]_vars => UNCHANGED configVars
<1>1. \A r, address : Arrive(r, address) => UNCHANGED configVars
  BY DEF Arrive
<1>2. \A r : Reject(r) \/ Begin(r) \/ Refresh(r) => UNCHANGED configVars
  BY DEF Reject, Begin, Refresh
<1>3. \A r : Crash(r) \/ Finish(r) \/ Cut(r) => UNCHANGED configVars
  BY DEF Crash, Finish, Cut
<1>4. \A r, outcome : Answer(r, outcome) => UNCHANGED configVars
  BY DEF Answer
<1>5. Tick \/ UNCHANGED vars => UNCHANGED configVars
  BY DEF Tick, vars, configVars
<1> QED BY <1>1, <1>2, <1>3, <1>4, <1>5 DEF Next

LEMMA NextRequests == GatewayInv /\ [Next]_vars => RequestsOK'
<1> SUFFICES ASSUME GatewayInv, [Next]_vars PROVE RequestsOK'
  OBVIOUS
<1>1. /\ CacheOK(store, recency) /\ now \in Nat /\ PolicyOK /\ granted \in BOOLEAN /\ RequestsOK
      /\ UNCHANGED configVars
  BY ConfigStays DEF GatewayInv, Meter
<1>2. ASSUME UNCHANGED requests PROVE RequestsOK'
  BY <1>1, <1>2 DEF RequestsOK, AskedOK, SendingOK, configVars, Idle, Entered, Done
<1>3. ASSUME NEW r \in Requests,
             \/ requests' = [requests EXCEPT ![r] = Done] \/ requests' = [requests EXCEPT ![r] = Entered]
      PROVE  RequestsOK'
  BY <1>1, <1>3, RequestChanges
<1>4. ASSUME NEW r \in Requests, NEW address \in Addresses, Arrive(r, address) PROVE RequestsOK'
  BY <1>3, <1>4 DEF Arrive, Acquire
<1>5. ASSUME NEW r \in Requests, Crash(r) \/ Finish(r) \/ Cut(r) PROVE RequestsOK'
  BY <1>3, <1>5 DEF Crash, Finish, Cut
<1>6. ASSUME NEW r \in Requests, Reject(r) PROVE RequestsOK'
  BY <1>1, <1>6, RefuseIsOK DEF Reject
<1>7. ASSUME NEW r \in Requests, Begin(r) PROVE RequestsOK'
  <2>1. PICK key \in Keyed, cookie \in Cookies :
          \/ cookie = "broken" /\ policy.auth # NONE /\ Refuse(r, cookie, 422)
          \/ /\ cookie = "broken" => policy.auth = NONE
             /\ \E who \in Resolved(cookie) :
                   \/ who = "none" /\ policy.auth = COOKIE_OR_DEFAULT /\ Refuse(r, cookie, 401)
                   \/ Ask(r, key, cookie, who)
                   \/ LookUp(r, key, cookie, who)
    BY <1>7 DEF Begin
  <2>2. key \in Keys
    BY GatewayAssumption DEF Keyed
  <2>3. CASE cookie = "broken" /\ policy.auth # NONE /\ Refuse(r, cookie, 422)
    BY <1>1, <2>3, RefuseIsOK
  <2>4. ASSUME cookie = "broken" => policy.auth = NONE, NEW who \in Resolved(cookie),
               who = "none", policy.auth = COOKIE_OR_DEFAULT, Refuse(r, cookie, 401)
        PROVE  RequestsOK'
    <3>1. cookie # "valid"
      BY <2>4 DEF Resolved, NONE, COOKIE_OR_DEFAULT
    <3> QED BY <1>1, <2>4, <3>1, RefuseIsOK
  <2>5. ASSUME cookie = "broken" => policy.auth = NONE, NEW who \in Resolved(cookie),
               Ask(r, key, cookie, who)
        PROVE  RequestsOK'
    BY <1>1, <2>2, <2>5, AskIsOK
  <2>6. ASSUME cookie = "broken" => policy.auth = NONE, NEW who \in Resolved(cookie),
               LookUp(r, key, cookie, who)
        PROVE  RequestsOK'
    <3>1. \/ Ask(r, key, cookie, who)
          \/ \E about : Reply(r, "cache", about) /\ about.sent.who = "none"
          \/ \E about : Reply(r, "mark", about) /\ about.status \in {502, 503, 504}
      BY <1>1, <2>2, <2>6, LookUpKeepsCache
    <3>2. ASSUME NEW about, Reply(r, "cache", about), about.sent.who = "none" PROVE RequestsOK'
      BY <1>1, <3>2, ReplyIsOK
    <3>3. ASSUME NEW about, Reply(r, "mark", about), about.status \in {502, 503, 504} PROVE RequestsOK'
      BY <1>1, <3>3, ReplyIsOK
    <3> QED BY <3>1, <3>2, <3>3, <2>5, <2>6
  <2> QED BY <2>1, <2>3, <2>4, <2>5, <2>6
<1>8. ASSUME NEW r \in Requests, Refresh(r) PROVE RequestsOK'
  <2> DEFINE q == [requests[r] EXCEPT !.tries = 2]
  <2>1. requests' = [requests EXCEPT ![r] = q] /\ AskedOK(requests[r])
    BY <1>1, <1>8, AskedIsOK DEF Refresh
  <2>2. AskedOK(q)
    BY <2>1 DEF AskedOK
  <2> HIDE DEF q
  <2> QED BY <1>1, <2>1, <2>2, RequestChanges
<1>9. ASSUME NEW r \in Requests, NEW outcome \in Outcomes, Answer(r, outcome) PROVE RequestsOK'
  <2>1. Reply(r, "server", <<>>)
    BY <1>9 DEF Answer
  <2> QED BY <1>1, <2>1, ReplyIsOK
<1>10. CASE Tick \/ UNCHANGED vars
  BY <1>2, <1>10 DEF Tick, vars
<1> QED BY <1>4, <1>5, <1>6, <1>7, <1>8, <1>9, <1>10 DEF Next

-----------------------------------------------------------------------------
(* The theorems. *)

\* At all times the slots, the rates, the requests and the cache are as they should be.
THEOREM GatewayInvariant == Spec => []GatewayInv
<1>1. GatewayInv /\ [Next]_vars => GatewayInv'
  <2> SUFFICES ASSUME GatewayInv, [Next]_vars PROVE GatewayInv'
    OBVIOUS
  <2>1. UNCHANGED configVars
    BY ConfigStays
  <2>2. PolicyOK' /\ granted' \in BOOLEAN
    BY <2>1 DEF GatewayInv, PolicyOK, configVars
  <2>3. RequestsOK /\ Slots /\ Meter
    BY DEF GatewayInv
  <2>4. RequestsOK' /\ Slots' /\ Meter' /\ CacheOK(store', recency')
    BY <2>3, NextRequests, NextSlots, NextMeter, NextCache
  <2> QED BY <2>2, <2>4 DEF GatewayInv
<1> QED BY <1>1, InitGateway, PTL DEF Spec

\* A slot is held by a request under way or by one that was cut short, and by no other, with
\* any number of requests and slots (apply_security_middleware).
THEOREM NoSlotIsCountedTwice == Spec => []SlotsConserved
<1>1. GatewayInv => SlotsConserved
  BY DEF GatewayInv, Slots
<1> QED BY <1>1, GatewayInvariant, PTL

\* No address gets more than its capacity in a window through, although the limiter forgets
\* windows as it goes (InMemoryRateLimiter.check).
THEOREM RatesHold == Spec => []RateHolds
<1>1. GatewayInv => RateHolds
  BY DEF GatewayInv, Meter
<1> QED BY <1>1, GatewayInvariant, PTL

\* No answer that was fetched with somebody's credential is in the cache or comes out of it,
\* on whatever route of the catalogue (_validate_route, _execute_cached_route).
THEOREM CacheStaysPublic == Spec => []CacheIsPublic
<1>1. GatewayInv => CacheIsPublic
  <2> SUFFICES ASSUME GatewayInv PROVE CacheIsPublic
    OBVIOUS
  <2>1. \A i \in DOMAIN store : store[i].sent.who = "none"
    BY DEF GatewayInv, CacheOK, PublicEntries
  <2>2. \A r \in Replied("cache") : requests[r].about.sent.who = "none"
    BY SendingIsOK DEF GatewayInv, SendingOK, Replied
  <2> QED BY <2>1, <2>2 DEF CacheIsPublic
<1> QED BY <1>1, GatewayInvariant, PTL

\* Only failures of the server are marked, and a request cut short by a mark says so
\* (is_upstream_failure, error_mapping.py).
THEOREM OnlyTheServerIsBlamed == Spec => []MarksBlameUpstream
<1>1. GatewayInv => MarksBlameUpstream
  <2> SUFFICES ASSUME GatewayInv PROVE MarksBlameUpstream
    OBVIOUS
  <2>1. \A i \in DOMAIN store : store[i].key[1] = "failure" => store[i].result \in ServerFailures
    BY DEF GatewayInv, CacheOK, PublicEntries
  <2>2. \A r \in Replied("mark") : requests[r].about.status \in {502, 503, 504}
    BY SendingIsOK DEF GatewayInv, SendingOK, Replied
  <2> QED BY <2>1, <2>2 DEF MarksBlameUpstream, ServerFailures
<1> QED BY <1>1, GatewayInvariant, PTL

\* A caller with a login acts with it on every route that needs one, and the pool is used only
\* where it is granted (configured_credential_for_api, the executors).
THEOREM CallersAreThemselves == Spec => []CallersActAsThemselves
<1>1. GatewayInv => CallersActAsThemselves
  <2> SUFFICES ASSUME GatewayInv PROVE CallersActAsThemselves
    OBVIOUS
  <2>1. \A r \in Asked : AskedOK(requests[r])
    BY AskedIsOK DEF GatewayInv
  <2>2. \A r \in Replied("gateway") : requests[r].about.cookie = "valid" => requests[r].about.status = 422
    BY SendingIsOK DEF GatewayInv, SendingOK, Replied
  <2> QED BY <2>1, <2>2 DEF CallersActAsThemselves, AskedOK
<1> QED BY <1>1, GatewayInvariant, PTL

\* A good entry leaves the cache only if it is full of good ones, and then it is the one used
\* longest ago (MemoryBackend._evict).
THEOREM EvictionIsInOrder == Spec => EvictionOrder
<1>1. ASSUME GatewayInv, [Next]_vars,
             NEW i \in DOMAIN store, ~Expired(store[i], now), Find(store', store[i].key) = <<>>
      PROVE  /\ Len(store) = MaxSize
             /\ \A j \in DOMAIN store :
                   /\ ~Expired(store[j], now)
                   /\ (CHOOSE k \in DOMAIN recency : recency[k] = store[i].key)
                         <= (CHOOSE k \in DOMAIN recency : recency[k] = store[j].key)
  <2>1. CacheOK(store, recency) /\ CacheOK(store', recency') /\ EvictsOldest
    BY <1>1, NextCache DEF GatewayInv
  <2>2. store[i].key \in CacheKeys
    BY <2>1 DEF CacheOK, PublicEntries
  <2>3. \A j \in DOMAIN store' : store'[j].key # store[i].key
    BY <2>1, <2>2, <1>1, Parts
  <2>4. /\ Len(store) = MaxSize
        /\ \A j \in DOMAIN store : ~Expired(store[j], now)
        /\ \A j \in DOMAIN store, k, l \in DOMAIN recency :
              recency[k] = store[i].key /\ recency[l] = store[j].key => k <= l
    BY <2>1, <2>3, <1>1 DEF EvictsOldest
  <2>5. \A j \in DOMAIN store : \E k \in DOMAIN recency : recency[k] = store[j].key
    BY <2>1 DEF CacheOK, Follows
  <2> QED BY <2>4, <2>5
<1>2. GatewayInv /\ [Next]_vars =>
        [\A i \in DOMAIN store :
          LET entry == store[i]
              place(key) == CHOOSE k \in DOMAIN recency : recency[k] = key
          IN  (/\ ~Expired(entry, now)
               /\ Find(store', entry.key) = <<>>) =>
                  /\ Len(store) = MaxSize
                  /\ \A j \in DOMAIN store :
                        /\ ~Expired(store[j], now)
                        /\ place(entry.key) <= place(store[j].key)]_vars
  BY <1>1
<1> QED BY <1>2, GatewayInvariant, PTL DEF Spec, EvictionOrder
=============================================================================
