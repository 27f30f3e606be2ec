------------------------------ MODULE MemoryCache ------------------------------
(***************************************************************************)
(* MemoryBackend (web/src/core/cache.py): entries [key, until, ...] in the *)
(* order of their last use, at most maxSize of them.                       *)
(***************************************************************************)
EXTENDS Naturals, Sequences, FiniteSets

\* What a sequence has at some of its places, in the same order.
At(seq, places) ==
    LET rank(i) == Cardinality({j \in places : j <= i})
    IN  [k \in 1 .. Cardinality(places) |-> seq[CHOOSE i \in places : rank(i) = k]]

Find(store, key) == At(store, {i \in DOMAIN store : store[i].key = key})
Without(store, key) == At(store, {i \in DOMAIN store : store[i].key # key})

\* An entry is good at its deadline and expired after it.
Expired(entry, now) == now > entry.until

\* get: what is found, a sequence of at most one entry ...
Hit(store, key, now) ==
    At(store, {i \in DOMAIN store : store[i].key = key /\ ~Expired(store[i], now)})

\* Faulty: a hit leaves the entry where it is.
AfterPeek(store, key, now) ==
    IF Hit(store, key, now) = <<>> THEN Without(store, key) ELSE store

\* ... and the store after it: a hit goes to the end, an expired entry goes.
AfterGet(store, key, now) == Without(store, key) \o Hit(store, key, now)

\* _evict: what has expired, and if that was nothing the entry longest unused.
Evicted(store, now, maxSize) ==
    LET kept == At(store, {i \in DOMAIN store : ~Expired(store[i], now)})
    IN  IF Len(kept) >= maxSize THEN Tail(kept) ELSE kept

\* set.
AfterSet(store, entry, now, maxSize) ==
    IF Find(store, entry.key) # <<>> \/ Len(store) < maxSize
    THEN Append(Without(store, entry.key), entry)
    ELSE Append(Evicted(store, now, maxSize), entry)
=============================================================================
