------------------------ MODULE TransportCapacityProofs ------------------------
(***************************************************************************)
(* For any number of batches of any size, of streams and of permits, the   *)
(* transport loses no permit, gives none back twice, delivers only         *)
(* complete batches and tries to close every response it gives to nobody.  *)
(*                                                                         *)
(* The argument is CapacityInv: the ledger of permits (the counter is the  *)
(* number of permits somebody holds), and for each batch that exactly the  *)
(* items up to start + sent have an outcome, that those with a response    *)
(* are open, and who answers for every other open one: the release under   *)
(* way, which still has it to do, or one that gave it up.  While a chunk   *)
(* is released the earlier ones wait for the second release (Unwind).  The *)
(* ledger is needed even for the type of the counter: GiveBack subtracts,  *)
(* and only the ledger says that it cannot fall below zero.                *)
(***************************************************************************)
EXTENDS TransportCapacity, FiniteSetTheorems, TLAPS

USE CapacityAssumption

-----------------------------------------------------------------------------
(* The invariant *)

\* The variables are functions on batches and clients.
Shapes ==
    /\ pc \in [Clients -> BatchPCs \cup StreamPCs]
    /\ strict \subseteq Batches
    /\ start \in [Batches -> Nat] /\ sent \in [Batches -> Nat]
    /\ lazy \in [Batches -> SUBSET Nat] /\ open \in [Batches -> SUBSET Nat]
    /\ outcomes = [b \in Batches |-> outcomes[b]]
    /\ todo \in [Batches -> SUBSET Nat] /\ unclosed \in [Batches -> SUBSET Nat]
    /\ fate \in [Batches -> {"none", "raised", "cancelled"}]

\* The counter is the number of permits held.
Ledger ==
    /\ used \in 0..Total
    /\ held \in [Clients -> 0..Total]
    /\ IsFiniteSet(Permits)
    /\ used = Cardinality(Permits)

\* What a batch knows of its items.
Filed(b) ==
    /\ lazy[b] \subseteq open[b]
    /\ open[b] \subseteq Items(b)
    /\ outcomes[b] \in [Items(b) -> {"unsent", "response", "error"}]
    /\ todo[b] \subseteq Items(b) /\ unclosed[b] \subseteq Items(b)

\* The items up to m have an outcome, those with a response are open, and so are
\* others only if they failed and a release has still to close them or gave them up.
SentUpTo(b, m) ==
    \A i \in Items(b) :
        /\ outcomes[b][i] = "unsent" <=> i > m
        /\ outcomes[b][i] = "response" => i \in open[b]
        /\ i \in open[b] => \/ outcomes[b][i] = "response"
                            \/ outcomes[b][i] = "error" /\ i \in todo[b] \cup unclosed[b]

\* A batch that gives up.
GivingUp == {"releasing", "unwinding", "raised", "cancelled"}

BatchOK(b) ==
    /\ pc[b] \in BatchPCs
    /\ start[b] \in 0..Size[b]
    /\ pc[b] \in {"idle", "acquiring"} => start[b] < Size[b] /\ lazy[b] = {}
    /\ pc[b] = "delivered" => start[b] = Size[b]
    /\ pc[b] = "sending" => sent[b] < held[b] /\ start[b] + held[b] <= Size[b]
    /\ pc[b] \in {"resolving", "failing"} => sent[b] = held[b] /\ start[b] + held[b] <= Size[b]
    /\ pc[b] \notin {"sending", "resolving", "failing"} => sent[b] = 0
    /\ pc[b] \notin {"sending", "resolving", "failing", "releasing"} => held[b] = 0
    /\ Filed(b)
    /\ pc[b] \notin Releasing => todo[b] = {}
    /\ pc[b] = "failing" => lazy[b] = {} /\ \A i \in todo[b] : outcomes[b][i] = "error"
    /\ pc[b] \notin GivingUp => SentUpTo(b, start[b] + sent[b])
    /\ pc[b] \in {"releasing", "unwinding"} => lazy[b] = {} /\ fate[b] \in {"raised", "cancelled"}
    /\ pc[b] = "releasing" =>
          \A i \in open[b] : \/ i \in todo[b] \cup unclosed[b]
                             \/ i <= start[b] /\ outcomes[b][i] = "response"
    /\ pc[b] \in {"unwinding", "raised", "cancelled"} => open[b] \subseteq todo[b] \cup unclosed[b]

StreamOK(s) ==
    /\ pc[s] \in StreamPCs
    /\ pc[s] \notin {"opening", "open"} => held[s] = 0

CapacityInv ==
    /\ Shapes
    /\ Ledger
    /\ \A b \in Batches : BatchOK(b)
    /\ \A s \in Streams : StreamOK(s)

-----------------------------------------------------------------------------
(* The ledger *)

\* The permits of one client.
Block(c, n) == {c} \X (1..n)

\* A block has as many permits as it should.
LEMMA BlockSize ==
  ASSUME NEW c, NEW n \in Nat
  PROVE  IsFiniteSet(Block(c, n)) /\ Cardinality(Block(c, n)) = n
<1>1. IsFiniteSet(1..n) /\ Cardinality(1..n) = n
  BY FS_Interval
<1>2. IsFiniteSet({c}) /\ Cardinality({c}) = 1
  BY FS_Singleton
<1> QED
  BY <1>1, <1>2, FS_Product DEF Block

\* A client holds no more than is used.
LEMMA HeldIsUsed ==
  ASSUME Ledger, NEW c \in Clients
  PROVE  held[c] <= used
<1>1. held[c] \in 0..Total
  BY DEF Ledger
<1>2. Block(c, held[c]) \in SUBSET Permits
  BY <1>1 DEF Block, Permits
<1>3. Cardinality(Block(c, held[c])) = held[c]
  BY <1>1, BlockSize
<1> QED
  BY <1>2, <1>3, FS_Subset DEF Ledger

\* Taking permits keeps the ledger.
LEMMA TakeKeepsLedger ==
  ASSUME Ledger, NEW c \in Clients, NEW amount \in Nat, held[c] = 0, Take(c, amount)
  PROVE  Ledger'
<1>1. /\ used' = used + amount /\ held' = [held EXCEPT ![c] = amount]
      /\ used' \in 0..Total /\ amount \in 0..Total /\ held' \in [Clients -> 0..Total]
  BY DEF Take, Ledger
<1>2. Permits' = Permits \cup Block(c, amount)
  BY <1>1 DEF Permits, Block, Ledger
<1>3. Permits \cap Block(c, amount) = {}
  BY DEF Permits, Block, Ledger
<1>4. Cardinality(Permits \cap Block(c, amount)) = 0
  BY <1>3, FS_EmptySet
<1>5. /\ IsFiniteSet(Permits')
      /\ Cardinality(Permits') = Cardinality(Permits) + Cardinality(Block(c, amount)) - 0
  BY <1>2, <1>4, BlockSize, FS_Union DEF Ledger
<1> QED
  BY <1>1, <1>5, BlockSize DEF Ledger

\* Giving them back keeps it: no permit is lost or returned twice.
LEMMA GiveBackKeepsLedger ==
  ASSUME Ledger, NEW c \in Clients, GiveBack(c)
  PROVE  Ledger' /\ held'[c] = 0
<1>1. held[c] \in 0..Total /\ held[c] <= used
  BY HeldIsUsed DEF Ledger
<1>2. /\ used' = used - held[c] /\ held' = [held EXCEPT ![c] = 0]
      /\ used' \in 0..Total /\ held' \in [Clients -> 0..Total] /\ held'[c] = 0
  BY <1>1 DEF GiveBack, Ledger
<1>3. Permits' = Permits \ Block(c, held[c])
  BY <1>2 DEF Permits, Block, Ledger
<1>4. Permits \cap Block(c, held[c]) = Block(c, held[c])
  BY <1>1 DEF Permits, Block
<1>5. /\ IsFiniteSet(Permits')
      /\ Cardinality(Permits') = Cardinality(Permits) - Cardinality(Block(c, held[c]))
  BY <1>3, <1>4, FS_Difference DEF Ledger
<1> QED
  BY <1>1, <1>2, <1>5, BlockSize DEF Ledger

\* A step without the limiter keeps it.
LEMMA SameLedger ==
  ASSUME Ledger, UNCHANGED <<used, held>>
  PROVE  Ledger'
  BY DEF Ledger, Permits

\* What a chunk takes is at least one permit and no more than it needs.
LEMMA AvailableBound ==
  ASSUME Ledger, NEW b \in Batches, start[b] \in Nat, start[b] < Size[b], used < Total
  PROVE  Available(b) \in 1..Total /\ Available(b) <= Size[b] - start[b]
<1>1. ASSUME NEW x \in Nat, NEW y \in Nat, NEW z \in Nat
      PROVE  Min({x, y, z}) \in {x, y, z} /\ \A n \in {x, y, z} : Min({x, y, z}) <= n
  <2>1. \E m \in {x, y, z} : \A n \in {x, y, z} : m =< n
    OBVIOUS
  <2> QED
    BY <2>1 DEF Min
<1>2. /\ Total - used \in Nat /\ Total - used > 0 /\ Size[b] - start[b] \in Nat
      /\ Size[b] - start[b] > 0 /\ Total \in Nat
  BY DEF Ledger
<1> QED
  BY <1>1, <1>2 DEF Available
-----------------------------------------------------------------------------
(* The steps *)

\* Nobody holds anything to begin with.
LEMMA InitInv == Init => CapacityInv
<1> SUFFICES ASSUME Init PROVE CapacityInv
  OBVIOUS
<1> USE DEF Init
<1>1. Shapes
  BY DEF Shapes, Clients, BatchPCs, StreamPCs
<1>2. Permits = {}
  BY DEF Permits
<1>3. Ledger
  BY <1>2, FS_EmptySet DEF Ledger
<1>4. \A b \in Batches : BatchOK(b)
  BY DEF BatchOK, Filed, SentUpTo, BatchPCs, Releasing, GivingUp, Items, Clients
<1>5. \A s \in Streams : StreamOK(s)
  BY DEF StreamOK, StreamPCs, Clients
<1> QED
  BY <1>1, <1>3, <1>4, <1>5 DEF CapacityInv

\* A step of one client leaves the others alone.
LEMMA OthersStay ==
  ASSUME CapacityInv, NEW c \in Clients, Shapes', Ledger',
         \A o \in Clients \ {c} : pc'[o] = pc[o] /\ held'[o] = held[o],
         \A o \in Batches \ {c} :
            /\ start'[o] = start[o] /\ sent'[o] = sent[o] /\ lazy'[o] = lazy[o]
            /\ open'[o] = open[o] /\ outcomes'[o] = outcomes[o]
            /\ todo'[o] = todo[o] /\ unclosed'[o] = unclosed[o] /\ fate'[o] = fate[o],
         c \in Batches => BatchOK(c)',
         c \in Streams => StreamOK(c)'
  PROVE  CapacityInv'
<1>1. ASSUME NEW o \in Batches PROVE BatchOK(o)'
  <2>1. CASE o = c
    BY <2>1
  <2>2. CASE o # c
    BY <2>2 DEF CapacityInv, BatchOK, Filed, SentUpTo, Clients
  <2> QED
    BY <2>1, <2>2
<1>2. ASSUME NEW o \in Streams PROVE StreamOK(o)'
  <2>1. CASE o = c
    BY <2>1
  <2>2. CASE o # c
    BY <2>2 DEF CapacityInv, StreamOK, Clients
  <2> QED
    BY <2>1, <2>2
<1> QED
  BY <1>1, <1>2 DEF CapacityInv

\* A step of a stream, which touches no batch.
LEMMA StreamMoves ==
  ASSUME CapacityInv, NEW s \in Streams, NEW l \in StreamPCs, Goto(s, l), Ledger',
         \A o \in Clients \ {s} : held'[o] = held[o],
         l \notin {"opening", "open"} => held'[s] = 0,
         UNCHANGED <<strict, start, sent, lazy, open, outcomes, closing>>
  PROVE  CapacityInv'
<1> USE DEF closing
<1>1. Shapes'
  BY DEF CapacityInv, Shapes, Goto, Clients
<1>2. s \in Clients /\ s \notin Batches
  BY DEF Clients
<1>3. pc'[s] = l /\ \A o \in Clients \ {s} : pc'[o] = pc[o]
  BY <1>2 DEF CapacityInv, Shapes, Goto
<1>4. StreamOK(s)'
  BY <1>3 DEF StreamOK
<1> QED
  BY <1>1, <1>2, <1>3, <1>4, OthersStay

\* An exception: the chunk's open responses are to be released.
LEMMA AbortStep ==
  ASSUME CapacityInv, NEW b \in Batches, NEW how \in {"raised", "cancelled"}, Abort(b, how),
         pc[b] \in {"sending", "resolving", "failing"}, todo[b] = {},
         UNCHANGED strict, outcomes' = [o \in Batches |-> outcomes'[o]],
         outcomes'[b] \in [Items(b) -> {"unsent", "response", "error"}],
         \A i \in Items(b) : outcomes'[b][i] = outcomes[b][i] \/ outcomes[b][i] = "unsent",
         \A o \in Batches \ {b} : outcomes'[o] = outcomes[o]
  PROVE  CapacityInv'
<1> USE DEF CapacityInv, Shapes, Clients
<1>0. start[b] \in Nat /\ Filed(b) /\ SentUpTo(b, start[b] + sent[b])
  BY DEF BatchOK, GivingUp
<1>1. Ledger' /\ UNCHANGED <<used, held, start, open, unclosed>>
  BY SameLedger DEF Abort
<1>2. /\ \A o \in Clients \ {b} : pc'[o] = pc[o]
      /\ pc'[b] = "releasing" /\ sent'[b] = 0 /\ lazy'[b] = {} /\ fate'[b] = how
      /\ todo'[b] = open[b] \ 1..start[b]
      /\ \A o \in Batches \ {b} : /\ sent'[o] = sent[o] /\ lazy'[o] = lazy[o]
                                  /\ todo'[o] = todo[o] /\ fate'[o] = fate[o]
  BY DEF Abort, Release, Goto
<1>3. Shapes'
  <2>1. pc' \in [Clients -> BatchPCs \cup StreamPCs]
    BY DEF Abort, Release, Goto, BatchPCs, Releasing
  <2>2. sent' \in [Batches -> Nat] /\ lazy' \in [Batches -> SUBSET Nat]
    BY DEF Abort
  <2>3. todo' \in [Batches -> SUBSET Nat] /\ fate' \in [Batches -> {"none", "raised", "cancelled"}]
    BY DEF Abort, Release
  <2> QED
    BY <1>1, <2>1, <2>2, <2>3
<1>4. \A i \in open[b] : \/ i \in todo'[b] \cup unclosed[b]
                         \/ i <= start[b] /\ outcomes'[b][i] = "response"
  <2> SUFFICES ASSUME NEW i \in open[b], i \notin todo'[b], i \notin unclosed[b]
               PROVE  i <= start[b] /\ outcomes'[b][i] = "response"
    OBVIOUS
  <2>1. i \in Items(b) /\ outcomes[b][i] = "response"
    BY <1>0 DEF Filed, SentUpTo
  <2> QED
    BY <1>0, <1>2, <2>1
<1>5. BatchOK(b)'
  BY <1>0, <1>1, <1>2, <1>4 DEF BatchOK, Filed, BatchPCs, Releasing, GivingUp
<1>6. b \in Clients /\ b \notin Streams
  OBVIOUS
<1> QED
  BY <1>1, <1>2, <1>3, <1>5, <1>6, OthersStay

\* The chunk is released, or there is none: the earlier ones are to be released.
LEMMA UnwindStep ==
  ASSUME CapacityInv, NEW b \in Batches, Unwind(b),
         pc[b] \in {"acquiring", "releasing"}, todo[b] = {},
         fate'[b] \in {"raised", "cancelled"}, \A o \in Batches \ {b} : fate'[o] = fate[o],
         fate' \in [Batches -> {"none", "raised", "cancelled"}],
         UNCHANGED <<strict, start, sent, lazy, open, outcomes, unclosed>>
  PROVE  CapacityInv'
<1> USE DEF CapacityInv, Shapes, Clients
<1>0. /\ start[b] \in 0..Size[b] /\ Filed(b) /\ sent[b] = 0 /\ lazy[b] = {}
  BY DEF BatchOK
<1>1. Ledger' /\ held'[b] = 0
  BY GiveBackKeepsLedger DEF Unwind
<1>2. /\ \A o \in Clients \ {b} : pc'[o] = pc[o] /\ held'[o] = held[o]
      /\ pc'[b] = "unwinding"
      /\ todo'[b] = {i \in 1..start[b] : outcomes[b][i] = "response"}
      /\ \A o \in Batches \ {b} : todo'[o] = todo[o]
  BY DEF Unwind, Release, Goto, GiveBack, Ledger
<1>3. Shapes'
  <2>1. pc' \in [Clients -> BatchPCs \cup StreamPCs]
    BY DEF Unwind, Release, Goto, BatchPCs, Releasing
  <2>2. todo' \in [Batches -> SUBSET Nat]
    BY <1>0 DEF Unwind, Release
  <2> QED
    BY <2>1, <2>2
<1>4. open[b] \subseteq todo'[b] \cup unclosed[b]
  <2> SUFFICES ASSUME NEW i \in open[b], i \notin unclosed[b]
               PROVE  i \in 1..start[b] /\ outcomes[b][i] = "response"
    BY <1>2
  <2>1. i \in Items(b) /\ i \in 1..Size[b]
    BY <1>0 DEF Filed, Items
  <2>2. CASE pc[b] = "acquiring"
    BY <1>0, <2>1, <2>2 DEF BatchOK, SentUpTo, GivingUp, Filed
  <2>3. CASE pc[b] = "releasing"
    BY <1>0, <2>1, <2>3 DEF BatchOK
  <2> QED
    BY <2>2, <2>3
<1>5. BatchOK(b)'
  <2>1. todo'[b] \subseteq Items(b)
    BY <1>0, <1>2 DEF Items
  <2>2. Filed(b)'
    BY <1>0, <2>1 DEF Filed
  <2> QED
    BY <1>0, <1>1, <1>2, <1>4, <2>2 DEF BatchOK, BatchPCs, Releasing, GivingUp
<1>6. b \in Clients /\ b \notin Streams
  OBVIOUS
<1> QED
  BY <1>1, <1>2, <1>3, <1>5, <1>6, OthersStay

\* A chunk is complete: every item of it has an outcome.
LEMMA ChunkStep ==
  ASSUME CapacityInv, NEW b \in Batches, pc[b] \in {"sending", "resolving", "failing"},
         ChunkDone(b), todo[b] = {}, UNCHANGED <<strict, closing>>,
         outcomes' = [o \in Batches |-> outcomes'[o]],
         lazy' \in [Batches -> SUBSET Nat], open' \in [Batches -> SUBSET Nat],
         \A o \in Batches \ {b} :
            lazy'[o] = lazy[o] /\ open'[o] = open[o] /\ outcomes'[o] = outcomes[o],
         Filed(b)', NEW m \in Nat, m = start[b] + held[b], SentUpTo(b, m)', lazy'[b] = {}
  PROVE  CapacityInv'
<1> USE DEF CapacityInv, Shapes, Clients, closing
<1>1. Ledger' /\ held'[b] = 0
  BY GiveBackKeepsLedger DEF ChunkDone
<1>2. held[b] \in Nat /\ m <= Size[b]
  BY DEF BatchOK, Ledger
<1>3. /\ \A o \in Clients \ {b} : pc'[o] = pc[o] /\ held'[o] = held[o]
      /\ pc'[b] = (IF m < Size[b] THEN "acquiring" ELSE "delivered")
      /\ sent'[b] = 0 /\ start'[b] = m
      /\ \A o \in Batches \ {b} : sent'[o] = sent[o] /\ start'[o] = start[o]
  BY <1>2 DEF ChunkDone, Goto, GiveBack, Ledger, BatchPCs
<1>4. Shapes'
  BY <1>2 DEF ChunkDone, Goto, BatchPCs
<1>5. BatchOK(b)'
  BY <1>1, <1>2, <1>3 DEF BatchOK, BatchPCs, GivingUp, Releasing
<1>6. b \in Clients /\ b \notin Streams
  OBVIOUS
<1> QED
  BY <1>1, <1>3, <1>4, <1>5, <1>6, OthersStay

\* What follows a submission, once its item has an outcome.
LEMMA AfterSendStep ==
  ASSUME CapacityInv, NEW b \in Batches, pc[b] = "sending", AfterSend(b),
         UNCHANGED <<strict, closing>>, outcomes' = [o \in Batches |-> outcomes'[o]],
         lazy' \in [Batches -> SUBSET Nat], open' \in [Batches -> SUBSET Nat],
         \A o \in Batches \ {b} :
            lazy'[o] = lazy[o] /\ open'[o] = open[o] /\ outcomes'[o] = outcomes[o],
         Filed(b)', NEW m \in Nat, m = start[b] + sent[b] + 1, SentUpTo(b, m)'
  PROVE  CapacityInv'
<1> USE DEF CapacityInv, Shapes, Clients, closing
<1>1. /\ sent[b] < held[b] /\ start[b] + held[b] <= Size[b] /\ start[b] \in Nat
      /\ sent[b] \in Nat /\ held[b] \in Nat /\ todo[b] = {}
  BY DEF BatchOK, Ledger, Releasing
<1>2. b \in Clients /\ b \notin Streams
  OBVIOUS
<1>3. CASE sent[b] + 1 < held[b]
  <2>0. UNCHANGED <<used, held, pc, start>> /\ sent' = [sent EXCEPT ![b] = @ + 1]
    BY <1>3 DEF AfterSend
  <2>1. /\ sent'[b] = sent[b] + 1
        /\ \A o \in Batches \ {b} : sent'[o] = sent[o]
        /\ Shapes'
    BY <1>1, <2>0
  <2>2. BatchOK(b)'
    BY <1>1, <1>3, <2>0, <2>1 DEF BatchOK, Releasing, GivingUp
  <2> QED
    BY <1>2, <2>0, <2>1, <2>2, SameLedger, OthersStay
<1>4. CASE sent[b] + 1 >= held[b] /\ lazy'[b] # {}
  <2>1. /\ UNCHANGED <<used, held, start>> /\ sent'[b] = sent[b] + 1 /\ pc'[b] = "resolving"
        /\ \A o \in Batches \ {b} : sent'[o] = sent[o]
        /\ \A o \in Clients \ {b} : pc'[o] = pc[o]
        /\ Shapes'
    BY <1>1, <1>4 DEF AfterSend, Goto, BatchPCs
  <2>2. BatchOK(b)'
    <3>1. sent[b] + 1 = held[b] /\ m = start[b] + held[b]
      BY <1>1, <1>4
    <3>2. SentUpTo(b, start[b] + sent[b])'
      BY <1>1, <2>1, <3>1 DEF SentUpTo
    <3> QED
      BY <1>1, <2>1, <3>1, <3>2 DEF BatchOK, BatchPCs, Releasing, GivingUp
  <2> QED
    BY <1>2, <2>1, <2>2, SameLedger, OthersStay
<1>5. CASE sent[b] + 1 >= held[b] /\ lazy'[b] = {}
  <2>1. ChunkDone(b) /\ m = start[b] + held[b]
    BY <1>1, <1>5 DEF AfterSend
  <2> QED
    BY <1>1, <1>5, <2>1, ChunkStep
<1> QED
  BY <1>1, <1>3, <1>4, <1>5

\* A batch begins, takes permits or is cancelled: no item is touched.
LEMMA BatchControl ==
  ASSUME CapacityInv, NEW b \in Batches, BatchBegin(b) \/ ChunkAcquire(b) \/ BatchCancelled(b)
  PROVE  CapacityInv'
<1> USE DEF CapacityInv, Shapes, Clients, closing
<1>0. b \in Clients /\ b \notin Streams
  OBVIOUS
<1>1. CASE BatchBegin(b)
  <2>1. Shapes' /\ Ledger'
    BY <1>1, SameLedger DEF BatchBegin, Goto, BatchPCs
  <2>2. BatchOK(b)'
    BY <1>1 DEF BatchBegin, Goto, BatchOK, Filed, SentUpTo, BatchPCs, Releasing, GivingUp
  <2> QED
    BY <1>0, <1>1, <2>1, <2>2, OthersStay DEF BatchBegin, Goto
<1>2. CASE ChunkAcquire(b)
  <2>1. start[b] \in Nat /\ start[b] < Size[b] /\ held[b] = 0 /\ sent[b] = 0
    BY <1>2 DEF ChunkAcquire, BatchOK
  <2>2. Available(b) \in 1..Total /\ Available(b) <= Size[b] - start[b]
    BY <1>2, <2>1, AvailableBound DEF ChunkAcquire
  <2>3. Ledger'
    BY <1>2, <2>1, <2>2, TakeKeepsLedger DEF ChunkAcquire
  <2>4. /\ pc'[b] = "sending" /\ held'[b] = Available(b)
        /\ \A o \in Clients \ {b} : pc'[o] = pc[o] /\ held'[o] = held[o]
        /\ UNCHANGED <<strict, start, sent, lazy, open, outcomes, closing>>
        /\ Shapes'
    BY <1>2 DEF ChunkAcquire, Take, Goto, Ledger, BatchPCs
  <2>5. BatchOK(b)'
    BY <1>2, <2>1, <2>2, <2>4
    DEF ChunkAcquire, BatchOK, Filed, SentUpTo, BatchPCs, Releasing, GivingUp
  <2> QED
    BY <1>0, <2>3, <2>4, <2>5, OthersStay
<1>3. CASE BatchCancelled(b)
  <2>0. UNCHANGED <<strict, outcomes>> /\ outcomes' = [o \in Batches |-> outcomes'[o]]
    BY <1>3 DEF BatchCancelled
  <2>1. CASE pc[b] \in {"sending", "resolving"} /\ Abort(b, "cancelled")
    <3>1. todo[b] = {} /\ Filed(b)
      BY <2>1 DEF BatchOK, Releasing
    <3> QED
      BY <2>0, <2>1, <3>1, AbortStep DEF Filed
  <2>2. CASE /\ pc[b] = "acquiring" /\ fate' = [fate EXCEPT ![b] = "cancelled"]
             /\ Unwind(b) /\ UNCHANGED <<start, sent, lazy, open, unclosed>>
    <3>1. todo[b] = {}
      BY <2>2 DEF BatchOK, Releasing
    <3> QED
      BY <2>0, <2>2, <3>1, UnwindStep
  <2> QED
    BY <1>3, <2>1, <2>2 DEF BatchCancelled
<1> QED
  BY <1>1, <1>2, <1>3

\* A submission comes back with a response or an error.
LEMMA BatchSends ==
  ASSUME CapacityInv, NEW b \in Batches, SendReturns(b) \/ SendFails(b)
  PROVE  CapacityInv'
<1> USE DEF CapacityInv, Shapes, closing
<1>1. PICK m \in Nat : m = start[b] + sent[b] + 1
  OBVIOUS
<1>2. /\ pc[b] = "sending" /\ NextItem(b) = m /\ m \in Items(b)
      /\ Filed(b) /\ SentUpTo(b, start[b] + sent[b]) /\ start[b] + sent[b] \in Nat
      /\ UNCHANGED strict /\ todo[b] = {}
  BY <1>1 DEF SendReturns, SendFails, BatchOK, NextItem, Items, Ledger, Clients, Releasing, GivingUp
<1>3. CASE SendReturns(b)
  <2>1. /\ outcomes' = [outcomes EXCEPT ![b][m] = "response"]
        /\ open' = [open EXCEPT ![b] = @ \cup {m}]
        /\ lazy' = [lazy EXCEPT ![b] = @ \cup {m}] \/ lazy' = lazy
        /\ AfterSend(b) /\ UNCHANGED closing
    BY <1>2, <1>3 DEF SendReturns
  <2>2. /\ outcomes' = [o \in Batches |-> outcomes'[o]]
        /\ lazy' \in [Batches -> SUBSET Nat] /\ open' \in [Batches -> SUBSET Nat]
        /\ \A o \in Batches \ {b} :
              lazy'[o] = lazy[o] /\ open'[o] = open[o] /\ outcomes'[o] = outcomes[o]
    <3>1. outcomes' = [o \in Batches |-> outcomes'[o]]
      BY <2>1
    <3>2. lazy' \in [Batches -> SUBSET Nat] /\ open' \in [Batches -> SUBSET Nat]
      BY <1>2, <2>1 DEF Items
    <3>3. \A o \in Batches \ {b} :
             lazy'[o] = lazy[o] /\ open'[o] = open[o] /\ outcomes'[o] = outcomes[o]
      BY <2>1
    <3> QED
      BY <3>1, <3>2, <3>3
  <2>3. Filed(b)'
    BY <1>2, <2>1 DEF Filed
  <2>4. SentUpTo(b, m)'
    <3>1. outcomes'[b][m] = "response" /\ m \in open'[b]
      BY <1>2, <2>1 DEF Filed
    <3>2. \A i \in Items(b) \ {m} :
             outcomes'[b][i] = outcomes[b][i] /\ (i \in open'[b] <=> i \in open[b])
      BY <1>2, <2>1 DEF Filed
    <3>3. \A i \in Items(b) \ {m} : i > m <=> i > start[b] + sent[b]
      BY <1>1, <1>2 DEF Items
    <3>4. todo' = todo /\ unclosed' = unclosed /\ m \in Nat
      BY <1>1, <2>1
    <3>5. \A i \in Items(b) \ {m} :
             /\ outcomes'[b][i] = "unsent" <=> i > m
             /\ outcomes'[b][i] = "response" => i \in open'[b]
             /\ i \in open'[b] => \/ outcomes'[b][i] = "response"
                                  \/ outcomes'[b][i] = "error" /\ i \in todo'[b] \cup unclosed'[b]
      BY <1>2, <3>2, <3>3, <3>4 DEF SentUpTo
    <3>6. ~(m > m)
      BY <3>4
    <3> QED
      BY <1>2, <3>1, <3>5, <3>6 DEF SentUpTo
  <2> QED
    BY <1>1, <1>2, <2>1, <2>2, <2>3, <2>4, AfterSendStep
<1>4. CASE SendFails(b)
  <2>1. outcomes' = [outcomes EXCEPT ![b][m] = "error"]
    BY <1>2, <1>4 DEF SendFails
  <2>2. /\ outcomes' = [o \in Batches |-> outcomes'[o]]
        /\ outcomes'[b] \in [Items(b) -> {"unsent", "response", "error"}]
        /\ \A o \in Batches \ {b} : outcomes'[o] = outcomes[o]
    BY <1>2, <2>1 DEF Filed
  <2>3. \A i \in Items(b) : outcomes'[b][i] = outcomes[b][i] \/ outcomes[b][i] = "unsent"
    BY <1>1, <1>2, <2>1 DEF Filed, SentUpTo, Items
  <2>4. CASE Abort(b, "raised")
    BY <1>2, <2>2, <2>4, <2>3, AbortStep
  <2>5. CASE UNCHANGED <<lazy, open, closing>> /\ AfterSend(b)
    <3>1. Filed(b)'
      BY <1>2, <2>2, <2>5 DEF Filed
    <3>2. SentUpTo(b, m)'
      BY <1>1, <1>2, <2>1, <2>5 DEF Filed, SentUpTo, Items
    <3> QED
      BY <1>1, <1>2, <2>2, <2>5, <3>1, <3>2, AfterSendStep
  <2> QED
    BY <1>4, <2>4, <2>5 DEF SendFails
<1> QED
  BY <1>3, <1>4

\* The lazy responses of a chunk are resolved, or fail and are to be released.
LEMMA BatchGathers ==
  ASSUME CapacityInv, NEW b \in Batches, GatherSucceeds(b) \/ GatherFails(b) \/ GatherFailed(b)
  PROVE  CapacityInv'
<1> USE DEF CapacityInv, Shapes, Clients
<1>1. PICK m \in Nat : m = start[b] + held[b]
  BY DEF Ledger
<1>2. /\ pc[b] \in {"resolving", "failing"} /\ Filed(b) /\ SentUpTo(b, m) /\ UNCHANGED strict
      /\ sent[b] = held[b] /\ start[b] + held[b] <= Size[b]
  BY <1>1 DEF GatherSucceeds, GatherFails, GatherFailed, BatchOK, Ledger, GivingUp
<1>3. CASE GatherSucceeds(b)
  <2>1. /\ lazy' = [lazy EXCEPT ![b] = {}] /\ UNCHANGED <<open, outcomes, closing>>
        /\ ChunkDone(b) /\ pc[b] = "resolving"
    BY <1>3 DEF GatherSucceeds
  <2>2. Filed(b)' /\ SentUpTo(b, m)' /\ todo[b] = {}
    BY <1>2, <2>1 DEF Filed, SentUpTo, BatchOK, Releasing, closing
  <2>3. /\ lazy' \in [Batches -> SUBSET Nat] /\ outcomes' = [o \in Batches |-> outcomes'[o]]
        /\ \A o \in Batches \ {b} : lazy'[o] = lazy[o]
    BY <2>1
  <2> QED
    BY <1>1, <1>2, <2>1, <2>2, <2>3, ChunkStep
<1>4. CASE GatherFailed(b)
  <2>1. UNCHANGED outcomes /\ todo[b] = {} /\ outcomes' = [o \in Batches |-> outcomes'[o]]
    BY <1>4 DEF GatherFailed
  <2>2. CASE Abort(b, "raised")
    BY <1>2, <2>1, <2>2, AbortStep DEF Filed
  <2>3. CASE ChunkDone(b) /\ UNCHANGED <<lazy, open, closing>>
    <3>1. Filed(b)' /\ SentUpTo(b, m)'
      BY <1>2, <2>1, <2>3 DEF Filed, SentUpTo, closing
    <3>2. lazy[b] = {}
      BY <1>4 DEF GatherFailed, BatchOK
    <3> QED
      BY <1>1, <1>2, <2>1, <2>3, <3>1, <3>2, ChunkStep
  <2> QED
    BY <1>4, <2>2, <2>3 DEF GatherFailed
<1>5. CASE GatherFails(b)
  <2>1. /\ pc[b] = "resolving" /\ lazy' = [lazy EXCEPT ![b] = {}]
        /\ UNCHANGED <<used, held, strict, start, sent, open, unclosed, fate>>
    BY <1>5 DEF GatherFails
  <2>2. PICK unresolved \in SUBSET lazy[b] : FailUnresolved(b, unresolved)
    BY <1>5 DEF GatherFails
  <2>3. /\ outcomes' = [outcomes EXCEPT ![b] =
                            [i \in Items(b) |-> IF i \in unresolved THEN "error" ELSE @[i]]]
        /\ todo' = [todo EXCEPT ![b] = unresolved]
        /\ pc' = [pc EXCEPT ![b] = "failing"]
    BY <2>2 DEF FailUnresolved, Release, Goto
  <2>4. unresolved \subseteq open[b] /\ unresolved \subseteq Items(b)
    BY <1>2, <2>2 DEF Filed
  <2>5. Shapes' /\ Ledger'
    <3>1. pc' \in [Clients -> BatchPCs \cup StreamPCs]
      BY <2>3 DEF BatchPCs, Releasing
    <3>2. lazy' \in [Batches -> SUBSET Nat] /\ todo' \in [Batches -> SUBSET Nat]
      BY <2>1, <2>3, <2>4
    <3>3. outcomes' = [o \in Batches |-> outcomes'[o]]
      BY <2>3
    <3> QED
      BY <2>1, <3>1, <3>2, <3>3, SameLedger
  <2>6. Filed(b)'
    BY <1>2, <2>1, <2>3, <2>4 DEF Filed
  <2>7. SentUpTo(b, m)'
    <3>1. todo[b] = {} /\ outcomes[b] \in [Items(b) -> {"unsent", "response", "error"}]
      BY <1>2, <2>1 DEF BatchOK, Releasing, Filed
    <3>2. \A i \in Items(b) : outcomes'[b][i] = IF i \in unresolved THEN "error" ELSE outcomes[b][i]
      BY <2>3
    <3>3. \A i \in unresolved : i <= m
      BY <1>2, <2>4, <3>1 DEF SentUpTo, Filed
    <3> QED
      BY <1>2, <2>1, <2>3, <2>4, <3>1, <3>2, <3>3 DEF SentUpTo
  <2>8. \A i \in todo'[b] : outcomes'[b][i] = "error"
    BY <2>3, <2>4
  <2>9. BatchOK(b)'
    <3>1. /\ pc'[b] = "failing" /\ lazy'[b] = {}
          /\ SentUpTo(b, start[b] + sent[b])'
      BY <1>1, <1>2, <2>1, <2>3, <2>7
    <3> QED
      BY <1>2, <2>1, <2>6, <2>8, <3>1 DEF BatchOK, BatchPCs, Releasing, GivingUp
  <2> QED
    BY <2>1, <2>3, <2>5, <2>9, OthersStay
<1> QED
  BY <1>3, <1>4, <1>5

\* What a release does to the files: a response that is still open after it is one
\* that it has still to close or gave up.
LEMMA ReleaseStep ==
  ASSUME CapacityInv, NEW b \in Batches, pc[b] \in Releasing,
         UNCHANGED <<held, pc, start, sent, lazy, outcomes, fate>>,
         open'[b] \subseteq open[b], unclosed'[b] \subseteq Items(b), todo'[b] \subseteq todo[b],
         open'[b] \cap (todo[b] \cup unclosed[b]) \subseteq todo'[b] \cup unclosed'[b],
         open[b] \ open'[b] \subseteq todo[b]
  PROVE  BatchOK(b)'
<1>1. BatchOK(b) /\ Filed(b)
  BY DEF CapacityInv, BatchOK
<1>2. lazy[b] = {}
  BY <1>1 DEF BatchOK, Releasing
<1>3. Filed(b)'
  BY <1>1, <1>2 DEF Filed
<1>4. CASE pc[b] = "failing"
  <2>1. SentUpTo(b, start[b] + sent[b]) /\ \A i \in todo[b] : outcomes[b][i] = "error"
    BY <1>1, <1>4 DEF BatchOK, GivingUp
  <2>2. SentUpTo(b, start[b] + sent[b])'
    BY <1>1, <2>1 DEF SentUpTo, Filed
  <2> QED
    BY <1>1, <1>2, <1>3, <1>4, <2>1, <2>2 DEF BatchOK, Releasing, GivingUp
<1>5. CASE pc[b] = "releasing"
  BY <1>1, <1>2, <1>3, <1>5 DEF BatchOK, Releasing, GivingUp
<1>6. CASE pc[b] = "unwinding"
  BY <1>1, <1>2, <1>3, <1>6 DEF BatchOK, Releasing, GivingUp
<1> QED
  BY <1>4, <1>5, <1>6 DEF Releasing

\* A release closes what it can, and leaves what it could not close to nobody.
LEMMA BatchReleases ==
  ASSUME CapacityInv, NEW b \in Batches,
         Close(b) \/ BudgetSpent(b) \/ ChunkReleased(b) \/ Unwound(b)
  PROVE  CapacityInv'
<1> USE DEF CapacityInv, Shapes, Clients
<1>1. CASE ChunkReleased(b)
  <2>1. fate[b] \in {"raised", "cancelled"}
    BY <1>1 DEF ChunkReleased, BatchOK
  <2> QED
    BY <1>1, <2>1, UnwindStep DEF ChunkReleased
<1>2. CASE Unwound(b)
  <2>1. /\ pc[b] = "unwinding" /\ todo[b] = {} /\ fate[b] \in {"raised", "cancelled"}
        /\ UNCHANGED <<used, held, strict, start, sent, lazy, open, outcomes, closing>>
        /\ pc' = [pc EXCEPT ![b] = fate[b]]
    BY <1>2 DEF Unwound, BatchOK, Goto
  <2>2. Shapes' /\ Ledger'
    BY <2>1, SameLedger DEF BatchPCs, closing
  <2>3. BatchOK(b)'
    BY <2>1 DEF BatchOK, Filed, BatchPCs, Releasing, GivingUp, closing
  <2> QED
    BY <2>1, <2>2, <2>3, OthersStay DEF closing
<1>3. CASE Close(b)
  <2>1. PICK i \in todo[b] :
           /\ todo' = [todo EXCEPT ![b] = @ \ {i}]
           /\ \/ /\ open' = [open EXCEPT ![b] = @ \ {i}]
                 /\ unclosed' = [unclosed EXCEPT ![b] = @ \ {i}]
              \/ /\ unclosed' = [unclosed EXCEPT ![b] = @ \cup {i}]
                 /\ UNCHANGED open
    BY <1>3 DEF Close
  <2>2. UNCHANGED <<used, held, pc, strict, start, sent, lazy, outcomes, fate>>
    BY <1>3 DEF Close
  <2>3. i \in Items(b) /\ i \in Nat /\ pc[b] \in Releasing
    BY DEF BatchOK, Filed, Items
  <2>4. Shapes' /\ Ledger'
    BY <2>1, <2>2, <2>3, SameLedger
  <2>5. /\ open'[b] \subseteq open[b] /\ unclosed'[b] \subseteq Items(b)
        /\ todo'[b] \subseteq todo[b]
        /\ open'[b] \cap (todo[b] \cup unclosed[b]) \subseteq todo'[b] \cup unclosed'[b]
        /\ open[b] \ open'[b] \subseteq todo[b]
    BY <2>1, <2>3 DEF BatchOK, Filed
  <2>6. BatchOK(b)'
    BY <2>2, <2>3, <2>5, ReleaseStep
  <2> QED
    BY <2>1, <2>2, <2>4, <2>6, OthersStay
<1>4. CASE BudgetSpent(b)
  <2>1. /\ todo' = [todo EXCEPT ![b] = {}] /\ unclosed' = [unclosed EXCEPT ![b] = @ \cup todo[b]]
        /\ UNCHANGED <<used, held, pc, strict, start, sent, lazy, open, outcomes, fate>>
        /\ pc[b] \in Releasing
    BY <1>4 DEF BudgetSpent, BatchOK
  <2>2. todo[b] \subseteq Items(b) /\ todo[b] \subseteq Nat
    BY DEF BatchOK, Filed
  <2>3. Shapes' /\ Ledger'
    BY <2>1, <2>2, SameLedger
  <2>4. /\ open'[b] \subseteq open[b] /\ unclosed'[b] \subseteq Items(b)
        /\ todo'[b] \subseteq todo[b]
        /\ open'[b] \cap (todo[b] \cup unclosed[b]) \subseteq todo'[b] \cup unclosed'[b]
        /\ open[b] \ open'[b] \subseteq todo[b]
    BY <2>1, <2>2 DEF BatchOK, Filed
  <2>5. BatchOK(b)'
    BY <2>1, <2>4, ReleaseStep
  <2> QED
    BY <2>1, <2>3, <2>5, OthersStay
<1> QED
  BY <1>1, <1>2, <1>3, <1>4

\* Every step keeps the ledger and the files.
LEMMA NextInv == CapacityInv /\ [Next]_vars => CapacityInv'
<1> SUFFICES ASSUME CapacityInv, [Next]_vars PROVE CapacityInv'
  OBVIOUS
<1>1. ASSUME NEW b \in Batches, BatchBegin(b) \/ BatchStep(b) \/ BatchCancelled(b)
      PROVE  CapacityInv'
  BY <1>1, BatchControl, BatchSends, BatchGathers, BatchReleases DEF BatchStep
<1>2. ASSUME NEW s \in Streams, StreamBegin(s) \/ StreamStep(s) \/ StreamCancelledWaiting(s)
      PROVE  CapacityInv'
  <2>0. s \in Clients /\ Ledger /\ StreamOK(s)
    BY DEF Clients, CapacityInv
  <2>1. CASE StreamBegin(s) \/ StreamOpens(s) \/ StreamCancelledWaiting(s)
    BY <2>0, <2>1, SameLedger, StreamMoves
    DEF StreamBegin, StreamOpens, StreamCancelledWaiting, StreamOK, StreamPCs, Goto
  <2>2. CASE StreamAcquire(s)
    <3>1. Ledger'
      BY <2>0, <2>2, TakeKeepsLedger DEF StreamAcquire, StreamOK
    <3>2. \A o \in Clients \ {s} : held'[o] = held[o]
      BY <2>0, <2>2 DEF StreamAcquire, Take, Ledger
    <3> QED
      BY <2>2, <3>1, <3>2, StreamMoves DEF StreamAcquire, StreamPCs
  <2>3. CASE StreamEnds(s)
    <3>1. Ledger' /\ held'[s] = 0
      BY <2>0, <2>3, GiveBackKeepsLedger DEF StreamEnds
    <3>2. \A o \in Clients \ {s} : held'[o] = held[o]
      BY <2>0, <2>3 DEF StreamEnds, GiveBack, Ledger
    <3> QED
      BY <2>3, <3>1, <3>2, StreamMoves DEF StreamEnds, StreamPCs
  <2> QED
    BY <1>2, <2>1, <2>2, <2>3 DEF StreamStep
<1>3. CASE UNCHANGED vars
  BY <1>3, SameLedger DEF vars, closing, CapacityInv, Shapes, BatchOK, Filed, SentUpTo, StreamOK
<1> QED
  BY <1>1, <1>2, <1>3 DEF Next

\* The ledger and the files are in order in every reachable state.
THEOREM CapacityInvariant == Spec => []CapacityInv
  BY InitInv, NextInv, PTL DEF Spec

\* No permit is lost or given back twice on any path, for any number of
\* batches and streams: exceptions and cancellations included.
THEOREM NoPermitLost == Spec => []PermitsConserved
<1>1. CapacityInv => PermitsConserved
  <2> SUFFICES ASSUME CapacityInv PROVE PermitsConserved
    OBVIOUS
  <2>1. Ledger /\ Total \in Nat
    BY DEF CapacityInv
  <2>2. TypeOK
    <3>1. \A b \in Batches : sent[b] \in 0..held[b]
      BY <2>1 DEF CapacityInv, Shapes, BatchOK, Ledger, Clients
    <3> QED
      BY <2>1, <3>1 DEF TypeOK, CapacityInv, Shapes, Ledger, BatchOK, StreamOK, Filed
  <2>3. \A c \in Clients :
          pc[c] \notin {"sending", "resolving", "failing", "releasing", "opening", "open"}
             => held[c] = 0
    BY DEF CapacityInv, BatchOK, StreamOK, Clients
  <2> QED
    BY <2>1, <2>2, <2>3 DEF PermitsConserved, Ledger
<1> QED
  BY CapacityInvariant, <1>1, PTL

\* A delivered batch has an outcome for every item, wherever the capacity cut it.
THEOREM DeliveredIsComplete == Spec => []DeliveredMeansComplete
<1>1. CapacityInv => DeliveredMeansComplete
  BY DEF CapacityInv, Shapes, BatchOK, SentUpTo, Items, DeliveredMeansComplete, GivingUp
<1> QED
  BY CapacityInvariant, <1>1, PTL

\* A caller gets the responses its outcomes name; of every other response, and of
\* all of them when it gets none, the close was at least tried or cut off.
THEOREM NoResponseIsLeaked == Spec => []NoResponseLeaks
<1>1. CapacityInv => NoResponseLeaks
  BY DEF CapacityInv, BatchOK, SentUpTo, Filed, NoResponseLeaks, Releasing, GivingUp
<1> QED
  BY CapacityInvariant, <1>1, PTL
=============================================================================
