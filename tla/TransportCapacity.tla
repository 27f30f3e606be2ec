-------------------------- MODULE TransportCapacity --------------------------
(***************************************************************************)
(* NiquestsTransport (qqmusic_api/core/transport.py): the permits of       *)
(* _CapacityLimiter, the batches that request_many sends in chunks of as   *)
(* many permits as are free, and the streams that lease one permit each.   *)
(*                                                                         *)
(* A response is "open" while the transport is answerable for it: from the *)
(* moment the session returns it until it is delivered or released.  Lazy  *)
(* responses of the multiplexed session are resolved together by gather.   *)
(* A release (_release_responses) is best effort: it closes one response   *)
(* after the other, drops what a close raises, and gives up on those that  *)
(* are left when its 5 seconds are spent.  It is shielded, so a batch is   *)
(* not cancelled in the middle of one.                                     *)
(***************************************************************************)
EXTENDS Naturals, FiniteSets, FiniteSetsExt

CONSTANTS
    Batches,  \* calls of request_many
    Size,     \* how many requests each batch holds
    Streams,  \* calls of open_stream
    Total     \* max_concurrency

ASSUME CapacityAssumption ==
    /\ Total \in Nat \ {0}
    /\ Size \in [Batches -> Nat \ {0}]
    /\ Batches \cap Streams = {}

VARIABLES
    used,       \* _CapacityLimiter._used
    held,       \* permits each batch and each stream is answerable for
    pc,         \* where each batch and each stream is
    strict,     \* the batches called with return_exceptions=False
    start,      \* items of the batch in finished chunks
    sent,       \* items of the current chunk already submitted
    lazy,       \* submitted items whose response is not resolved
    open,       \* items whose response is open
    outcomes,   \* the outcome of every item, "unsent" to begin with
    todo,       \* items whose response the release under way has still to close
    unclosed,   \* items whose last release gave up on them: the close raised, or
                \* the time was spent
    fate        \* how a batch that gives up will end

closing == <<todo, unclosed, fate>>
vars == <<used, held, pc, strict, start, sent, lazy, open, outcomes, todo, unclosed, fate>>

-----------------------------------------------------------------------------

Clients == Batches \cup Streams
Items(b) == 1..Size[b]

\* Releasing: the responses a failed gather left, those of a chunk that gives up,
\* those of the chunks before it.
Releasing == {"failing", "releasing", "unwinding"}
BatchPCs == {"idle", "acquiring", "sending", "resolving", "delivered", "raised", "cancelled"}
                \cup Releasing
StreamPCs == {"idle", "acquiring", "opening", "open", "ended"}

TypeOK ==
    /\ used \in 0..Total
    /\ held \in [Clients -> 0..Total]
    /\ \A b \in Batches : pc[b] \in BatchPCs
    /\ \A s \in Streams : pc[s] \in StreamPCs
    /\ strict \subseteq Batches
    /\ \A b \in Batches :
          /\ start[b] \in 0..Size[b]
          /\ sent[b] \in 0..held[b]
          /\ lazy[b] \subseteq open[b]
          /\ open[b] \subseteq Items(b)
          /\ outcomes[b] \in [Items(b) -> {"unsent", "response", "error"}]
          /\ todo[b] \subseteq Items(b) /\ unclosed[b] \subseteq Items(b)
          /\ fate[b] \in {"none", "raised", "cancelled"}

Init ==
    /\ used = 0
    /\ held = [c \in Clients |-> 0]
    /\ pc = [c \in Clients |-> "idle"]
    /\ strict \in SUBSET Batches
    /\ start = [b \in Batches |-> 0]
    /\ sent = [b \in Batches |-> 0]
    /\ lazy = [b \in Batches |-> {}]
    /\ open = [b \in Batches |-> {}]
    /\ outcomes = [b \in Batches |-> [i \in Items(b) |-> "unsent"]]
    /\ todo = [b \in Batches |-> {}]
    /\ unclosed = [b \in Batches |-> {}]
    /\ fate = [b \in Batches |-> "none"]

-----------------------------------------------------------------------------
(* The limiter *)

Goto(c, label) == pc' = [pc EXCEPT ![c] = label]

\* Wait for free capacity, then take `amount` at once; a waiter holds nothing.
Take(c, amount) ==
    /\ used + amount <= Total
    /\ used' = used + amount
    /\ held' = [held EXCEPT ![c] = amount]

\* Shielded from cancellation; notify_all wakes every waiter.
GiveBack(c) ==
    /\ used' = used - held[c]
    /\ held' = [held EXCEPT ![c] = 0]

\* What acquire_available takes: all that is free, up to the chunk.
Available(b) == Min({Total - used, Total, Size[b] - start[b]})

-----------------------------------------------------------------------------
(* request_many and _submit_chunk *)

\* The item of the batch that is submitted next.
NextItem(b) == start[b] + sent[b] + 1

BatchBegin(b) ==
    /\ pc[b] = "idle"
    /\ Goto(b, "acquiring")
    /\ UNCHANGED <<used, held, strict, start, sent, lazy, open, outcomes, closing>>

ChunkAcquire(b) ==
    /\ pc[b] = "acquiring"
    /\ used < Total
    /\ Take(b, Available(b))
    /\ Goto(b, "sending")
    /\ UNCHANGED <<strict, start, sent, lazy, open, outcomes, closing>>

\* _release_responses: the release of these items begins.
Release(b, items, phase) ==
    /\ todo' = [todo EXCEPT ![b] = items]
    /\ Goto(b, phase)

\* An exception leaves the chunk, which first releases its own responses, those
\* once given up included; the permits are held until that is over.
Abort(b, how) ==
    /\ fate' = [fate EXCEPT ![b] = how]
    /\ sent' = [sent EXCEPT ![b] = 0]
    /\ lazy' = [lazy EXCEPT ![b] = {}]
    /\ Release(b, open[b] \ 1..start[b], "releasing")
    /\ UNCHANGED <<used, held, start, open, unclosed>>

\* Faulty: an exception releases the current chunk's responses only.
UnwindNothing(b) ==
    /\ GiveBack(b)
    /\ Release(b, {}, "unwinding")

\* Faulty: the permits come back only from a chunk that succeeds.
UnwindKeepingPermits(b) ==
    /\ UNCHANGED <<used, held>>
    /\ Release(b, {i \in 1..start[b] : outcomes[b][i] = "response"}, "unwinding")

\* The permits go back and request_many releases what it collected from the
\* earlier chunks.
Unwind(b) ==
    /\ GiveBack(b)
    /\ Release(b, {i \in 1..start[b] : outcomes[b][i] = "response"}, "unwinding")

\* Faulty: the next chunk starts a whole chunk further, whatever was acquired.
SkipWholeChunk(b) ==
    LET next == Min({start[b] + Total, Size[b]})
    IN  /\ GiveBack(b)
        /\ start' = [start EXCEPT ![b] = next]
        /\ sent' = [sent EXCEPT ![b] = 0]
        /\ Goto(b, IF next < Size[b] THEN "acquiring" ELSE "delivered")

\* The chunk is complete: give the permits back, go on after what was sent.
ChunkDone(b) ==
    LET next == start[b] + held[b]
    IN  /\ GiveBack(b)
        /\ start' = [start EXCEPT ![b] = next]
        /\ sent' = [sent EXCEPT ![b] = 0]
        /\ Goto(b, IF next < Size[b] THEN "acquiring" ELSE "delivered")

\* After the last submission the lazy responses, if any, are resolved together.
AfterSend(b) ==
    IF sent[b] + 1 < held[b]
    THEN sent' = [sent EXCEPT ![b] = @ + 1] /\ UNCHANGED <<used, held, pc, start>>
    ELSE IF lazy'[b] # {}
    THEN sent' = [sent EXCEPT ![b] = @ + 1] /\ Goto(b, "resolving") /\ UNCHANGED <<used, held, start>>
    ELSE ChunkDone(b)

SendReturns(b) ==
    /\ pc[b] = "sending"
    /\ outcomes' = [outcomes EXCEPT ![b][NextItem(b)] = "response"]
    /\ open' = [open EXCEPT ![b] = @ \cup {NextItem(b)}]
    /\ \/ lazy' = [lazy EXCEPT ![b] = @ \cup {NextItem(b)}]
       \/ UNCHANGED lazy
    /\ AfterSend(b)
    /\ UNCHANGED <<strict, closing>>

SendFails(b) ==
    /\ pc[b] = "sending"
    /\ outcomes' = [outcomes EXCEPT ![b][NextItem(b)] = "error"]
    /\ \/ b \in strict /\ Abort(b, "raised")
       \/ b \notin strict /\ UNCHANGED <<lazy, open, closing>> /\ AfterSend(b)
    /\ UNCHANGED strict

GatherSucceeds(b) ==
    /\ pc[b] = "resolving"
    /\ lazy' = [lazy EXCEPT ![b] = {}]
    /\ ChunkDone(b)
    /\ UNCHANGED <<strict, open, outcomes, closing>>

\* _fail_unresolved: the error goes to the unresolved items and only to them,
\* and their responses are released.
FailUnresolved(b, unresolved) ==
    /\ outcomes' = [outcomes EXCEPT ![b] = [i \in Items(b) |-> IF i \in unresolved THEN "error" ELSE @[i]]]
    /\ Release(b, unresolved, "failing")

GatherFails(b) ==
    /\ pc[b] = "resolving"
    /\ \E unresolved \in SUBSET lazy[b] : FailUnresolved(b, unresolved)
    /\ lazy' = [lazy EXCEPT ![b] = {}]
    /\ UNCHANGED <<used, held, strict, start, sent, open, unclosed, fate>>

\* The error of the gather is raised, or it stays with its items.
GatherFailed(b) ==
    /\ pc[b] = "failing" /\ todo[b] = {}
    /\ \/ b \in strict /\ Abort(b, "raised")
       \/ b \notin strict /\ ChunkDone(b) /\ UNCHANGED <<lazy, open, closing>>
    /\ UNCHANGED <<strict, outcomes>>

\* Cancelled at any await that is not shielded, waiting for permits included:
\* there the chunk has nothing to release.
BatchCancelled(b) ==
    /\ \/ pc[b] \in {"sending", "resolving"} /\ Abort(b, "cancelled")
       \/ /\ pc[b] = "acquiring"
          /\ fate' = [fate EXCEPT ![b] = "cancelled"]
          /\ Unwind(b)
          /\ UNCHANGED <<start, sent, lazy, open, unclosed>>
    /\ UNCHANGED <<strict, outcomes>>

-----------------------------------------------------------------------------
(* _release_responses *)

\* The next response is closed, or its close raises, which is suppressed.
Close(b) ==
    /\ \E i \in todo[b] :
          /\ \A j \in todo[b] : i <= j
          /\ todo' = [todo EXCEPT ![b] = @ \ {i}]
          /\ \/ /\ open' = [open EXCEPT ![b] = @ \ {i}]
                /\ unclosed' = [unclosed EXCEPT ![b] = @ \ {i}]
             \/ /\ unclosed' = [unclosed EXCEPT ![b] = @ \cup {i}]
                /\ UNCHANGED open
    /\ UNCHANGED <<used, held, pc, strict, start, sent, lazy, outcomes, fate>>

\* move_on_after: the close under way is cut off and the others are not begun.
BudgetSpent(b) ==
    /\ todo[b] # {}
    /\ todo' = [todo EXCEPT ![b] = {}]
    /\ unclosed' = [unclosed EXCEPT ![b] = @ \cup todo[b]]
    /\ UNCHANGED <<used, held, pc, strict, start, sent, lazy, open, outcomes, fate>>

ChunkReleased(b) ==
    /\ pc[b] = "releasing" /\ todo[b] = {}
    /\ Unwind(b)
    /\ UNCHANGED <<strict, start, sent, lazy, open, outcomes, unclosed, fate>>

Unwound(b) ==
    /\ pc[b] = "unwinding" /\ todo[b] = {}
    /\ Goto(b, fate[b])
    /\ UNCHANGED <<used, held, strict, start, sent, lazy, open, outcomes, closing>>

-----------------------------------------------------------------------------
(* open_stream *)

StreamBegin(s) ==
    /\ pc[s] = "idle"
    /\ Goto(s, "acquiring")
    /\ UNCHANGED <<used, held, strict, start, sent, lazy, open, outcomes, closing>>

StreamAcquire(s) ==
    /\ pc[s] = "acquiring"
    /\ Take(s, 1)
    /\ Goto(s, "opening")
    /\ UNCHANGED <<strict, start, sent, lazy, open, outcomes, closing>>

\* The response headers are there: the lease is handed to the caller.
StreamOpens(s) ==
    /\ pc[s] = "opening"
    /\ Goto(s, "open")
    /\ UNCHANGED <<used, held, strict, start, sent, lazy, open, outcomes, closing>>

\* Faulty: the permit comes back only from a stream that was opened.
EndOnlyIfOpened(s) ==
    /\ pc[s] \in {"opening", "open"}
    /\ IF pc[s] = "open" THEN GiveBack(s) ELSE UNCHANGED <<used, held>>
    /\ Goto(s, "ended")
    /\ UNCHANGED <<strict, start, sent, lazy, open, outcomes, closing>>

\* The lease ends: opening failed or was cancelled, the reader is done, failed
\* or was cancelled.  The close of its response is best effort too, but the permit
\* comes back whether it succeeds or not.
StreamEnds(s) ==
    /\ pc[s] \in {"opening", "open"}
    /\ GiveBack(s)
    /\ Goto(s, "ended")
    /\ UNCHANGED <<strict, start, sent, lazy, open, outcomes, closing>>

StreamCancelledWaiting(s) ==
    /\ pc[s] = "acquiring"
    /\ Goto(s, "ended")
    /\ UNCHANGED <<used, held, strict, start, sent, lazy, open, outcomes, closing>>

-----------------------------------------------------------------------------

BatchStep(b) == \/ ChunkAcquire(b) \/ SendReturns(b) \/ SendFails(b)
                \/ GatherSucceeds(b) \/ GatherFails(b) \/ GatherFailed(b)
                \/ Close(b) \/ BudgetSpent(b) \/ ChunkReleased(b) \/ Unwound(b)
StreamStep(s) == StreamAcquire(s) \/ StreamOpens(s) \/ StreamEnds(s)

Next ==
    \/ \E b \in Batches : BatchBegin(b) \/ BatchStep(b) \/ BatchCancelled(b)
    \/ \E s \in Streams : StreamBegin(s) \/ StreamStep(s) \/ StreamCancelledWaiting(s)

Spec == Init /\ [][Next]_vars

\* Session calls end (they carry a timeout), so do releases (they have a budget),
\* readers end their leases, and a waiter whom free capacity stays open to takes it (notify_all wakes them all).
FairSpec ==
    /\ Spec
    /\ \A b \in Batches : WF_vars(BatchStep(b))
    /\ \A s \in Streams : WF_vars(StreamStep(s))

-----------------------------------------------------------------------------
(* Safety *)

\* The permits that somebody is answerable for, each as its holder and a number.
Permits == {permit \in Clients \X (1..Total) : permit[2] <= held[permit[1]]}

\* The limiter's counter is exactly what batches and streams hold, never above
\* the capacity, and whoever has ended or waits holds nothing: no permit is
\* lost or given back twice on any path.
PermitsConserved ==
    /\ TypeOK
    /\ used = Cardinality(Permits)
    /\ used <= Total
    /\ \A c \in Clients :
          pc[c] \notin {"sending", "resolving", "failing", "releasing", "opening", "open"}
              => held[c] = 0

\* A delivered batch has an outcome for every item, although chunks were cut to
\* the capacity that happened to be free.
DeliveredMeansComplete ==
    \A b \in Batches :
        pc[b] = "delivered" => \A i \in Items(b) : outcomes[b][i] # "unsent"

\* A delivered batch has every response open that its outcomes name.  Any other
\* response, of a delivered batch or of one that gave up in whichever chunk, was
\* closed, or its close was tried: it raised, or the time was spent before.
NoResponseLeaks ==
    \A b \in Batches :
        LET named == {i \in Items(b) : outcomes[b][i] = "response"} IN
        /\ pc[b] = "delivered" => named \subseteq open[b] /\ open[b] \subseteq named \cup unclosed[b]
        /\ pc[b] \in {"raised", "cancelled"} => open[b] \subseteq unclosed[b]

-----------------------------------------------------------------------------
(* Liveness *)

\* Batches and streams that compete for permits are all served.
EveryoneIsServed ==
    /\ \A b \in Batches : pc[b] = "acquiring" ~> pc[b] \in {"delivered", "raised", "cancelled"}
    /\ \A s \in Streams : pc[s] = "acquiring" ~> pc[s] = "ended"
=============================================================================
