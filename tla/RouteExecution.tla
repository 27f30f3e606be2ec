--------------------------- MODULE RouteExecution ---------------------------
(***************************************************************************)
(* The cached read routes of the web gateway: `_execute_cached_route` and  *)
(* `_resolve_with_leader` (web/src/routing/executor.py), the Coalescer     *)
(* they share (web/src/core/coalesce.py) and the cache backend seen        *)
(* through get and set (web/src/core/cache.py).                            *)
(*                                                                         *)
(* A request is one asyncio task.  Tasks interleave only where the code    *)
(* really suspends: `loop` is the task that holds the event loop between   *)
(* two suspension points.  The coroutines of MemoryBackend never suspend,  *)
(* those of RedisBackend always do: that is what `suspends` says.          *)
(*                                                                         *)
(* A flight is named by the request that created it, a payload by the      *)
(* request that fetched it.                                                *)
(***************************************************************************)

CONSTANTS
    Requests,        \* the tasks serving HTTP requests of one worker process
    Keys,            \* cache keys, as make_cache_key builds them
    None,            \* Python's None
    BackendModes,    \* backends: TRUE for RedisBackend, FALSE for MemoryBackend
    CoalesceModes    \* what CacheConfig.coalesce_enabled may be set to

ASSUME NoneAssumption == None \notin Requests /\ None \notin Keys
ASSUME FlagAssumption == BackendModes \subseteq BOOLEAN /\ CoalesceModes \subseteq BOOLEAN

VARIABLES
    suspends,  \* CacheConfig.backend is redis, read once at start-up
    coalesce,  \* CacheConfig.coalesce_enabled, likewise
    pc,        \* where each request is in its handler
    key,       \* the local `cache_key`
    flightOf,  \* the local `flight`: own id for a leader, the leader's for a follower
    result,    \* what the leader's upstream call ended with
    response,  \* the HTTP response: its kind and the request whose fetch it carries
    loop,      \* the task running between two suspension points, or None
    flights,   \* Coalescer._flights
    event,     \* the flights whose event is set
    payload,   \* the flights whose payload is set
    error,     \* the flights whose error is set
    cache,     \* the live entry of each key: the request that fetched it, or None
    failMark   \* the live failure marker of each key, likewise

configVars == <<suspends, coalesce>>
taskVars   == <<pc, key, flightOf, result, response>>
flightVars == <<flights, event, payload, error>>
storeVars  == <<cache, failMark>>
vars == <<suspends, coalesce, pc, key, flightOf, result, response, loop,
          flights, event, payload, error, cache, failMark>>

-----------------------------------------------------------------------------
(* Types *)

PCs == {"idle", "readCache", "readFailure", "enter", "wait", "recheckCache",
        "recheckFailure", "fromFlight", "upstream", "writeCache",
        "writeFailure", "finish", "done"}

\* A leader is in this part of the handler from `enter` to `leave`.
Fetching == {"upstream", "writeCache", "writeFailure", "finish"}

Results == {"none", "payload", "upstreamError", "clientError"}
Kinds == {"none", "payload", "marked", "upstreamError", "clientError",
          "timedOut", "degraded", "backendError", "cancelled"}

Maybe(S) == S \cup {None}
Answer(kind, from) == [kind |-> kind, from |-> from]
Unanswered == Answer("none", None)

TypeOK ==
    /\ suspends \in BackendModes /\ coalesce \in CoalesceModes
    /\ pc \in [Requests -> PCs]
    /\ key \in [Requests -> Maybe(Keys)]
    /\ flightOf \in [Requests -> Maybe(Requests)]
    /\ result \in [Requests -> Results]
    /\ response \in [Requests -> [kind: Kinds, from: Maybe(Requests)]]
    /\ loop \in Maybe(Requests)
    /\ flights \in [Keys -> Maybe(Requests)]
    /\ event \subseteq Requests
    /\ payload \subseteq Requests
    /\ error \subseteq Requests
    /\ cache \in [Keys -> Maybe(Requests)]
    /\ failMark \in [Keys -> Maybe(Requests)]

Init ==
    /\ suspends \in BackendModes /\ coalesce \in CoalesceModes
    /\ pc = [t \in Requests |-> "idle"]
    /\ key = [t \in Requests |-> None]
    /\ flightOf = [t \in Requests |-> None]
    /\ result = [t \in Requests |-> "none"]
    /\ response = [t \in Requests |-> Unanswered]
    /\ loop = None
    /\ flights = [k \in Keys |-> None]
    /\ event = {} /\ payload = {} /\ error = {}
    /\ cache = [k \in Keys |-> None]
    /\ failMark = [k \in Keys |-> None]

-----------------------------------------------------------------------------
(* Scheduling *)

\* Task t may run: nobody else is between two suspension points.
MayRun(t) == loop \in {None, t}

\* An await on the cache backend gives the loop up only if the backend suspends.
AwaitBackend(t) == loop' = IF suspends THEN None ELSE t

At(t, label) == pc[t] = label /\ MayRun(t)
Goto(t, label) == pc' = [pc EXCEPT ![t] = label]

\* The handler returns or raises.
Respond(t, kind, from) ==
    /\ Goto(t, "done")
    /\ response' = [response EXCEPT ![t] = Answer(kind, from)]
    /\ loop' = None

IsLeader(t) == flightOf[t] = t

-----------------------------------------------------------------------------
(* The handler, one action per stretch between two awaits *)

\* A request for key k reaches the cached route.
Arrive(t, k) ==
    /\ At(t, "idle")
    /\ Goto(t, "readCache")
    /\ key' = [key EXCEPT ![t] = k]
    /\ loop' = None
    /\ UNCHANGED <<flightOf, result, response, flightVars, storeVars>>

\* A read of the data key: a hit answers, a miss goes on to the failure marker.
ReadCache(t, here, next) ==
    /\ At(t, here)
    /\ \/ /\ cache[key[t]] # None
          /\ Respond(t, "payload", cache[key[t]])
       \/ /\ cache[key[t]] = None
          /\ Goto(t, next)
          /\ AwaitBackend(t)
          /\ UNCHANGED response
    /\ UNCHANGED <<key, flightOf, result, flightVars, storeVars>>

\* Faulty: the failure marker is not consulted.
IgnoreFailureMark(t, here, next) ==
    /\ At(t, here)
    /\ Goto(t, next)
    /\ AwaitBackend(t)
    /\ UNCHANGED <<key, flightOf, result, response, flightVars, storeVars>>

\* A read of the failure marker: a marker fails fast.
ReadFailure(t, here, next) ==
    /\ At(t, here)
    /\ \/ /\ failMark[key[t]] # None
          /\ Respond(t, "marked", failMark[key[t]])
       \/ /\ failMark[key[t]] = None
          /\ Goto(t, next)
          /\ AwaitBackend(t)
          /\ UNCHANGED response
    /\ UNCHANGED <<key, flightOf, result, flightVars, storeVars>>

\* Reads of the cache are not guarded: a Redis error fails the request.
BackendReadFails(t) ==
    /\ suspends
    /\ pc[t] \in {"readCache", "readFailure", "recheckCache", "recheckFailure"}
    /\ MayRun(t)
    /\ Respond(t, "backendError", None)
    /\ UNCHANGED <<key, flightOf, result, flightVars, storeVars>>

\* Faulty: the registry is not looked up before a flight is created.
LeadAnyway(t) ==
    /\ At(t, "enter")
    /\ coalesce
    /\ flights' = [flights EXCEPT ![key[t]] = t]
    /\ flightOf' = [flightOf EXCEPT ![t] = t]
    /\ Goto(t, "upstream")
    /\ loop' = None
    /\ UNCHANGED <<key, result, response, event, payload, error, storeVars>>

\* Coalescer.enter, then the first await of a leader or of a follower.
Lead(t) ==
    /\ At(t, "enter")
    /\ coalesce
    /\ flights[key[t]] = None
    /\ flights' = [flights EXCEPT ![key[t]] = t]
    /\ flightOf' = [flightOf EXCEPT ![t] = t]
    /\ Goto(t, "upstream")
    /\ loop' = None
    /\ UNCHANGED <<key, result, response, event, payload, error, storeVars>>

Follow(t) ==
    /\ At(t, "enter")
    /\ coalesce
    /\ flights[key[t]] # None
    /\ flightOf' = [flightOf EXCEPT ![t] = flights[key[t]]]
    /\ Goto(t, "wait")
    /\ loop' = None
    /\ UNCHANGED <<key, result, response, flightVars, storeVars>>

FetchAlone(t) ==
    /\ At(t, "enter")
    /\ ~coalesce
    /\ Goto(t, "upstream")
    /\ loop' = None
    /\ UNCHANGED <<key, flightOf, result, response, flightVars, storeVars>>

\* The upstream call comes back; cached routes carry no credential, so
\* invoke_with_retry is a single call.
UpstreamSucceeds(t) ==
    /\ At(t, "upstream")
    /\ result' = [result EXCEPT ![t] = "payload"]
    /\ Goto(t, "writeCache")
    /\ AwaitBackend(t)
    /\ UNCHANGED <<key, flightOf, response, flightVars, storeVars>>

\* Only a failure of the upstream itself is worth a failure marker.
UpstreamFails(t) ==
    /\ At(t, "upstream")
    /\ error' = IF IsLeader(t) THEN error \cup {t} ELSE error
    /\ \/ /\ result' = [result EXCEPT ![t] = "upstreamError"]
          /\ Goto(t, "writeFailure")
          /\ AwaitBackend(t)
       \/ /\ result' = [result EXCEPT ![t] = "clientError"]
          /\ Goto(t, "finish")
          /\ loop' = t
    /\ UNCHANGED <<key, flightOf, response, flights, event, payload, storeVars>>

\* _cache_set swallows a failed write.
WriteCache(t) ==
    /\ At(t, "writeCache")
    /\ \/ cache' = [cache EXCEPT ![key[t]] = t]
       \/ UNCHANGED cache
    /\ Goto(t, "finish")
    /\ AwaitBackend(t)
    /\ UNCHANGED <<key, flightOf, result, response, flightVars, failMark>>

WriteFailure(t) ==
    /\ At(t, "writeFailure")
    /\ \/ failMark' = [failMark EXCEPT ![key[t]] = t]
       \/ UNCHANGED failMark
    /\ Goto(t, "finish")
    /\ AwaitBackend(t)
    /\ UNCHANGED <<key, flightOf, result, response, flightVars, cache>>

\* Faulty: the flight is popped but its event is not set.
LeaveSilently(t) ==
    /\ flights' = IF IsLeader(t) THEN [flights EXCEPT ![key[t]] = None] ELSE flights
    /\ UNCHANGED event

\* Coalescer.leave by a leader; a request without a flight leaves nothing.
Leave(t) ==
    IF IsLeader(t)
    THEN /\ event' = IF flights[key[t]] = None THEN event ELSE event \cup {flights[key[t]]}
         /\ flights' = [flights EXCEPT ![key[t]] = None]
    ELSE UNCHANGED <<flights, event>>

\* Faulty: followers are left to the cache, the flight carries no payload.
FinishWithoutPayload(t) ==
    /\ At(t, "finish")
    /\ Leave(t)
    /\ Respond(t, result[t], t)
    /\ UNCHANGED <<key, flightOf, result, payload, error, storeVars>>

\* Publish the payload on the flight, answer, leave: no await in between.
Finish(t) ==
    /\ At(t, "finish")
    /\ payload' = IF IsLeader(t) /\ result[t] = "payload" THEN payload \cup {t} ELSE payload
    /\ Leave(t)
    /\ Respond(t, result[t], t)
    /\ UNCHANGED <<key, flightOf, result, error, storeVars>>

\* Coalescer.wait: released by the leader, or by the deadline.
Wake(t) ==
    /\ At(t, "wait")
    /\ flightOf[t] \in event
    /\ Goto(t, "recheckCache")
    /\ AwaitBackend(t)
    /\ UNCHANGED <<key, flightOf, result, response, flightVars, storeVars>>

WaitTimesOut(t) ==
    /\ At(t, "wait")
    /\ flightOf[t] \notin event
    /\ Respond(t, "timedOut", None)
    /\ UNCHANGED <<key, flightOf, result, flightVars, storeVars>>

\* What the flight itself holds: a payload, else an error, else nothing.
FromFlight(t) ==
    /\ At(t, "fromFlight")
    /\ LET f == flightOf[t]
       IN  \/ f \in payload /\ Respond(t, "payload", f)
           \/ f \notin payload /\ f \in error /\ Respond(t, result[f], f)
           \/ f \notin payload /\ f \notin error /\ Respond(t, "degraded", None)
    /\ UNCHANGED <<key, flightOf, result, flightVars, storeVars>>

-----------------------------------------------------------------------------
(* The environment *)

\* The server cancels a suspended task; CancelledError passes every handler
\* but the `finally` that leaves the flight.
Cancel(t) ==
    /\ loop = None
    /\ pc[t] \notin {"idle", "done"}
    /\ Leave(t)
    /\ Respond(t, "cancelled", None)
    /\ UNCHANGED <<key, flightOf, result, payload, error, storeVars>>

\* TTL, LRU eviction or a Redis flush drops an entry.
Expire(k) ==
    /\ \/ cache[k] # None /\ cache' = [cache EXCEPT ![k] = None] /\ UNCHANGED failMark
       \/ failMark[k] # None /\ failMark' = [failMark EXCEPT ![k] = None] /\ UNCHANGED cache
    /\ UNCHANGED <<taskVars, loop, flightVars>>

-----------------------------------------------------------------------------

Upstream(t) == UpstreamSucceeds(t) \/ UpstreamFails(t)

\* The steps the event loop owes a task once it is ready.
Run(t) ==
    \/ ReadCache(t, "readCache", "readFailure")
    \/ ReadFailure(t, "readFailure", "enter")
    \/ Lead(t) \/ Follow(t) \/ FetchAlone(t)
    \/ WriteCache(t) \/ WriteFailure(t) \/ Finish(t)
    \/ Wake(t)
    \/ ReadCache(t, "recheckCache", "recheckFailure")
    \/ ReadFailure(t, "recheckFailure", "fromFlight")
    \/ FromFlight(t)
    \/ BackendReadFails(t)

Next ==
    /\ \/ \E t \in Requests, k \in Keys : Arrive(t, k)
       \/ \E t \in Requests : Run(t)
       \/ \E t \in Requests : Upstream(t)
       \/ \E t \in Requests : WaitTimesOut(t)
       \/ \E t \in Requests : Cancel(t)
       \/ \E k \in Keys : Expire(k)
    /\ UNCHANGED configVars

Spec == Init /\ [][Next]_vars

\* The event loop serves every ready task; of the upstream and of the timers
\* nothing is assumed here.
FairSpec == Spec /\ \A t \in Requests : WF_vars(Run(t) /\ UNCHANGED configVars)

\* The deadline of every wait passes some time.
TimersFire == \A t \in Requests : WF_vars(WaitTimesOut(t) /\ UNCHANGED configVars)

\* Every upstream call ends: the transport bounds each one by a timeout.
UpstreamCallsEnd == \A t \in Requests : WF_vars(Upstream(t) /\ UNCHANGED configVars)

-----------------------------------------------------------------------------
(* Safety *)

\* The promise of the Coalescer: with coalescing on, at most one request per
\* key is between `enter` and `leave` as a fetcher, whatever is cancelled,
\* fails or expires meanwhile.
SingleFetch ==
    coalesce =>
        \A t, u \in Requests :
            pc[t] \in Fetching /\ pc[u] \in Fetching /\ key[t] = key[u] => t = u

\* A follower is never left waiting on a flight nobody will complete: its
\* event is set, or the flight is registered and its leader is still fetching
\* the follower's key.
WaitersHaveALeader ==
    \A t \in Requests :
        pc[t] = "wait" =>
            \/ flightOf[t] \in event
            \/ /\ flights[key[t]] = flightOf[t]
               /\ pc[flightOf[t]] \in Fetching
               /\ key[flightOf[t]] = key[t]

\* The registry does not leak: a registered flight belongs to a request that
\* is still fetching that key (`in_flight` exists to watch for this leak).
NoFlightLeak ==
    \A k \in Keys :
        flights[k] # None => pc[flights[k]] \in Fetching /\ key[flights[k]] = k

\* A follower that was released and found nothing anywhere had a leader that
\* was cancelled: no success and no failure of a leader is ever lost, even when
\* the cache write failed or the entry was evicted before the second look.
EmptyHandedOnlyIfLeaderCancelled ==
    \A t \in Requests :
        response[t].kind = "degraded" => response[flightOf[t]].kind = "cancelled"

\* "Double-checked locking": with the memory backend nobody goes upstream for a key while the
\* cache holds a live payload or a live failure marker for it.
MemoryNeverRefetches ==
    [][\A t \in Requests :
        (~suspends /\ pc[t] # "upstream" /\ pc'[t] = "upstream") =>
            cache[key[t]] = None /\ failMark[key[t]] = None]_vars

-----------------------------------------------------------------------------
(* The inductive invariant behind SingleFetch, NoFlightLeak and *)
(* WaitersHaveALeader: who owns a registered flight. *)

\* Every request past its arrival knows its cache key.
KeyKnown == \A t \in Requests : pc[t] # "idle" => key[t] \in Keys

\* With coalescing on, whoever fetches is the leader its key is registered for.
FetchersAreRegistered ==
    coalesce =>
        \A t \in Requests :
            pc[t] \in Fetching => flightOf[t] = t /\ flights[key[t]] = t

\* A flight is registered by its own leader; a leader never left it unless it
\* is done; a waiting request waits for somebody else.
FlightOwnership ==
    /\ \A k \in Keys : flights[k] # None => flightOf[flights[k]] = flights[k]
    /\ \A t \in Requests :
           /\ flightOf[t] = t => coalesce /\ pc[t] \in Fetching \cup {"done"}
           /\ pc[t] = "wait" => flightOf[t] \in Requests \ {t}

FlightInv ==
    /\ TypeOK
    /\ KeyKnown
    /\ NoFlightLeak
    /\ FetchersAreRegistered
    /\ FlightOwnership
    /\ WaitersHaveALeader

-----------------------------------------------------------------------------
(* Refinement *)

\* A fetch is the upstream call itself: it ends when the call does, although a leader keeps
\* its flight until the cache is written.
Promise == INSTANCE FetchOnce WITH
    single <- coalesce, asked <- key, fetchers <- {t \in Requests : pc[t] = "upstream"},
    outcome <- result, answered <- response

\* The caching, coalescing, expiring, cancelled handler is an implementation of FetchOnce,
\* with single fetches if coalescing is on: every step is a step or a stutter of it.
ImplementsFetchOnce == Promise!Spec

-----------------------------------------------------------------------------
(* Liveness *)

\* If upstream calls end, every request that arrived is answered, even when no timer ever
\* fires; if timers fire, a follower is released however long the upstream hangs.
EveryRequestAnswered ==
    /\ UpstreamCallsEnd => \A t \in Requests : pc[t] # "idle" ~> pc[t] = "done"
    /\ TimersFire => \A t \in Requests : pc[t] = "wait" ~> pc[t] # "wait"
=============================================================================
