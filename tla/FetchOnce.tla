------------------------------ MODULE FetchOnce ------------------------------
(***************************************************************************)
(* What request coalescing promises to the callers of a cached route,      *)
(* without caches, flights or tasks: a request fetches at most once, and   *)
(* if fetches are single no two requests fetch a key at the same time;     *)
(* every answer carries the outcome of somebody's fetch of that same key,  *)
(* or says that the service is unavailable.  Nobody is answered twice.     *)
(*                                                                         *)
(* It is the docstring of `_execute_cached_route` and of the Coalescer     *)
(* stated as a specification, which RouteExecution implements.             *)
(***************************************************************************)
CONSTANTS Requests, Keys, None

VARIABLES
    single,   \* fetches are single per key
    asked,    \* the key each request asked for, or None
    fetchers, \* the requests that are fetching now
    outcome,  \* what the fetch of each request ended with, or "none"
    answered  \* the answer of each request and whose fetch it carries

vars == <<single, asked, fetchers, outcome, answered>>

Outcomes == {"payload", "upstreamError", "clientError"}
Unavailable == {"timedOut", "degraded", "backendError", "cancelled"}
NoAnswer == [kind |-> "none", from |-> None]

Waiting(t) == asked[t] # None /\ answered[t] = NoAnswer
IsFetching(t) == t \in fetchers

Init ==
    /\ single \in BOOLEAN
    /\ asked = [t \in Requests |-> None]
    /\ fetchers = {}
    /\ outcome = [t \in Requests |-> "none"]
    /\ answered = [t \in Requests |-> NoAnswer]

Ask(t, k) ==
    /\ asked[t] = None
    /\ asked' = [asked EXCEPT ![t] = k]
    /\ UNCHANGED <<single, fetchers, outcome, answered>>

\* A request that has not fetched yet may fetch a key; if fetches are single, one nobody is
\* fetching.
Fetch(t) ==
    /\ Waiting(t)
    /\ outcome[t] = "none"
    /\ ~IsFetching(t)
    /\ single => \A u \in fetchers : asked[u] # asked[t]
    /\ fetchers' = fetchers \cup {t}
    /\ UNCHANGED <<single, asked, outcome, answered>>

Settle(t, o) ==
    /\ Waiting(t)
    /\ IsFetching(t)
    /\ fetchers' = fetchers \ {t}
    /\ outcome' = [outcome EXCEPT ![t] = o]
    /\ UNCHANGED <<single, asked, answered>>

\* An answer carries the outcome of a fetch of the same key; a failure marker
\* stands for an upstream failure.
AnswerFrom(t, u, kind) ==
    /\ Waiting(t)
    /\ ~IsFetching(t)
    /\ asked[u] = asked[t]
    /\ \/ kind \in Outcomes /\ outcome[u] = kind
       \/ kind = "marked" /\ outcome[u] = "upstreamError"
    /\ answered' = [answered EXCEPT ![t] = [kind |-> kind, from |-> u]]
    /\ UNCHANGED <<single, asked, fetchers, outcome>>

\* Giving up; a fetch that is given up ends without an outcome.
GiveUp(t, kind) ==
    /\ Waiting(t)
    /\ IsFetching(t) => kind = "cancelled"
    /\ fetchers' = fetchers \ {t}
    /\ answered' = [answered EXCEPT ![t] = [kind |-> kind, from |-> None]]
    /\ UNCHANGED <<single, asked, outcome>>

Next ==
    \E t \in Requests :
        \/ \E k \in Keys : Ask(t, k)
        \/ Fetch(t)
        \/ \E o \in Outcomes : Settle(t, o)
        \/ \E u \in Requests, kind \in Outcomes \cup {"marked"} : AnswerFrom(t, u, kind)
        \/ \E kind \in Unavailable : GiveUp(t, kind)

Spec == Init /\ [][Next]_vars
=============================================================================
