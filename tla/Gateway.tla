-------------------------------- MODULE Gateway --------------------------------
(***************************************************************************)
(* The gateway (web/src) from the security middleware to the answer, for   *)
(* the requests to one route of the catalogue: client address, rate and    *)
(* concurrency limits (core/security.py), credentials (core/auth.py), the  *)
(* route executor with the cache in memory (routing/executor.py,           *)
(* core/cache.py) and the status of every error (core/error_mapping.py).   *)
(*                                                                         *)
(* Requests are not coalesced (coalesce_enabled is off): RouteExecution is *)
(* about that.  The shared pool is what it answers: CredentialPool is      *)
(* about the rest.  The security module and both its limits are enabled.   *)
(***************************************************************************)
EXTENDS Naturals, RouteCatalog, MemoryCache

CONSTANTS
    Clients,       \* addresses that are allowed and counted
    Keys,          \* parameters of a request
    Capacity, Window, \* rate_limit_capacity, rate_limit_window_seconds
    Limit,         \* concurrency_limit
    MaxSize,       \* memory_max_size
    NegativeTtl,   \* negative_cache_ttl_seconds
    MaxRequests,   \* bound: requests
    Leaps, MaxNow  \* what time passes at once, and its bound

ASSUME GatewayAssumption ==
    /\ {Capacity, Window, Limit, MaxSize, NegativeTtl, MaxRequests} \subseteq Nat \ {0}
    /\ Leaps \subseteq Nat \ {0} /\ MaxNow \in Nat
    /\ {"invalid", "denied", "exempt"} \cap Clients = {}
    /\ 1 .. MaxSize \subseteq Keys

VARIABLES
    policy,    \* what the route and its method decide
    granted,   \* api_enabled of the route
    now,
    counters,  \* InMemoryRateLimiter._counters, 0 where there is none
    active,    \* InMemoryConcurrencyLimiter._active
    requests,
    store,     \* MemoryBackend._store
    passed,    \* history: requests let through by address and window
    lost,      \* history: slots nobody will release
    recency    \* history: the keys of the cache in the order they were last asked for or set

vars == <<policy, granted, now, counters, active, requests, store, passed, lost, recency>>
configVars == <<policy, granted>>
limitVars == <<counters, active, passed, lost>>
cacheVars == <<store, recency>>

-----------------------------------------------------------------------------
(* Policies *)

\* The routes of web/src/routes, and a cache on those of users if include_routes took it.
Declarations == ROUTES \cup {Cached(PUBLIC_60, route) : route \in UserRoutes}

PolicyOf(route) ==
    [auth |-> route.auth, ttl |-> route.ttl, login |-> route.method.login,
     placeholder |-> route.method.placeholder, codes |-> route.method.codes,
     shows |-> IF route.auth = NONE THEN "nothing" ELSE Shows(route.method, "android")]

Policies == {PolicyOf(route) : route \in {declared \in Declarations : ValidRoute(declared)}}

\* api_exception_status_code and the handlers of create_app.
StatusOf(result) ==
    CASE result = "payload" -> 200
      [] result \in {"invalid", "expired", "refresh"} -> 401
      [] result = "limited" -> 429
      [] result \in {"http4xx", "http5xx", "malformed"} -> 502
      [] result = "network" -> 503
      [] result = "timeout" -> 504
      [] OTHER -> 400

\* Faulty: the status tells.
IsServerError(result) == StatusOf(result) >= 500

\* is_upstream_failure.
IsUpstreamFailure(result) == result # "http4xx" /\ StatusOf(result) >= 500

-----------------------------------------------------------------------------

Requests == 1 .. MaxRequests
Windows == 0 .. MaxNow \div Window
Addresses == Clients \cup {"invalid", "denied", "exempt"}
Idle == [stage |-> "idle"]
Entered == [stage |-> "entered"]
Done == [stage |-> "done"]
Live == {r \in Requests : requests[r].stage \notin {"idle", "done"}}
Asked == {r \in Live : requests[r].stage = "asked"}
Sending == {r \in Live : requests[r].stage = "sending"}
Replied(from) == {r \in Sending : requests[r].from = from}
AnswerKey(key) == <<"answer", key>>
FailureKey(key) == <<"failure", key>>
Entry(key, ttl, sent, result) == [key |-> key, until |-> now + ttl, sent |-> sent, result |-> result]
Nobody == [who |-> "none", as |-> "nothing"]

\* What a request brings: parameters where there is a cache, cookies where they are read.
Keyed == IF policy.ttl = NoCache THEN {1} ELSE Keys
Cookies == IF policy.auth = NONE /\ ~policy.login THEN {"none"} ELSE {"none", "valid", "broken"}

\* The server sees a credential, a placeholder for it, or nothing.
Shown(who) ==
    IF who = "none" THEN [Nobody EXCEPT !.as = IF policy.placeholder THEN "placeholder" ELSE @]
    ELSE [who |-> who, as |-> policy.shows]

\* The cache may hold answers of earlier requests, to the first keys.
Init ==
    /\ ValidRoutes(ROUTES)
    /\ policy \in Policies
    /\ granted \in IF policy.auth = NONE THEN {FALSE} ELSE BOOLEAN
    /\ now = 0
    /\ counters = [place \in Clients \X Windows |-> 0]
    /\ active = 0
    /\ requests = [r \in Requests |-> Idle]
    /\ store \in {<<>>} \cup
          IF policy.ttl = NoCache THEN {}
          ELSE {[i \in 1 .. MaxSize |->
                   [key |-> AnswerKey(i), until |-> IF i = 1 THEN policy.ttl \div 2 ELSE policy.ttl,
                    sent |-> Nobody, result |-> "payload"]]}
    /\ passed = counters
    /\ lost = 0
    /\ recency = [i \in DOMAIN store |-> store[i].key]

-----------------------------------------------------------------------------
(* apply_security_middleware *)

\* Faulty: the cleaning takes the current window along.
CheckForgetting(client) ==
    LET window == now \div Window IN
    counters' = [place \in DOMAIN counters |->
        IF place[1] # client THEN counters[place]
        ELSE IF place[2] <= window THEN 0
        ELSE counters[place]]

\* InMemoryRateLimiter.check: counts the request and drops what the client left in old windows.
Check(client) ==
    LET window == now \div Window IN
    counters' = [place \in DOMAIN counters |->
        IF place[1] # client THEN counters[place]
        ELSE IF place[2] = window THEN counters[place] + 1
        ELSE IF place[2] < window - 1 THEN 0
        ELSE counters[place]]

Release == active' = IF active > 0 THEN active - 1 ELSE active

\* A slot, or 503.
Acquire(r) ==
    IF active < Limit
    THEN active' = active + 1 /\ requests' = [requests EXCEPT ![r] = Entered]
    ELSE requests' = [requests EXCEPT ![r] = Done] /\ UNCHANGED active

\* A request comes in: 400 for a bad address header, 403, 429, 503 or a slot.
Arrive(r, address) ==
    /\ requests[r] = Idle
    /\ \A earlier \in 1 .. r - 1 : requests[earlier] # Idle
    /\ CASE address \in {"invalid", "denied"} ->
              requests' = [requests EXCEPT ![r] = Done] /\ UNCHANGED <<counters, passed, active>>
         [] address = "exempt" -> Acquire(r) /\ UNCHANGED <<counters, passed>>
         [] OTHER ->
              LET place == <<address, now \div Window>> IN
              /\ Check(address)
              /\ IF counters'[place] <= Capacity
                 THEN passed' = [passed EXCEPT ![place] = @ + 1] /\ Acquire(r)
                 ELSE requests' = [requests EXCEPT ![r] = Done] /\ UNCHANGED <<passed, active>>
    /\ UNCHANGED <<configVars, now, cacheVars, lost>>

\* The response has been sent and its background task releases the slot.
Finish(r) ==
    /\ r \in Sending
    /\ requests' = [requests EXCEPT ![r] = Done]
    /\ Release
    /\ UNCHANGED <<configVars, now, counters, passed, lost, cacheVars>>

\* The request's task is cancelled, or its response cannot be sent: no release follows.
Cut(r) ==
    /\ r \in Live
    /\ requests' = [requests EXCEPT ![r] = Done]
    /\ lost' = lost + 1
    /\ UNCHANGED <<configVars, now, counters, active, passed, cacheVars>>

-----------------------------------------------------------------------------
(* execute_route *)

Touch(key) == recency' = Append(At(recency, {i \in DOMAIN recency : recency[i] # key}), key)

\* An answer is on its way: of the server, or found by the gateway itself.
Reply(r, from, about) ==
    requests' = [requests EXCEPT ![r] = [stage |-> "sending", from |-> from, about |-> about]]
Refuse(r, cookie, status) == Reply(r, "gateway", [cookie |-> cookie, status |-> status])

\* Faulty: the pool is asked first.
PoolFirst(cookie) ==
    IF policy.auth = NONE THEN {"none"}
    ELSE IF granted THEN {"pool", IF cookie = "valid" THEN "caller" ELSE "none"}
    ELSE IF cookie = "valid" THEN {"caller"} ELSE {"none"}

\* configured_credential_for_api: the caller's own credential, else for a route it is granted
\* to one of the pool if any is usable.
Resolved(cookie) ==
    IF policy.auth = NONE THEN {"none"}
    ELSE IF cookie = "valid" THEN {"caller"}
    ELSE IF granted THEN {"pool", "none"} ELSE {"none"}

\* The executors refuse a missing login, or the request goes out.
Ask(r, key, cookie, who) ==
    IF NeedsLogin(policy, who # "none")
    THEN Refuse(r, cookie, StatusOf("invalid"))
    ELSE requests' = [requests EXCEPT ![r] =
            [stage |-> "asked", key |-> key, cookie |-> cookie, who |-> who,
             sent |-> Shown(who), tries |-> 1]]

\* _execute_cached_route up to the fetch: the cache, then the mark of a failure.
LookUp(r, key, cookie, who) ==
    LET hit == Hit(store, AnswerKey(key), now)
        missed == AfterGet(store, AnswerKey(key), now)
        mark == Hit(missed, FailureKey(key), now)
    IN  IF hit # <<>>
        THEN /\ Reply(r, "cache", [sent |-> hit[1].sent])
             /\ store' = missed /\ Touch(AnswerKey(key))
        ELSE /\ store' = AfterGet(missed, FailureKey(key), now)
             /\ IF mark # <<>>
                THEN /\ Reply(r, "mark", [status |-> StatusOf(mark[1].result)])
                     /\ Touch(FailureKey(key))
                ELSE Ask(r, key, cookie, who) /\ UNCHANGED recency

\* FastAPI finds the parameters invalid.
Reject(r) ==
    /\ requests[r] = Entered
    /\ Refuse(r, "none", 422)
    /\ UNCHANGED <<configVars, now, limitVars, cacheVars>>

\* Cookies that cannot be a credential are refused with 422, a strict route without a login
\* with 401.
Begin(r) ==
    /\ requests[r] = Entered
    /\ \E key \in Keyed, cookie \in Cookies :
          IF cookie = "broken" /\ policy.auth # NONE
          THEN Refuse(r, cookie, 422) /\ UNCHANGED cacheVars
          ELSE \E who \in Resolved(cookie) :
                  IF who = "none" /\ policy.auth = COOKIE_OR_DEFAULT
                  THEN Refuse(r, cookie, 401) /\ UNCHANGED cacheVars
                  ELSE IF policy.ttl = NoCache THEN Ask(r, key, cookie, who) /\ UNCHANGED cacheVars
                  ELSE LookUp(r, key, cookie, who)
    /\ UNCHANGED <<configVars, now, limitVars>>

\* What a cached route keeps of an answer.
Keep(r, result) ==
    LET put(entry) == store' = AfterSet(store, entry, now, MaxSize) /\ Touch(entry.key)
    IN  IF policy.ttl # NoCache /\ result = "payload"
        THEN put(Entry(AnswerKey(requests[r].key), policy.ttl, requests[r].sent, result))
        ELSE IF policy.ttl # NoCache /\ IsUpstreamFailure(result)
        THEN put(Entry(FailureKey(requests[r].key), NegativeTtl, requests[r].sent, result))
        ELSE UNCHANGED cacheVars

\* An expired credential of the pool is refreshed and the request tried once more.
Refresh(r) ==
    /\ r \in Asked /\ requests[r].who = "pool" /\ requests[r].tries = 1
    /\ "expired" \in ResultOf(policy, "expired")
    /\ requests' = [requests EXCEPT ![r].tries = 2]
    /\ UNCHANGED <<configVars, now, limitVars, cacheVars>>

\* The method returns or raises a BaseApiException, answered with its status: an expired
\* credential of the pool only if it could not be refreshed or was refreshed in vain.
Answer(r, outcome) ==
    /\ r \in Asked
    /\ \E result \in ResultOf(policy, outcome) \ {"misshapen"} :
          Reply(r, "server", <<>>) /\ Keep(r, result)
    /\ UNCHANGED <<configVars, now, limitVars>>

\* Faulty: the exception passes by the release.
CrashKeepingSlot(r) ==
    /\ r \in Asked
    /\ requests' = [requests EXCEPT ![r] = Done]
    /\ UNCHANGED <<configVars, now, limitVars, cacheVars>>

\* Any other exception passes through the middleware, which gives the slot back: 500.
Crash(r) ==
    /\ r \in Asked
    /\ requests' = [requests EXCEPT ![r] = Done]
    /\ Release
    /\ UNCHANGED <<configVars, now, counters, passed, lost, cacheVars>>

Tick ==
    /\ \E leap \in Leaps : now' = now + leap
    /\ now' <= MaxNow
    /\ UNCHANGED <<configVars, limitVars, requests, cacheVars>>

Next ==
    \/ \E r \in Requests :
          \/ \E address \in Addresses : Arrive(r, address)
          \/ Reject(r) \/ Begin(r) \/ Refresh(r) \/ Crash(r) \/ Finish(r) \/ Cut(r)
          \/ \E outcome \in Outcomes : Answer(r, outcome)
    \/ Tick

Spec == Init /\ [][Next]_vars

-----------------------------------------------------------------------------
(* Properties *)

\* A slot is taken by a request from acquire to its release and by no other: the counter is
\* those under way and those whose task was cut short, and never more than the limit.
SlotsConserved == active = Cardinality(Live) + lost /\ active <= Limit

\* However requests are spread, an address gets no more than its capacity in a window through.
RateHolds == \A place \in DOMAIN passed : passed[place] <= Capacity

\* What a route accepted by include_routes shares through the cache was fetched without the
\* credential of anybody.
CacheIsPublic ==
    /\ \A i \in DOMAIN store : store[i].sent.who = "none"
    /\ \A r \in Replied("cache") : requests[r].about.sent.who = "none"

\* "鉴权 (401)、参数 (4xx) 与限流 (429) 属于调用方自身问题 ... 上游返回 4xx 说明上游是活的, 不该触发熔断"
\* (web/src/core/error_mapping.py): a request is cut short by a mark only for a failure of the
\* server that it could have met itself, and the status is that of the failure.
MarksBlameUpstream ==
    /\ \A i \in DOMAIN store :
          store[i].key[1] = "failure" =>
             store[i].result \in {"http5xx", "malformed", "network", "timeout"}
    /\ \A r \in Replied("mark") : requests[r].about.status \in {502, 503, 504}

\* A caller who is logged in acts as himself on every route whose method needs a login: he is
\* never lent a credential of the pool nor refused for want of one, and the server sees his
\* credential.  One of the pool goes out only where it is granted, and without a login
\* nothing personal goes out at all.
CallersActAsThemselves ==
    /\ \A r \in Asked :
          LET request == requests[r] IN
          /\ request.who = "pool" => granted /\ request.cookie # "valid"
          /\ policy.login =>
                /\ request.who # "none" /\ request.sent = [who |-> request.who, as |-> "credential"]
                /\ request.cookie = "valid" => request.who = "caller"
    /\ \A r \in Replied("gateway") :
          requests[r].about.cookie = "valid" => requests[r].about.status = 422

\* An entry still good leaves the cache only for want of room: no expired entry is there to
\* go instead, and none was used longer ago.
EvictionOrder ==
    [][\A i \in DOMAIN store :
          LET entry == store[i]
              place(key) == CHOOSE k \in DOMAIN recency : recency[k] = key
          IN  (/\ ~Expired(entry, now)
               /\ Find(store', entry.key) = <<>>) =>
                  /\ Len(store) = MaxSize
                  /\ \A j \in DOMAIN store :
                        /\ ~Expired(store[j], now)
                        /\ place(entry.key) <= place(store[j].key)]_vars
=============================================================================
