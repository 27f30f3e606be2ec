# Verification of QQMusicApi

TLA+ models of QQMusicApi: the SDK (`qqmusic_api/`) and the web gateway built on it
(`web/src/`). TLC checks the modules on small instances,
TLAPS proves the theorems for every value of the constants.

## 1. Inventory

The SDK is an asyncio library. `Client` is a facade over one `RequestEngine`,
which owns a transport and the batch executors; `modules/*` describe
endpoints, `models/*` parse answers. The gateway is a FastAPI application: a
route is a declaration, `execute_route` runs it, with a response cache,
request coalescing, a credential pool in SQLite and a security middleware.

| component | code | state it keeps | operations | what is hard | module |
|---|---|---|---|---|---|
| cached routes and coalescing | `web/src/routing/executor.py`, `web/src/core/coalesce.py` | flights by key, event/payload/error of each flight | enter, leave, wait, the two looks at the cache | tasks interleave at every await; a leader may be cancelled | `RouteExecution`, `FetchOnce` |
| credential pool and store | `web/src/core/credential_pool.py`, `credential_store.py`, `auth.py`, retry in `executor.py` | rows (credential, valid), one lock per account | acquire, ensure_usable, refresh, invalidate, health_check, sync_accounts | a refresh rotates the secret upstream before the row is written; stale copies; a store that fails; cancellation; restart | `CredentialPool` |
| security middleware | `web/src/core/security.py` | slots in use, counters per window | resolve, check, acquire, release | a slot must come back on every path | `Gateway` |
| cache backends | `web/src/core/cache.py` | LRU map with deadlines, or Redis | get, set, close | expiry, eviction at the limit, write failures | `MemoryCache` |
| route declarations | `web/src/routes/*.py`, `web/src/routing/router_factory.py`, `route_types.py` | none after import | include_routes, validate_routes | a cache on a route that depends on the caller | `RouteCatalog` |
| error mapping | `web/src/core/error_mapping.py` | none | status of an exception, is_upstream_failure | a caller's own error must not silence a key for others | `Gateway` |
| request engine | `qqmusic_api/core/engine.py` | open/closing/closed, registered operations | execute, gather, open_stream, close | close races operations, cancellation, a failing transport | `EngineLifecycle`, `BatchExecution` |
| transport | `qqmusic_api/core/transport.py` | permits, waiters, responses in flight | request, request_many, open_stream, send_many, close | permits must come back; chunks; partly failed batches; releases that give up | `TransportCapacity`, `BatchExecution` |
| batch executors | `qqmusic_api/core/executor.py`, `response.py` | requests, groups, results by index | execute_many, decode | results go to the right request, every request gets one | `BatchExecution` |
| device, QIMEI, Android session | `qqmusic_api/utils/device.py`, `qimei.py`, `android_session.py` | cached identity, files, locks | get_device, get_cached, ensure | double-checked loading, first calls race, crash while writing | `DeviceIdentity` |
| MQTT client | `qqmusic_api/utils/mqtt.py` | connection, pending SUBACKs, queue | connect, subscribe, messages, disconnect | a network thread and the event loop; redirects; a bounded queue | `MqttClient` |
| login | `qqmusic_api/modules/login.py`, `login_utils.py` | QR session, deadline | QR events, refresh, phone login | terminal events, deadline against a late answer | `QrLogin`, `CredentialPool` |
| pagination | `qqmusic_api/core/pagination.py` | current request, page count, first page | first, next, iter_items | cursors, short pages, interleaved first/next | `Pagination`, `PagedEndpoints` |
| API modules | `qqmusic_api/modules/*.py` | none | the request methods | login, platform and error codes differ by method | `ApiCatalog` |
| life cycle of the gateway | `web/src/app.py`, `web/run.py` | engine, store, pool, cache | start-up, shutdown | partial start-up, several workers on one database | start-up in `CredentialPool` |

How they interact. A gateway request passes the security middleware, resolves a credential
(a cookie, or one of the pool, refreshed under the account's lock when it is about to
expire), and runs the SDK call through the engine; the engine's executors group requests
into batches, prepare them with the identity of the device, and send them through the
transport, whose permits bound the connections. A public route is wrapped in the cache and
the coalescer. A pool credential that the upstream calls expired is refreshed once and the
call retried once. A QR login of the mobile app goes over an MQTT client of its own; a pager
turns each page into the request for the next.

What makes each correct is stated with its module in section 3, and the hazards the
properties answer to are listed line by line in `PROJECT.json`.

## 2. Plan and composition

In the order of what matters most to a running gateway and to a user of the SDK:

| | module | what for | state |
|---|---|---|---|
| 1 | `RouteExecution`, `FetchOnce` | cached routes, coalescing and the promise they implement | modelled, safety and refinement proved |
| 2 | `CredentialPool` | store, pool, retry, start-up check | modelled, safety proved |
| 3 | `EngineLifecycle` | operations against `close` | modelled, safety proved |
| 4 | `TransportCapacity` | permits, chunks, streams, partial failure | modelled, safety proved |
| 5 | `BatchExecution` over `ApiCatalog` | grouping, cutting, workers, `gather`'s results by index | modelled, safety proved |
| 6 | `QrLogin` over `MqttClient` | login sessions on a client between two threads | modelled, safety proved |
| 7 | `DeviceIdentity` | device, QIMEI and session: double-checked loading, renewal, saving, crashes | modelled, safety proved |
| 8 | `Gateway` over `RouteCatalog`, `MemoryCache`, `ApiCatalog` | every kind of route from the middleware to the answer | modelled, safety proved |
| 9 | `Pagination` over `PagedEndpoints` | strategies, pagers, every paged method | modelled, safety proved |

`ApiCatalog` is what the catalogue's users have in common: `BatchExecution` takes from it the
key of a call and whether it needs a login, `RouteCatalog` the method a route leads to,
`Gateway` what the method shows of a credential and makes of the server's codes.
`MqttClient` has no specification of its own: `QrLogin` is its caller and composes the
client's steps with the session's. `Gateway` has the middleware, the credentials, the cache
and the error mapping of one gateway together, and leaves out what two other modules
are about: coalescing (`RouteExecution`) and the inside of the pool (`CredentialPool`).

Each module has its proofs in a module named after it (`RouteExecutionProofs` and so on), except
the two of `RequestEngine`, 3 and 5: `EngineProofs` extends both, which is why the specification
of `EngineLifecycle` is called `LifeSpec`. Nothing of the plan is left that can be proved
(section 5).

## 3. How the modules correspond to the code

Everything runs on an asyncio loop, so a task is interrupted only where it
awaits. In the modules of tasks **an action is the stretch of code between two awaits**, its
guard the point where the task is suspended, and it contains every change the stretch makes.
`map` in `PROJECT.json` gives the lines of each definition.

Definitions marked *Faulty* in the modules are broken variants of an action, a
plausible bug each; they are in no next-state relation. Substituting one for the
action it imitates makes TLC report the property named with it in `PROJECT.json`.

### `RouteExecution` (and `FetchOnce`)

One worker process. `pc`, `key`, `flightOf`, `result`, `response` are the locals of
`_execute_cached_route` and `_resolve_with_leader`; `flights`, `event`, `payload`,
`error` are the Coalescer; `cache` and `failMark` are the live entries of the cache.
A payload is the request that fetched it, so that "this answer belongs to that key" can
be said.

* `loop` is the task between two suspension points. The coroutines of
  `MemoryBackend` contain no await that suspends, so a task that awaits them keeps the loop;
  those of `RedisBackend` always suspend. That difference (`suspends`) decides
  whether the two looks at the cache and `enter` are one atomic step, and is why
  both are checked.
* Failed reads end the request (`BackendReadFails`), failed writes are swallowed,
  entries expire or are evicted at any moment, a request is cancelled at any suspension.
* Which upstream failures are marked follows `is_upstream_failure`.
* With Redis a request whose two reads preceded the leader's write, and which enters after
  the leader has left, fetches again although the cache holds the payload: only followers look
  twice, although the docstring (`executor.py:111`) speaks of double-checked locking. For the
  in-process cache `MemoryNeverRefetches` says that this cannot happen.
* `FetchOnce` is the promise alone: at most one fetch of a key at a time, every other
  answer from the outcome of somebody's fetch of that same key, nobody answered twice.
  The mapping (`Promise`) takes the request whose upstream call is under way as the
  fetcher of its key.

### `CredentialPool`

The rows of SQLite are `stored` (the key in the row) and `valid`; a key stands for
the credential's `musickey` together with its refresh token, numbered as the upstream
issues them, because what the code compares is the key and what matters is whether it is
the newest. `lock` is one lock per worker process and account, as
`_credential_refresh_lock` keeps it in a dictionary of the process. A request
(`Requests`) walks through `configured_credential_for_api`, `ensure_usable`, the call, the
one `refresh` and the one retry; a task of the start-up health check (`Checkers`) walks
through its own part of them. `Start` is `sync_accounts`, for any subset of accounts with a
seed; `Crash` ends a process and all it was doing; the rows survive. A store operation is
one atomic step, since `CredentialStore` runs it in a thread under its lock and in one
transaction. The upstream accepts or refuses any key at any time, and a refresh replaces
the key, or fails.

Every store operation may also raise, and then changes no row. What follows is the code's:
an `acquire`, a read or an `invalidate` that raises makes the request a 500, an
`apply_refresh` that raises leads to the mark, a mark that raises inside
`_refresh_and_store` (`credential_pool.py:248`) takes the place of the refresh's exception and
is swallowed with it, so the row stays valid and nobody is told; in the health check the
exception ends the start-up (`StartupFails`). Three history variables say what became of
keys: `replaced` by the upstream, `condemned` by a mark, `unmarked` where the mark of a
replaced key failed. `ReplacedKeysLeaveThePool` holds up to the unmarked: nothing in the code tries
a failed mark again.

The routes modelled need a login. Routes with an optional one, which call without a
credential if they find none, take the same steps up to the call.

* The rows are shared by all worker processes of a server, the lock is not
  (`ServerConfig.workers`), although `_credential_refresh_lock` says that it serialises the
  refreshes of an account and `refresh` compares keys under it so that no old snapshot logs in
  again (`credential_pool.py:56`, `163`). With two workers `RefreshWorksOnThePoolKey` is false, and
  their health checks, which both start by checking every account, are enough: both find their
  key in the row, the upstream replaces it for one, and the other asks with the replaced key and, if
  that fails, condemns the newer one. The runs have one worker.
* `CredentialStore.get` does not look at `valid`, so a row condemned after the `acquire`
  snapshot is still tried and refreshed. `CondemnedStaysOut` says that only a newer key makes
  it valid again.
* `invalidate` (183) takes no lock and compares no key, so it may condemn a newer key that a
  peer has stored since the retry's refusal; and a restart writes the seeds over newer refreshed
  keys (`sync_accounts` is meant to). No line of the code promises otherwise and no property
  forbids it.

### `EngineLifecycle`

`_operation` and `close` of `RequestEngine`. `close` may come from outside, from the task
of an operation (refused) or from a child task that the operation awaits (the
clean-up budget ends the mutual wait): `caller`. `overdue` is a history variable: the
operations a close gave up. The bodies of operations are arbitrary; they may ignore
cancellation.

### `TransportCapacity`

`_CapacityLimiter`, `request_many` with its chunks cut to the free permits, and
`open_stream`. `held` says which batch or stream answers for how many permits;
`open` which responses the transport is answerable for. `strict` batches are those
with `return_exceptions=False`. A release, `_release_responses`, is best effort
(`transport.py:252-258`): it closes one response after the other and drops what a close
raises (`Close`), and its one budget of 5 seconds may be spent before it comes to the last
(`BudgetSpent`). A batch that gives up releases up to three times: what a failed `gather` left
(`failing`), then all of its chunk (`releasing`), while it still holds the permits, then what
earlier chunks had collected (`unwinding`). `todo` is what the release under way has yet to close,
`unclosed` what the last release of it gave up on. So the code does not promise that every
response is closed, and `NoResponseLeaks` does not say so: it says that none is forgotten, each
that the caller was not given being closed or among those a release tried and gave up on.
`unclosed` may be all of them. A release is shielded, so no cancellation
strikes within it. `Permits` are the permits held, each by name: the counter
`used` is compared with how many there are, which a proof can follow one permit at a time and a
sum over the holders it could not.

### `BatchExecution` (with `ApiCatalog`)

`gather` with its two executors. `stage` is where each executor is, `seen` how many of its
physical requests `_prepare_batch` (or `HttpExecutor.prepare`) has been tried for,
`outcomes` what the workers of `_send_many_fallback` have for each prepared one, `found`
what `execute_many` will return and `results` the list of `gather`. `fate` is a history
variable: what really became of each call, to compare the list with. A call is what the
executors see of it: its executor, its key (`CgiBatchKey`: platform, credential, the comm it
brings and whether that replaces the platform's, signature) and whether a required login is missing. A server may answer any subset of the
items of an envelope, or send one that cannot be used; a preparation or a request may fail.

The code fills a dictionary of groups and slices each group; the model says of each call what
that comes to, without recursion, so that it can be reasoned about for lists of any length:
which calls share its key (`Group`), how many of them come before it (`Place`), and so whether
it starts a chunk (`Heads`) and which one (`Chunk`). Groups come in the order of their first
calls, as the keys of a dictionary do, and the chunks of each in turn (`Sooner`); `InTurn`
lays a set out in an order given by what comes before each member. `batches` keeps the result,
as the local of that name does.

A transport with `request_many` is `TransportCapacity`'s subject; here it is the fallback.

`ApiCatalog` has a row for each request method in `qqmusic_api/modules`: how it travels,
the platform it insists on, whether it needs a login, signs, brings its own comm or shows
a placeholder, and what it makes of the server's codes (`allow_error_codes`,
`_validate_result`, caught exceptions).

A method builds its request with the identity of the scope at the moment it is called, and
the scope is resolved again when the request is awaited: a caller who changes the client's
credential in between sends parameters (`uin`) of one account with the credential of the
other. The model's calls have one scope.

### `QrLogin` and `MqttClient`

`MqttClient` has the two sides of `Client`. The caller's task is `stage`; each connection
attempt has a candidate with a network `thread` of its own. A callback that goes through
`_dispatch_to_async` is `inHand` until the loop has run it (`call_soon_threadsafe` and
waiting for its result), which is why a thread has one at most; `_on_subscribe` and
`_fail_pending_subacks` run in the thread itself and interleave with everything.
`closing`, `attempt`, `client`, `suback`, `stream` are the fields of the class. paho dials
again by itself when a connection ends, until it is told to stop, as its documentation says.
`QrLogin` is `iter_events`: `at` is its place in `checking_mobile_qrcode` or in
`iter_web_qrcode_login`, `late` whether the deadline has passed.

What the model shows of this code, each allowed for by a property:

* When the deadline cuts `connect` while a candidate waits for its CONNACK, the `finally`
  of `_connect_candidate` (`mqtt.py:459`) calls `_stop_paho_client`, whose worker thread is
  never started, because its await begins cancelled; `disconnect` then finds no client. The
  thread stays, although `disconnect` promises to release everything. `OnlyCutConnectsStay`
  says that this is the only way.
* A DISCONNECT with reason code 0 from the broker is ignored: the session then listens to
  a connection that is no longer subscribed, until its deadline (`ListenersAreSubscribed`).
* A redirect too many leaves `connect` as `MqttRedirectError`, which is not the
  `ConnectionError` that login turns into a `NetworkError`; it reaches the caller raw.
* The wait for a SUBACK blocks a worker thread and overshoots the deadline by up to
  `max(keep_alive, 5)` seconds.
* A task cancelled from outside skips `disconnect`'s awaits in the same way. Only the deadline
  cancels in the model.

### `DeviceIdentity`

`pc` walks through `_prepare_batch`: `ensure` (the session, with the second look under its
lock, and the request for a new one), `get_device`, `get_cached` (the QIMEI, likewise).
`refreshing` says that the walk is the inner one of `_refresh_session`, which needs device
and QIMEI itself. A task in `plain` sends requests that
are not Android's, which need the device alone (`AfterDevice`). Time is in half days: a session is good for the calendar day it was
saved on, a QIMEI for 24 hours. A file is `Torn` from its opening to the end of its write, and two writes that overlap may leave
a mixture, which is `Torn` too.

Two first requests without a file both find none (`device.py:424`): the process goes on with
the device of the later one, the file may hold the other or neither
(finding 2, `FileKeepsTheDevice`). `KnownDeviceStays` is about the other case, a process that
found a file. What the model shows and no property forbids: a crash while
`device.json` is written makes every later load fail until the file is removed; a
cancellation in `set_session` after the data has changed leaves a store newer than the
session in memory, which the next day's renewal corrects.

### `Gateway` (with `RouteCatalog` and `MemoryCache`)

One process, one route: `policy` is what the declaration and the method decide, drawn from all
the routes of `web/src/routes`. The 91 routes collapse into the few policies that the code
tells apart. To test the validation, the routes of users are also offered with a cache;
`validate_routes` must refuse them. `requests` go through `Arrive` (address, lists, rate, slot), `Begin`
(cookies, credential, cache, failure mark, login), `Answer` and `Finish`; `Cut` is the end
of the request's task, or a body that could not be sent. `passed`, `lost` and `recency`
are history. A request whose answer is under way keeps in `about` what the answer was made
for, or which status it had: this is what the properties of the cache, the marks and the
callers look at.

`MemoryCache` keeps the entries in the order of their last use. `At` picks the entries at some
places without changing their order; it says directly what `SelectSeq` says by recursion, so
that the proofs can use it.

* A request that is cancelled, or whose body cannot be sent, keeps its slot for good: the
  release is in `except Exception` and in the background task (`security.py:264-285`).
  `SlotsConserved` counts them in `lost`.
* Every response of `call_next` is a streaming one, so the direct release of a
  response that does not stream is never taken.
* Counters of addresses that never come back are never removed.
* With `memory_max_size` 0 `_evict` calls `popitem` on an empty map; `_cache_set` swallows
  the KeyError. The model has sizes above zero.
* A response that does not fit its model is a ValidationError and a 500 (`Crash`).

### `Pagination` (with `PagedEndpoints`)

`PagedEndpoints` has the four strategies as functions from a request's parameters and a
response to the next parameters, and every paged method as a strategy for a caller's page
and size. `Pagination` is `AsyncPager` read by one or two tasks, and `iter_items`.
The server is honest: it sends the page it was asked for, as full as it likes where the strategy
can bear that (`FillsPages`), and an empty page only at the end. A strategy asks its
extractors in the order of the code, the flag, the total, the count, and the first that
it has and that gives an answer decides. An extractor that answers `None` for a list is not among
those of its strategy, which comes to the same, as the code then falls through to the next; a
server that answers it for some pages of a list and not for others is left out. `None` is not
among the parameters and the pages (`PaginationAssumption`).

* The tutorial says that `limit` is 100 pages by default (`docs/tutorial/pagination.md:72`);
  `pager()`, `paginate()` and `collect()` pass their own default `None` on, which means no limit,
  so `AsyncPager.DEFAULT_LIMIT` never applies (`Limit`).
* Where a strategy has both a flag and a total, the total is never looked at.
* Interleaved `first` and `next` may fetch a page twice; nothing is skipped (`PagesJoin`).
* `iter_items` fetches one page more when its limit falls on the end of a page.
* A server that claims more after an empty page makes `OffsetStrategy` raise after the page
  has been counted; that server is left out.

## 4. What the runs check

Sizes are distinct states. All passing runs set `CHECK_DEADLOCK
FALSE`, because a finite number of requests (operations, sessions, pages) is served and
the system then rightly stops.

| run | instance | size | shows |
|---|---|---|---|
| `route` | 3 requests, 2 keys, both caches, coalescing on and off | 304 316 | one fetch per key; no stranded follower, leaked flight or lost outcome; no answer crosses keys; the in-process cache is never fetched past; the handler implements `FetchOnce`; every request is answered |
| `pool_safe` | 2 requests, 2 accounts, 1 worker with a restart, cancellation, a failing store | 1 941 149 | lock discipline, refresh works on the current key, callers' credentials stay apart, a condemned key stays out |
| `pool_calm` | 2 requests, 1 worker, no cancellation and no crash, a failing store | 11 240 | a replaced key never stays valid unless its mark failed; every request is answered |
| `pool_cancelled` | 1 request, cancelled | finding | a cancelled refresh leaves a replaced key valid |
| `engine_close` | 3 operations, 2 closes | 466 716 | nobody slips in, the transport outlives operations, closed means closed; nobody waits for ever |
| `transport_permits` | batches of 3 and 2, a stream, 2 permits | 748 416 | permits conserved, delivered batches complete, no response forgotten by the releases, everyone served |
| `gather` | 3 calls of 3 methods and 2 credentials, batches of 1 and 2, 2 workers | 527 502 | results in place, one scope per envelope, nothing runs on, gather ends |
| `login_session` | 2 redirects, a queue of 2, up to 4 messages | 28 096 | messages accounted for, listeners subscribed, threads ended, sessions end |
| `identity` | 2 tasks of Android or not, 4 devices, 1 crash, cancellation, a clock past midnight | 651 672 | lock discipline of three locks, no needless request, a known device stays, every call ends |
| `identity_first_calls` | 2 tasks, no crash, no cancellation | finding | two first calls leave another device in the file than in memory |
| `gateway` | 3 requests to a route of every policy, 2 slots, cache of 2, 2 windows | 2 783 394 | slots, rates, privacy of the cache, blame of marks, identity of callers, order of eviction |
| `pages` | every strategy, lists of up to 4 items, pages of 1 or 2, limits up to 3 | 397 740 | pages join, an end is the end, reading ends |

**Bounds.** Three requests are the smallest number with a leader, a follower and a newcomer
who arrives after the leader left; two keys let answers cross. In the pool two requests and the
health-check task are three claimants of one lock. `MaxKey` is 1 in `pool_safe`, where the other dimensions are large: an
account is refreshed once by one of the three, and each of the others may hold the old key. In
`pool_calm` it is 3, so that a snapshot can be more than one key behind. `MaxKey` bounds the keys of an
account and `MaxStarts` the starts of workers (and so the crashes); `MayCancel` says whether
the server cancels requests. Three operations and two closes give a close queued
behind another with an operation between them, and one operation that calls close while
others run. A batch of three over two permits needs two chunks even when it is alone and
three when a stream holds a permit; it can fail or be cancelled in each, with responses of
earlier chunks to release. Three calls in batches of two make a full and a partly
full envelope of one key, or two groups interleaved by the order of the calls; the methods are one
public, one personal, one over HTTP. Two redirects give three candidates whose threads
overlap, a queue of two is full after two of the four messages. Two tasks race for everything in the identity, the clock lets a
session and a QIMEI expire, separately, and the crash strikes each write. Three requests of one
address exceed a rate of two and a limit of two slots; the cache of two, filled by earlier
requests, evicts for the third key, before and after the one leap of the clock over a window
and the shorter deadlines. Symmetry (requests and accounts of the pool) is used only where no
liveness property is checked.

**Fairness.** The event loop runs every ready task: weak fairness of the steps of tasks.
Upstream calls end, because each carries a timeout in the SDK: a hypothesis
`UpstreamCallsEnd` of `EveryRequestAnswered` in `RouteExecution`, part of `FairSpec` in the
other modules. Timers fire: a hypothesis `TimersFire` for the followers in `RouteExecution`,
`BudgetSpent` in the engine and in the transport's releases, the deadline and the limits of connect and subscribe in
`QrLogin`. Readers of streams end their leases, readers of pagers go on calling. The tasks of
`DeviceIdentity` have strong fairness, because three locks can be taken again and again by
others: `anyio.Lock` and `asyncio.Lock` serve those who wait in turn. Nothing is
assumed of cancellation, crashes, expiry, arrivals, of the network and the broker, or of the
bodies of the engine's operations.

**Cancellation** is that of anyio's scopes and of the server's handling of a request: an
exception at the next await, held off by a shield. A native `Task.cancel` that strikes inside a
shielded release or while a store thread runs is not modelled.

## 5. What is proved

TLAPS checks these for every value of the constants, from the assumptions named in the modules
(`NoneAssumption`, `FlagAssumption`, `PoolAssumption`, `EngineAssumption`, `BatchAssumption`,
`CapacityAssumption`, `MqttAssumption`, `IdentityAssumption`, `BoundsAssumption`,
`GatewayAssumption`, `PaginationAssumption`): identifiers of different kinds differ, bounds are
naturals, and what a configuration cannot set to zero (permits, sizes, windows, page sizes, the
queue, batches, workers) is above zero. Two theorems about the pool have hypotheses besides,
which are discussed with them.

| module | theorems (the property of a run that each states) | inductive invariant |
|---|---|---|
| `RouteExecutionProofs` | `TypeCorrect`, `FlightInvariant` (`FlightInv`), `OneFetchPerKey` (`SingleFetch`), `NoLostWakeup`, `NoOutcomeLost` (`EmptyHandedOnlyIfLeaderCancelled`), `MemoryMissIsFresh` (`MemoryNeverRefetches`), `HandlerImplementsFetchOnce` (`ImplementsFetchOnce`) | `FlightInv`, with `OutcomeInv`, or `MemoryReads`, on top of it |
| `CredentialPoolProofs` | `PoolInvariant` (`PoolInv`), `TypeCorrect`, `LocksAreKept`, `CallersAreApart` (`CallersStayApart`), `RefreshIsCurrent` (`RefreshWorksOnThePoolKey`), `CondemnedKeysStayOut` (`CondemnedStaysOut`), `ReplacedKeysAreTakenOut` (`ReplacedKeysLeaveThePool`) | `PoolInv`, with `InHandIsCurrent`, `CondemnedInv`, or `ReplacedInv`, on top of it |
| `EngineProofs`, of `EngineLifecycle` | `CloseInvariant` (`CloseInv`), `TypeCorrect`, `NoUnseenOperation`, `NoTransportUnderfoot` (`TransportOutlivesOperations`), `ClosedIsClosed` | `CloseInv` |
| `EngineProofs`, of `BatchExecution` | `BatchInvariant`, `EveryResultInItsPlace` (`ResultsInPlace`), `OneScopePerEnvelope` (`EnvelopesShareOneScope`), `NoRequestRunsOn` (`NothingRunsOn`) | `BatchInv` |
| `TransportCapacityProofs` | `CapacityInvariant`, `NoPermitLost` (`PermitsConserved`), `DeliveredIsComplete` (`DeliveredMeansComplete`), `NoResponseIsLeaked` (`NoResponseLeaks`) | `CapacityInv` |
| `QrLoginProofs` | `QrInvariant`, `NoMessageIsLost` (`MessagesAccountedFor`), `ListenersHoldTheirSubscription` (`ListenersAreSubscribed`), `NoThreadIsLeftBehind` (`OnlyCutConnectsStay`) | `QrInv` |
| `DeviceIdentityProofs` | `IdentityInvariant`, `TheLocksAreSound` (`LocksAreSound`), `TheKnownDeviceStays` (`KnownDeviceStays`), `NothingIsNeedless` (`NoNeedlessRequests`) | `IdentityInv`, with `OneDevice`, or `NothingIsAhead` and `RenewalIsDue`, on top of it |
| `GatewayProofs` | `GatewayInvariant`, `NoSlotIsCountedTwice` (`SlotsConserved`), `RatesHold` (`RateHolds`), `CacheStaysPublic` (`CacheIsPublic`), `OnlyTheServerIsBlamed` (`MarksBlameUpstream`), `CallersAreThemselves` (`CallersActAsThemselves`), `EvictionIsInOrder` (`EvictionOrder`) | `GatewayInv` |
| `PaginationProofs` | `PagerInvariant`, `DeliveredPagesJoin` (`PagesJoin`), `StoppingIsRight` (`EndIsReal`) | `PagerInv` |

*Route.* That at most one request fetches a key is not inductive: `Lead` must know that
an unregistered key has no fetcher, and `Finish` that the flight it pops is its own. `FlightInv`
says that the registry names exactly the leaders between `enter` and `leave`. A step either stays
outside the fetching part, stays inside it, or leaves it, and there is one lemma for each.
`OutcomeInv` adds what is found: a payload or an error on a flight or in the cache is the outcome
of the fetch it is named by, of the same key, and a flight that is over says how, unless its
leader was cancelled. From it follow that only such a leader sends its followers away
empty-handed, and, step by step, the refinement: an upstream call that begins or ends is a step
of `FetchOnce`, an answer is taken from an outcome that exists, and all else is a stutter. The
initial states map to the initial states. `FetchOnce` has no fairness, so this is the whole of
`ImplementsFetchOnce`.

*Pool.* A lock is found through the process and the account of the task that holds it, so the
discipline needs that a task at a lock has both, and that its process is up. The proof
splits a step of a task into what it leaves alone (`Own`: all other tasks) and what it does to its
lock (`Locking`: takes it on entering the locked part, frees it on leaving, nothing in
between); the discipline follows from the two, for all fifteen actions and `Cancel`.
`RefreshIsCurrent` has the hypothesis `Workers = {w0}`: within one process, the lock
excludes every other writer of the row between the comparison and the upstream's answer,
and the only writer without a lock, `Start`, finds no task under way. With two processes
the theorem is false (section 3).
`CondemnedKeysStayOut` has no hypothesis: with any number of processes the upstream issues a
key once, so what a refresh is about to store was never in a row and never condemned, and no other
task is about to store the same (`OnItsWay`). Its history is forgotten only where a
restart seeds the row. `ReplacedKeysAreTakenOut` has two, `MaxStarts = 1`
and `MayCancel = FALSE`: one process that starts once, hence does not crash, and no cancelled
request. Neither can be dropped. Without the second the property is false (finding 1); a crash
between the upstream's answer and the write loses the new key in the same way, and a later start
writes the seeds over the rows. `ReplacedInv` says that a valid row with a replaced key is in the
hands of the task that replaced it, which has yet to store the new key or to condemn the row, or among the `unmarked`, whose
mark failed; to keep this when the task stores, what it stores must be the newest key (`GotIsNewest`), and
that takes the lock.

*Engine.* A close in progress holds the lock, which keeps operations from
registering, so what it found running is all there is to wait for (`LockIsExact`,
`CloseSeesAll`).

*Batches.* The proof has two halves. The first is about a list alone: `PhysicalIsProper` says
that the chunks, of any size and over any number of calls, are requests of one key that share
the admitted calls out, each to one request. The members of a set have ranks of their own
(`RanksDiffer`), so laying it out visits each once (`InTurnVisits`); the places in a group are
the numbers up to its size (`PlacesInGroup`), every number lies above a multiple of
`batch_size` by less than `batch_size`, and two multiples are that far apart
(`MultipleBelow`, `MultiplesApart`), so every call is in one chunk and no two chunks meet
(`ChunksShareOut`). `Sooner` is a total order of the chunks (`SoonerOrders`).
The second half is about the steps. `ExecutorInv` says what an executor may rely on at each
stage: while it prepares, nothing has become of the calls of requests it has prepared or not
yet tried (`Waits`), and every other call has its error; while requests are under way, the
outcome of a request is what became of its calls outside (`Matches`), and the workers are few
enough; one that has failed knows a call that did, one that was cancelled knows who
cancelled it. `ResultsInPlace` needs both executors, so the proof shows that a step of one leaves
the other's invariant alone (`StepIsLocal`, `UntouchedKeeps`): the lists are shared, but a call
belongs to one executor.

*Transport.* `CapacityInv` is a ledger of the permits and, for each batch, where it has got
to: the items up to `start + sent` have an outcome, those with a response are open, and any
other that is open failed, and is to be closed by the release under way or was given up
(`SentUpTo`). Of a batch that gives up, all that is open is in `todo` or `unclosed`, or
belongs to the earlier chunks whose turn comes next; the lemmas `AbortStep` and `UnwindStep` say that the two
hand-overs forget nothing. Nothing in the proof assumes that a close succeeds. Even the
type of the counter needs the ledger, because giving back subtracts.

*QR login.* `QrInv` says of the two sides of the client what each may rely on. One candidate at a
time has a thread that runs (`Alone`). A callback in hand blocks its thread, so a message in hand
is the last that was published (`Flow`); that the stream closes only after all that its connection
delivered is the reason why a session that fails has read the rest. A thread that nobody will
stop belongs to a connect that the deadline cut (`Stray`). A session that listens has its
subscription, or the news of its loss is in hand (`Subscription`).

*Identity.* `InHand` says what a task has read or made by the time it uses it, which makes the
types inductive. For the locks each step of a task leaves the others alone and takes a free
lock or gives back its own (`LocksAside`). `NothingIsNeedless` carries the answer of the second
look to the request: what the look found does not change while the lock is held (`CurrentKept`),
and a day that is over does not come back (`DaysPass`), which needs that nothing was saved in
the future (`NothingIsAhead`). `TheKnownDeviceStays` holds because nobody generates a device
where a file exists, and a QIMEI is made for the device in memory (`OneDevice`).

*Gateway.* `GatewayInv` has a part for each resource. Slots: those in use are those of the
requests that hold one and of those that were cut. Rates: the cleaning of counters forgets
only windows that are over, so of the current and later windows the limiter remembers all that
it let through (`Meter`). Privacy: a route that caches has no authentication, because
`validate_routes` refuses the others (`PoliciesAreOK`, over every declaration of the
catalogue), so what is put into the cache was asked for nobody (`CacheOK`). Eviction: the
order of the entries is the order of the last uses, whatever `get` and `set` remove on the way;
the lemmas at the head of the module say what `At` returns.

*Pager.* The proof has two halves. `NextPageJoins`, about one page: for a strategy that is
`Sound`, the request after a page starts where the page ended, and there is none only at the
end of the list. `EveryStrategyIsSound` goes through the paged methods, for every page and size a
caller may name. `PagerInv`, about the pager: all is delivered up to some point, every request in
play starts at that point or before it, and where the pager sees no further page that point is
the end. This is why a slower reader, who moves the pager back, may repeat a page but never
skip one. For one reader alone (`AloneAt`) the next request starts exactly at that point, and
`iter_items` has taken what there is before it or its limit.

*What the proofs changed.* The extractors of a strategy and what a method shows of a credential
were first a `CASE` with overlapping guards. TLC takes the first arm that holds and agreed with
the code, but the language leaves open which arm is meant, and no proof could go through; they
are chains of `IF` now, in the order of the code. `BatchExecution` first grouped and cut its list
with recursive operators on sequences, of which nothing can be proved by induction here; the
definitions over sets and places that replaced them give the same requests in the same order
on every list of the bounds.

All the invariants were model-checked before they were proved, on the instances above or on
larger ones, `BatchInv` on lists of two calls of the three methods with both credentials and of
three calls with one.

**Only model-checked.**

* Liveness (`EveryRequestAnswered`, `ReadingEnds`, `GatherEnds` and the others that a run lists):
  TLAPS has no ENABLED, so nothing about fairness.
* The properties that the code does not have (section 6).

## 6. Findings

1. **A cancelled refresh loses the new credential** (`pool_cancelled`). `_refresh_and_store`
   cleans up in `except Exception`; a cancellation between the upstream's answer and the
   write leaves the replaced key in the pool as valid. Without cancellation and crashes only a
   failing mark does (`pool_calm`).
2. **Two first requests leave another device in the file** (`identity_first_calls`). The tutorial
   says that `device_path` lets later clients go on with the same device. `get_device` looks for the
   file, awaits, and generates a device without a lock: two first requests both find none. The
   memory keeps the later device; the file ends with either, or unreadable.

Other behaviours worth knowing are listed with their modules in section 3. Two of them go against
what the repository says: several workers may refresh one account at once (`CredentialPool`),
and a pager without a limit has none (`Pagination`).

## 7. What is not modelled, and why

* The pydantic models of answers and the parameters of requests: descriptions without state or
  order of steps. Signing and lyric decryption: fixed tables and bit arithmetic, settled by test
  vectors.
* The binding of route parameters to FastAPI's signatures, OpenAPI, CORS, the pages for
  documentation, ETags and 304: declarative code run once, or layout of answers.
* `helper_utils.py`, the upload of a file in parts by an HTTP client of its own.
* The order in which shutdown closes cache, pool and engine, and `close` of the
  transport: what happens there is decided by SQLite, anyio, niquests and uvicorn, and the
  source states nothing of it.
* The phone login (one request per call), the filter of repeated events, `get_qrcode`: no
  interleaving, no state beyond the last event.
* Migration of the device file of older versions; writes of `device.json` that fail.
* Redis, SQLite, niquests, paho and the upstream are external: what they do is what the calls
  in the code assume of them, failures included.
