--------------------------- MODULE CredentialPool ---------------------------
(***************************************************************************)
(* The shared credential pool of the web gateway: the rows of the SQLite   *)
(* store (web/src/core/credential_store.py), the pool with its lock per    *)
(* account (web/src/core/credential_pool.py), the choice of a credential   *)
(* for a request (web/src/core/auth.py) and the single retry after a       *)
(* refresh (execute_route in web/src/routing/executor.py).                 *)
(*                                                                         *)
(* A credential is an account and a musickey; the keys of an account are   *)
(* numbered in the order the upstream issued them, 0 being the seed of the *)
(* accounts file.  The upstream may accept or refuse any key at any time.  *)
(*                                                                         *)
(* An action is the stretch between two awaits.  A store operation runs in *)
(* a worker thread under the store's lock, so it is one atomic step; the   *)
(* stretch after it is part of the same action, since what the thread has  *)
(* done is visible to others at once and the task itself reads nothing     *)
(* before it resumes.  Every store operation may also raise (a locked or a *)
(* full database, a broken file): it then changes no row, and the action   *)
(* goes where the code's handlers lead the exception.                      *)
(***************************************************************************)
EXTENDS Naturals

CONSTANTS
    Requests,   \* tasks serving authenticated requests
    Workers,    \* worker processes (ServerConfig.workers) on one database
    Accounts,   \* musicids
    None,
    MaxKey,     \* bound: keys the upstream issues per account
    MaxStarts,  \* bound: starts of workers
    MayCancel   \* whether requests are cancelled by the server

ASSUME PoolAssumption ==
    /\ MaxKey \in Nat /\ MaxStarts \in Nat /\ MayCancel \in BOOLEAN
    /\ None \notin Requests \cup Workers \cup Accounts \cup Nat
    /\ Requests \cap (Workers \X Accounts) = {} /\ None \notin Workers \X Accounts

VARIABLES
    worker,    \* "down", "checking" (start-up health check) or "serving"
    starts,    \* how many times a worker has started
    stored,    \* the key in the row of each account, None where there is no row
    valid,     \* the accounts whose row has valid = 1
    lock,      \* who holds the refresh lock of each account in each process
    issued,    \* the newest key the upstream issued for each account
    replaced,  \* history: the keys the upstream has replaced by a newer one
    condemned, \* history: the keys of the rows that were marked invalid
    unmarked,  \* history: the replaced keys that stay in their row: the mark failed
    pc,
    home,      \* the process a task runs in
    source,    \* "cookie" or "pool": CallerCredential or PoolCredential
    todo,      \* the credentials of the acquire snapshot still to be tried
    acct, key, \* the credential in hand
    got,       \* the key a refresh brought, until it is stored
    attempt,   \* 0 for the first call, 1 once a refresh was asked for
    response

workerVars == <<worker, starts>>
rows == <<stored, valid>>
history == <<replaced, condemned, unmarked>>
cred == <<acct, key>>
taskVars == <<pc, home, source, todo, acct, key, got, attempt, response>>
vars == <<worker, starts, stored, valid, lock, issued, replaced, condemned, unmarked,
          pc, home, source, todo, acct, key, got, attempt, response>>

-----------------------------------------------------------------------------
(* Types *)

Checkers == Workers \X Accounts   \* health_check runs one task per account
Tasks == Requests \cup Checkers

CallerKey == MaxKey + 1           \* a key of a caller's own login session
Keys == 0..MaxKey

\* Under the account's lock.
Locked == {"ensureRead", "ensureCheck", "refreshRead", "refreshCall", "apply", "markRefresh"}
PCs == {"idle", "acquire", "choose", "ensureLock", "call", "refreshLock",
        "retry", "invalidate", "checkRead", "checkMark", "raised", "done"} \cup Locked
Responses == {"none", "ok", "error", "expired", "noCredential", "cancelled"}

TypeOK ==
    /\ worker \in [Workers -> {"down", "checking", "serving"}]
    /\ starts \in 0..MaxStarts
    /\ stored \in [Accounts -> Keys \cup {None}]
    /\ valid \subseteq Accounts
    /\ lock \in [Workers -> [Accounts -> Tasks \cup {None}]]
    /\ issued \in [Accounts -> Keys]
    /\ replaced \subseteq Accounts \X Keys
    /\ condemned \subseteq Accounts \X Keys
    /\ unmarked \subseteq replaced
    /\ pc \in [Tasks -> PCs]
    /\ home \in [Tasks -> Workers \cup {None}]
    /\ source \in [Tasks -> {"cookie", "pool"}]
    /\ todo \in [Tasks -> SUBSET (Accounts \X Keys)]
    /\ acct \in [Tasks -> Accounts \cup {None}]
    /\ key \in [Tasks -> Keys \cup {CallerKey, None}]
    /\ got \in [Tasks -> Keys \cup {None}]
    /\ attempt \in [Tasks -> 0..1]
    /\ response \in [Tasks -> Responses]

Init ==
    /\ worker = [w \in Workers |-> "down"]
    /\ starts = 0
    /\ stored = [a \in Accounts |-> None]
    /\ valid = {}
    /\ lock = [w \in Workers |-> [a \in Accounts |-> None]]
    /\ issued = [a \in Accounts |-> 0]
    /\ replaced = {} /\ condemned = {} /\ unmarked = {}
    /\ pc = [t \in Tasks |-> "idle"]
    /\ home = [t \in Tasks |-> IF t \in Checkers THEN t[1] ELSE None]
    /\ source = [t \in Tasks |-> "pool"]
    /\ todo = [t \in Tasks |-> {}]
    /\ acct = [t \in Tasks |-> None]
    /\ key = [t \in Tasks |-> None]
    /\ got = [t \in Tasks |-> None]
    /\ attempt = [t \in Tasks |-> IF t \in Checkers THEN 1 ELSE 0]
    /\ response = [t \in Tasks |-> "none"]

-----------------------------------------------------------------------------
(* Helpers *)

At(t, label) == pc[t] = label
Goto(t, label) == pc' = [pc EXCEPT ![t] = label]

Respond(t, kind) ==
    /\ Goto(t, "done")
    /\ response' = [response EXCEPT ![t] = kind]

Held(t) == lock[home[t]][acct[t]] = t
TakeLock(t) ==
    /\ lock[home[t]][acct[t]] = None
    /\ lock' = [lock EXCEPT ![home[t]][acct[t]] = t]
FreeLock(t) == lock' = [lock EXCEPT ![home[t]][acct[t]] = None]

\* The key in the row of an account, if there is a row.
Row(a) == {<<a, stored[a]>>} \cap (Accounts \X Keys)

\* mark_invalid_row: an UPDATE by musicid, whatever key the row holds.
MarkInvalid(a) ==
    /\ valid' = valid \ {a}
    /\ condemned' = condemned \cup Row(a)
    /\ UNCHANGED <<stored, replaced, unmarked>>

\* A store operation raised and nothing catches it: a request ends as a 500, a
\* health check makes the gather of its process raise.
Raise(t) ==
    \/ t \in Requests /\ Respond(t, "error")
    \/ t \in Checkers /\ Goto(t, "raised") /\ UNCHANGED response

-----------------------------------------------------------------------------
(* The life of a worker process *)

\* _lifespan: sync_accounts writes every seed over its row, deletes the other
\* rows, and the health check is started; the gateway is not serving yet.  (One
\* transaction: where it raises, nothing is written and the process ends.)
Start(w) ==
    /\ worker[w] = "down"
    /\ starts < MaxStarts
    /\ starts' = starts + 1
    /\ worker' = [worker EXCEPT ![w] = "checking"]
    /\ \E seeded \in SUBSET Accounts :
          /\ stored' = [a \in Accounts |-> IF a \in seeded THEN 0 ELSE None]
          /\ valid' = seeded
          /\ condemned' = condemned \ (seeded \X {0})
          /\ pc' = [t \in Tasks |-> IF t \in {w} \X seeded THEN "checkRead" ELSE pc[t]]
    /\ UNCHANGED <<lock, issued, replaced, unmarked, home, source, todo, cred, got, attempt, response>>

\* gather returns: the application is up.
Serve(w) ==
    /\ worker[w] = "checking"
    /\ \A a \in Accounts : pc[<<w, a>>] \in {"idle", "done"}
    /\ worker' = [worker EXCEPT ![w] = "serving"]
    /\ UNCHANGED <<starts, rows, lock, issued, history, taskVars>>

\* The process ends; its tasks and its locks end with it, the rows survive.
Ends(w) ==
    /\ worker' = [worker EXCEPT ![w] = "down"]
    /\ lock' = [lock EXCEPT ![w] = [a \in Accounts |-> None]]
    /\ pc' = [t \in Tasks |-> IF home[t] = w
                              THEN IF t \in Checkers THEN "idle" ELSE "done"
                              ELSE pc[t]]
    /\ response' = [t \in Tasks |-> IF home[t] = w /\ response[t] = "none" /\ t \in Requests
                                    THEN "cancelled" ELSE response[t]]
    /\ UNCHANGED <<starts, rows, issued, history, home, source, todo, cred, got, attempt>>

\* A check raised, or get_all_musicids before the first one: gather raises, and
\* the process ends, whatever the other checks are at.
StartupFails(w) ==
    /\ worker[w] = "checking"
    /\ \/ \E a \in Accounts : pc[<<w, a>>] = "raised"
       \/ \A a \in Accounts : pc[<<w, a>>] \in {"idle", "checkRead"}
    /\ Ends(w)

\* The process dies.  The bound on starts is also the bound on crashes.
Crash(w) ==
    /\ worker[w] # "down"
    /\ starts < MaxStarts
    /\ Ends(w)

-----------------------------------------------------------------------------
(* A request chooses its credential: configured_credential_for_api *)

\* A request with a cookie uses the caller's credential, which may be of an
\* account of the pool; one without asks the pool.
Arrive(t, w) ==
    /\ At(t, "idle")
    /\ worker[w] = "serving"
    /\ home' = [home EXCEPT ![t] = w]
    /\ \/ /\ \E a \in Accounts : acct' = [acct EXCEPT ![t] = a]
          /\ key' = [key EXCEPT ![t] = CallerKey]
          /\ source' = [source EXCEPT ![t] = "cookie"]
          /\ Goto(t, "call")
       \/ /\ Goto(t, "acquire")
          /\ UNCHANGED <<cred, source>>
    /\ UNCHANGED <<workerVars, rows, lock, issued, history, todo, got, attempt, response>>

\* CredentialPool.acquire: a snapshot of the valid rows.
Acquire(t) ==
    /\ At(t, "acquire")
    /\ \/ /\ todo' = [todo EXCEPT ![t] = {<<a, stored[a]>> : a \in valid}]
          /\ Goto(t, "choose")
          /\ UNCHANGED response
       \/ Raise(t) /\ UNCHANGED todo
    /\ UNCHANGED <<workerVars, rows, lock, issued, history, home, source, cred, got, attempt>>

\* The next credential of the snapshot, in random order; none left is a 401.
Choose(t) ==
    /\ At(t, "choose")
    /\ \/ /\ todo[t] = {}
          /\ Respond(t, "noCredential")
          /\ UNCHANGED <<todo, cred>>
       \/ /\ \E c \in todo[t] :
                /\ acct' = [acct EXCEPT ![t] = c[1]]
                /\ key' = [key EXCEPT ![t] = c[2]]
                /\ todo' = [todo EXCEPT ![t] = @ \ {c}]
          /\ Goto(t, "ensureLock")
          /\ UNCHANGED response
    /\ UNCHANGED <<workerVars, rows, lock, issued, history, home, source, got, attempt>>

\* ensure_usable: take the lock, read the row again, decide, refresh.
EnsureLock(t) ==
    /\ At(t, "ensureLock")
    /\ TakeLock(t)
    /\ Goto(t, "ensureRead")
    /\ UNCHANGED <<workerVars, rows, issued, history, home, source, todo, cred, got, attempt, response>>

\* Faulty: the snapshot is trusted, the row is not read again under the lock.
EnsureFromSnapshot(t) ==
    /\ At(t, "ensureRead")
    /\ Goto(t, "ensureCheck")
    /\ UNCHANGED <<workerVars, rows, lock, issued, history, home, source, todo, cred, got, attempt, response>>

\* CredentialStore.get reads the key and not the `valid` column.
EnsureRead(t) ==
    /\ At(t, "ensureRead")
    /\ \/ /\ stored[acct[t]] = None
          /\ FreeLock(t)
          /\ Goto(t, "choose")
          /\ UNCHANGED <<key, response>>
       \/ /\ stored[acct[t]] # None
          /\ key' = [key EXCEPT ![t] = stored[acct[t]]]
          /\ Goto(t, "ensureCheck")
          /\ UNCHANGED <<lock, response>>
       \/ FreeLock(t) /\ Raise(t) /\ UNCHANGED key
    /\ UNCHANGED <<workerVars, rows, issued, history, home, source, todo, acct, got, attempt>>

\* Faulty: a credential found usable is put back among the valid ones, to make
\* up for `get`, which does not look at that column.
EnsureCheckRevalidates(t) ==
    /\ At(t, "ensureCheck")
    /\ \/ Goto(t, "call") /\ FreeLock(t) /\ valid' = valid \cup {acct[t]}
       \/ Goto(t, "refreshCall") /\ UNCHANGED <<lock, valid>>
    /\ UNCHANGED <<workerVars, stored, issued, history, home, source, todo, cred, got, attempt, response>>

\* _needs_refresh: by the local expiry or by asking the upstream.
EnsureCheck(t) ==
    /\ At(t, "ensureCheck")
    /\ \/ Goto(t, "call") /\ FreeLock(t)
       \/ Goto(t, "refreshCall") /\ UNCHANGED lock
    /\ UNCHANGED <<workerVars, rows, issued, history, home, source, todo, cred, got, attempt, response>>

-----------------------------------------------------------------------------
(* The call and its retry: invoke_with_retry *)

\* Faulty: every expired credential is refreshed, the caller's own too.
CallRefreshingAnyone(t) ==
    /\ At(t, "call")
    /\ \/ \E kind \in {"ok", "error"} : Respond(t, kind) /\ UNCHANGED attempt
       \/ /\ attempt' = [attempt EXCEPT ![t] = 1]
          /\ Goto(t, "refreshLock")
          /\ UNCHANGED response
    /\ UNCHANGED <<workerVars, rows, lock, issued, history, home, source, todo, cred, got>>

\* The first call: a caller's expired credential is the caller's problem.
Call(t) ==
    /\ At(t, "call")
    /\ \/ \E kind \in {"ok", "error"} : Respond(t, kind) /\ UNCHANGED attempt
       \/ source[t] = "cookie" /\ Respond(t, "expired") /\ UNCHANGED attempt
       \/ /\ source[t] = "pool"
          /\ attempt' = [attempt EXCEPT ![t] = 1]
          /\ Goto(t, "refreshLock")
          /\ UNCHANGED response
    /\ UNCHANGED <<workerVars, rows, lock, issued, history, home, source, todo, cred, got>>

RefreshLock(t) ==
    /\ At(t, "refreshLock")
    /\ TakeLock(t)
    /\ Goto(t, "refreshRead")
    /\ UNCHANGED <<workerVars, rows, issued, history, home, source, todo, cred, got, attempt, response>>

\* What a task does after refresh returned a credential.
AfterRefresh(t) ==
    CASE t \in Checkers -> "done"
      [] t \in Requests /\ attempt[t] = 0 -> "call"
      [] t \in Requests /\ attempt[t] = 1 -> "retry"

\* refresh: a key that differs from the one in hand was brought by a peer.
RefreshRead(t) ==
    /\ At(t, "refreshRead")
    /\ \/ /\ stored[acct[t]] # None /\ stored[acct[t]] # key[t]
          /\ key' = [key EXCEPT ![t] = stored[acct[t]]]
          /\ FreeLock(t)
          /\ Goto(t, AfterRefresh(t))
          /\ UNCHANGED response
       \/ /\ stored[acct[t]] = None \/ stored[acct[t]] = key[t]
          /\ Goto(t, "refreshCall")
          /\ UNCHANGED <<key, lock, response>>
       \/ FreeLock(t) /\ Raise(t) /\ UNCHANGED key
    /\ UNCHANGED <<workerVars, rows, issued, history, home, source, todo, acct, got, attempt>>

\* _refresh_and_store: the upstream replaces the key, or the call fails.
RefreshCall(t) ==
    /\ At(t, "refreshCall")
    /\ \/ /\ issued[acct[t]] < MaxKey
          /\ issued' = [issued EXCEPT ![acct[t]] = @ + 1]
          /\ replaced' = replaced \cup {<<acct[t], key[t]>>}
          /\ got' = [got EXCEPT ![t] = issued[acct[t]] + 1]
          /\ Goto(t, "apply")
       \/ /\ Goto(t, "markRefresh")
          /\ UNCHANGED <<issued, replaced, got>>
    /\ UNCHANGED <<workerVars, rows, lock, condemned, unmarked, home, source, todo, cred, attempt, response>>

\* apply_refresh overwrites an existing row and makes it valid, creates none,
\* and raises for an incomplete credential or where the store fails.
Apply(t) ==
    /\ At(t, "apply")
    /\ got' = [got EXCEPT ![t] = None]
    /\ \/ /\ \/ /\ stored[acct[t]] # None
                /\ stored' = [stored EXCEPT ![acct[t]] = got[t]]
                /\ valid' = valid \cup {acct[t]}
             \/ stored[acct[t]] = None /\ UNCHANGED rows
          /\ key' = [key EXCEPT ![t] = got[t]]
          /\ FreeLock(t)
          /\ Goto(t, AfterRefresh(t))
       \/ /\ Goto(t, "markRefresh")
          /\ UNCHANGED <<rows, key, lock>>
    /\ UNCHANGED <<workerVars, issued, history, home, source, todo, acct, attempt, response>>

\* What a failed refresh leads to: the choice goes on with the next credential,
\* a retry ends as expired, a health check is over.
RefreshFailed(t) ==
    \/ t \in Checkers /\ Goto(t, "done") /\ UNCHANGED response
    \/ t \in Requests /\ attempt[t] = 0 /\ Goto(t, "choose") /\ UNCHANGED response
    \/ t \in Requests /\ attempt[t] = 1 /\ Respond(t, "expired")

\* Faulty: a failed refresh is raised without taking the row out of the pool.
ForgetFailedRefresh(t) ==
    /\ At(t, "markRefresh")
    /\ FreeLock(t)
    /\ RefreshFailed(t)
    /\ UNCHANGED <<workerVars, rows, issued, history, home, source, todo, cred, got, attempt>>

\* Faulty: the exception leaves without releasing the account's lock.
MarkAndKeepLock(t) ==
    /\ At(t, "markRefresh")
    /\ MarkInvalid(acct[t])
    /\ RefreshFailed(t)
    /\ UNCHANGED <<workerVars, lock, issued, home, source, todo, cred, got, attempt>>

\* A failed refresh takes the row out of the pool.  Where the mark itself raises,
\* its exception takes the place of the refresh's in the same `except Exception`
\* of the caller: the row stays as it is and nobody is told.
MarkRefresh(t) ==
    /\ At(t, "markRefresh")
    /\ \/ MarkInvalid(acct[t])
       \/ /\ unmarked' = unmarked \cup (Row(acct[t]) \cap replaced)
          /\ UNCHANGED <<rows, replaced, condemned>>
    /\ FreeLock(t)
    /\ RefreshFailed(t)
    /\ UNCHANGED <<workerVars, issued, home, source, todo, cred, got, attempt>>

\* The second call, with what refresh returned; a second refusal is final.
Retry(t) ==
    /\ At(t, "retry")
    /\ \/ \E kind \in {"ok", "error"} : Respond(t, kind)
       \/ Goto(t, "invalidate") /\ UNCHANGED response
    /\ UNCHANGED <<workerVars, rows, lock, issued, history, home, source, todo, cred, got, attempt>>

\* CredentialPool.invalidate takes no lock and compares no key: the row may by
\* now hold a newer one.  Where the mark raises, the answer is a 500.
Invalidate(t) ==
    /\ At(t, "invalidate")
    /\ \/ MarkInvalid(acct[t]) /\ Respond(t, "expired")
       \/ UNCHANGED <<rows, history>> /\ Raise(t)
    /\ UNCHANGED <<workerVars, lock, issued, home, source, todo, cred, got, attempt>>

-----------------------------------------------------------------------------
(* The start-up health check, one task per account *)

CheckRead(t) ==
    /\ At(t, "checkRead")
    /\ LET a == t[2] IN
       /\ acct' = [acct EXCEPT ![t] = a]
       /\ key' = [key EXCEPT ![t] = stored[a]]
       /\ \/ stored[a] = None /\ Goto(t, "checkMark")
          \/ stored[a] # None /\ \E next \in {"refreshLock", "checkMark", "done"} : Goto(t, next)
          \/ Goto(t, "raised")
    /\ UNCHANGED <<workerVars, rows, lock, issued, history, home, source, todo, got, attempt, response>>

\* A row that is gone or a check that raises condemns the row.
CheckMark(t) ==
    /\ At(t, "checkMark")
    /\ \/ MarkInvalid(acct[t]) /\ Goto(t, "done")
       \/ UNCHANGED <<rows, history>> /\ Goto(t, "raised")
    /\ UNCHANGED <<workerVars, lock, issued, home, source, todo, cred, got, attempt, response>>

-----------------------------------------------------------------------------

\* Faulty: a cancelled task keeps the account's lock.
CancelKeepingLock(t) ==
    /\ MayCancel
    /\ t \in Requests
    /\ pc[t] \notin {"idle", "done"}
    /\ UNCHANGED lock
    /\ Respond(t, "cancelled")
    /\ UNCHANGED <<workerVars, rows, issued, history, home, source, todo, cred, got, attempt>>

\* The server cancels a request: CancelledError is no Exception, so it passes
\* every handler but the lock's own release.
Cancel(t) ==
    /\ MayCancel
    /\ t \in Requests
    /\ pc[t] \notin {"idle", "done"}
    /\ IF pc[t] \in Locked THEN FreeLock(t) ELSE UNCHANGED lock
    /\ Respond(t, "cancelled")
    /\ UNCHANGED <<workerVars, rows, issued, history, home, source, todo, cred, got, attempt>>

Step(t) ==
    \/ Acquire(t) \/ Choose(t)
    \/ EnsureLock(t) \/ EnsureRead(t) \/ EnsureCheck(t)
    \/ Call(t) \/ RefreshLock(t) \/ RefreshRead(t) \/ RefreshCall(t)
    \/ Apply(t) \/ MarkRefresh(t) \/ Retry(t) \/ Invalidate(t)
    \/ CheckRead(t) \/ CheckMark(t)

Next ==
    \/ \E w \in Workers : Start(w) \/ Serve(w) \/ StartupFails(w) \/ Crash(w)
    \/ \E t \in Requests, w \in Workers : Arrive(t, w)
    \/ \E t \in Tasks : Step(t)
    \/ \E t \in Requests : Cancel(t)

Spec == Init /\ [][Next]_vars

\* asyncio serves every ready task, and every upstream call ends.
FairSpec == Spec /\ \A t \in Tasks : WF_vars(Step(t))

-----------------------------------------------------------------------------
(* Safety *)

\* A task is in the locked part of its code exactly while it holds the lock of
\* its account in its process, through failures, cancellation and crashes:
\* refreshes of an account are serialised and no lock is lost.
LockDiscipline ==
    /\ \A t \in Tasks : pc[t] \in Locked => Held(t)
    /\ \A w \in Workers, a \in Accounts :
          LET t == lock[w][a] IN
          t # None => pc[t] \in Locked /\ home[t] = w /\ acct[t] = a

\* The purpose of comparing keys under the lock (`refresh`): the key being
\* refreshed is the pool's current one, so neither the login is repeated with
\* an old snapshot nor is a newer key condemned when the refresh fails.
RefreshWorksOnThePoolKey ==
    \A t \in Tasks :
        pc[t] \in {"refreshCall", "apply", "markRefresh"} =>
            stored[acct[t]] \in {key[t], None}

\* A key that was marked invalid never counts as valid again: `get` does not look
\* at the mark, so a row condemned after the acquire snapshot is still checked and
\* refreshed, but only a newer key puts it back.  (A restart writes the operator's
\* seed over the row, and its mark is forgotten.)
CondemnedStaysOut == \A a \in valid : <<a, stored[a]>> \notin condemned

\* A caller's own credential never meets the shared pool: it is not refreshed,
\* not stored, and not exchanged for a pool credential of the same account.
CallersStayApart ==
    \A t \in Requests :
        source[t] = "cookie" =>
            /\ key[t] = CallerKey
            /\ \A w \in Workers, a \in Accounts : lock[w][a] # t

\* A refresh is stored or its row is condemned: while a process is up and nobody
\* is refreshing an account, its valid row holds no key the upstream has replaced,
\* unless it was the mark itself that failed.
ReplacedKeysLeaveThePool ==
    (\E w \in Workers : worker[w] # "down") =>
        \A a \in valid :
            (\A w \in Workers : lock[w][a] = None) => <<a, stored[a]>> \notin replaced \ unmarked

-----------------------------------------------------------------------------
(* The inductive invariant behind LockDiscipline and CallersStayApart *)

\* A task that is under way runs in a process that is up; the tasks of a health
\* check never leave theirs.
TasksHaveAProcess ==
    /\ \A t \in Tasks :
          pc[t] \notin {"idle", "done"} => home[t] \in Workers /\ worker[home[t]] # "down"
    /\ \A t \in Checkers : home[t] = t[1]

\* Where the code takes a lock or touches a row it holds a credential of the
\* pool; a caller's own credential is in hand only for the call itself.
InHand(t) ==
    /\ pc[t] \in Locked \cup {"ensureLock", "call", "refreshLock", "retry", "invalidate"}
          => acct[t] \in Accounts /\ (source[t] = "pool" => key[t] \in Keys)
    /\ pc[t] = "checkMark" => acct[t] \in Accounts
    /\ pc[t] = "apply" => got[t] \in Keys
    /\ pc[t] \in {"checkRead", "checkMark", "raised"} => t \in Checkers
    /\ source[t] = "cookie" => t \in Requests /\ pc[t] \in {"call", "done"} /\ key[t] = CallerKey
CredentialsInHand == \A t \in Tasks : InHand(t)

\* A row that is valid is there.
ValidRowsExist == \A a \in valid : stored[a] # None

PoolInv ==
    /\ TypeOK
    /\ ValidRowsExist
    /\ TasksHaveAProcess
    /\ CredentialsInHand
    /\ LockDiscipline

\* The inductive invariant behind RefreshWorksOnThePoolKey with one process: the
\* key is compared with the row before the upstream is asked, under the lock.
InHandIsCurrent ==
    \A t \in Tasks :
        pc[t] \in {"ensureCheck", "refreshCall", "apply", "markRefresh"} =>
            stored[acct[t]] \in {key[t], None}

-----------------------------------------------------------------------------
(* Liveness *)

\* Every request is answered if upstream calls end: no task waits for ever on
\* an account's lock, whoever fails or is cancelled while holding it.
EveryRequestAnswered ==
    \A t \in Requests : pc[t] # "idle" ~> pc[t] = "done"
=============================================================================
