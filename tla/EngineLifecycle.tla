--------------------------- MODULE EngineLifecycle ---------------------------
(***************************************************************************)
(* RequestEngine (qqmusic_api/core/engine.py): operations (execute,        *)
(* gather, open_stream) registered by `_operation` against `close`, which  *)
(* refuses new ones, cancels those in flight, waits for them no longer     *)
(* than CLOSE_CLEANUP_BUDGET_SECONDS and closes the transport.             *)
(*                                                                         *)
(* `close` may be called by a task of its own, by the very task of an      *)
(* operation, or by a child task that the body of an operation awaits.     *)
(* What an operation does with the transport is left out: it ends by       *)
(* returning, by raising, by being cancelled, or it takes its time.        *)
(***************************************************************************)
CONSTANTS
    Ops,     \* calls that run as an operation
    Closers, \* calls of close
    None

ASSUME EngineAssumption == Ops \cap Closers = {} /\ None \notin Ops \cup Closers

VARIABLES
    state,      \* _close_state
    lock,       \* who holds _close_lock
    operations, \* _operations
    marked,     \* operations with cancelled_by_close set and their scope cancelled
    opPc,       \* "idle", "locking", "locked", "running" or "done"
    result,     \* how each operation ended for its caller
    closePc,    \* "idle", "locking", "waiting", "transport" or "done"
    caller,     \* who calls close: <<"outside">>, <<"own", o>> or <<"child", o>>
    awaited,    \* the operations a close has cancelled and waits for
    overdue,    \* history: operations some close gave up waiting for
    outcome,    \* how each close ended
    transport   \* "open" or "closed"

opVars == <<operations, marked, opPc, result>>
closeVars == <<closePc, caller, awaited, overdue, outcome>>
lifeVars == <<state, lock, operations, marked, opPc, result,
          closePc, caller, awaited, overdue, outcome, transport>>

-----------------------------------------------------------------------------

OpResults == {"none", "value", "ownError", "refused", "closedError", "cancelled"}
CloseOutcomes == {"none", "ok", "ownOperation", "networkError", "cancelled"}
Callers == {<<"outside">>} \cup ({"own", "child"} \X Ops)

TypeOK ==
    /\ state \in {"open", "closing", "closed"}
    /\ lock \in Ops \cup Closers \cup {None}
    /\ operations \subseteq Ops
    /\ marked \subseteq Ops
    /\ opPc \in [Ops -> {"idle", "locking", "locked", "running", "done"}]
    /\ result \in [Ops -> OpResults]
    /\ closePc \in [Closers -> {"idle", "locking", "waiting", "transport", "done"}]
    /\ caller \in [Closers -> Callers]
    /\ awaited \in [Closers -> SUBSET Ops]
    /\ overdue \subseteq Ops
    /\ outcome \in [Closers -> CloseOutcomes]
    /\ transport \in {"open", "closed"}

LifeInit ==
    /\ state = "open"
    /\ lock = None
    /\ operations = {} /\ marked = {}
    /\ opPc = [o \in Ops |-> "idle"]
    /\ result = [o \in Ops |-> "none"]
    /\ closePc = [c \in Closers |-> "idle"]
    /\ caller = [c \in Closers |-> <<"outside">>]
    /\ awaited = [c \in Closers |-> {}]
    /\ overdue = {}
    /\ outcome = [c \in Closers |-> "none"]
    /\ transport = "open"

-----------------------------------------------------------------------------
(* Operations *)

\* A close that the body of operation o has called and not got back.
ClosesFrom(o) == {c \in Closers : caller[c] \in {<<"own", o>>, <<"child", o>>}
                                  /\ closePc[c] # "done"}

\* The `finally` of _operation.
Deregister(o, how) ==
    /\ operations' = operations \ {o}
    /\ opPc' = [opPc EXCEPT ![o] = "done"]
    /\ result' = [result EXCEPT ![o] = how]

OpBegin(o) ==
    /\ opPc[o] = "idle"
    /\ opPc' = [opPc EXCEPT ![o] = "locking"]
    /\ UNCHANGED <<state, lock, operations, marked, result, closeVars, transport>>

\* anyio's Lock suspends once more after it is acquired.
OpLock(o) ==
    /\ opPc[o] = "locking"
    /\ lock = None
    /\ lock' = o
    /\ opPc' = [opPc EXCEPT ![o] = "locked"]
    /\ UNCHANGED <<state, operations, marked, result, closeVars, transport>>

\* Faulty: only a closed engine refuses, a closing one does not.
RegisterWhileClosing(o) ==
    /\ opPc[o] = "locked"
    /\ lock' = None
    /\ \/ /\ state # "closed"
          /\ operations' = operations \cup {o}
          /\ opPc' = [opPc EXCEPT ![o] = "running"]
          /\ UNCHANGED result
       \/ /\ state = "closed"
          /\ opPc' = [opPc EXCEPT ![o] = "done"]
          /\ result' = [result EXCEPT ![o] = "refused"]
          /\ UNCHANGED operations
    /\ UNCHANGED <<state, marked, closeVars, transport>>

\* Under the lock: refuse, or register and start the body.
OpRegister(o) ==
    /\ opPc[o] = "locked"
    /\ lock' = None
    /\ \/ /\ state = "open"
          /\ operations' = operations \cup {o}
          /\ opPc' = [opPc EXCEPT ![o] = "running"]
          /\ UNCHANGED result
       \/ /\ state # "open"
          /\ opPc' = [opPc EXCEPT ![o] = "done"]
          /\ result' = [result EXCEPT ![o] = "refused"]
          /\ UNCHANGED operations
    /\ UNCHANGED <<state, marked, closeVars, transport>>

\* The body returns or raises.  A value that arrives after close has marked the
\* operation is thrown away; an exception of the body's own goes through.
BodyEnds(o) ==
    /\ opPc[o] = "running"
    /\ ClosesFrom(o) = {}
    /\ \/ Deregister(o, IF o \in marked THEN "closedError" ELSE "value")
       \/ Deregister(o, "ownError")
    /\ UNCHANGED <<state, lock, marked, closeVars, transport>>

\* The cancellation of the scope reaches the body.
BodyCancelled(o) ==
    /\ opPc[o] = "running"
    /\ o \in marked
    /\ ClosesFrom(o) = {}
    /\ Deregister(o, "closedError")
    /\ UNCHANGED <<state, lock, marked, closeVars, transport>>

\* The caller cancels the task of the operation.
OuterCancel(o) ==
    /\ \/ opPc[o] = "locking" /\ UNCHANGED operations
       \/ opPc[o] = "running" /\ ClosesFrom(o) = {} /\ operations' = operations \ {o}
    /\ opPc' = [opPc EXCEPT ![o] = "done"]
    /\ result' = [result EXCEPT ![o] = "cancelled"]
    /\ UNCHANGED <<state, lock, marked, closeVars, transport>>

-----------------------------------------------------------------------------
(* close *)

CloseReturns(c, how) ==
    /\ closePc' = [closePc EXCEPT ![c] = "done"]
    /\ outcome' = [outcome EXCEPT ![c] = how]

\* An operation's task calls close at most once at a time.
CloseBegin(c) ==
    /\ closePc[c] = "idle"
    /\ \E who \in Callers :
          /\ who # <<"outside">> =>
                opPc[who[2]] = "running" /\ ClosesFrom(who[2]) = {}
          /\ caller' = [caller EXCEPT ![c] = who]
    /\ closePc' = [closePc EXCEPT ![c] = "locking"]
    /\ UNCHANGED <<state, lock, opVars, awaited, overdue, outcome, transport>>

\* Under the lock: nothing to do, a mistake, or mark and cancel what runs.
CloseLock(c) ==
    /\ closePc[c] = "locking"
    /\ lock = None
    /\ \/ /\ state = "closed"
          /\ CloseReturns(c, "ok")
          /\ UNCHANGED <<state, lock, marked, awaited>>
       \/ /\ state # "closed"
          /\ \E o \in operations : caller[c] = <<"own", o>>
          /\ CloseReturns(c, "ownOperation")
          /\ UNCHANGED <<state, lock, marked, awaited>>
       \/ /\ state # "closed"
          /\ \A o \in operations : caller[c] # <<"own", o>>
          /\ state' = "closing"
          /\ lock' = c
          /\ marked' = marked \cup operations
          /\ awaited' = [awaited EXCEPT ![c] = operations]
          /\ closePc' = [closePc EXCEPT ![c] = "waiting"]
          /\ UNCHANGED outcome
    /\ UNCHANGED <<operations, opPc, result, caller, overdue, transport>>

\* Until it has the lock, close is cancelled with the task that called it.
CloseCancelled(c) ==
    /\ closePc[c] = "locking"
    /\ CloseReturns(c, "cancelled")
    /\ UNCHANGED <<state, lock, opVars, caller, awaited, overdue, transport>>

\* Faulty: the first operation that is done ends the wait for all.
AwaitFirst(c) ==
    /\ closePc[c] = "waiting"
    /\ awaited[c] = {} \/ \E o \in awaited[c] : opPc[o] = "done"
    /\ closePc' = [closePc EXCEPT ![c] = "transport"]
    /\ UNCHANGED <<state, lock, opVars, caller, awaited, overdue, outcome, transport>>

\* Shielded from here on: every awaited operation has set its event, or ...
AllDone(c) ==
    /\ closePc[c] = "waiting"
    /\ \A o \in awaited[c] : opPc[o] = "done"
    /\ closePc' = [closePc EXCEPT ![c] = "transport"]
    /\ UNCHANGED <<state, lock, opVars, caller, awaited, overdue, outcome, transport>>

\* Faulty: there is no budget.
NoBudget(c) ==
    /\ closePc[c] = "waiting"
    /\ \A o \in awaited[c] : opPc[o] = "done"
    /\ overdue' = overdue
    /\ closePc' = [closePc EXCEPT ![c] = "transport"]
    /\ UNCHANGED <<state, lock, opVars, caller, awaited, outcome, transport>>

\* ... the clean-up budget is spent.
BudgetSpent(c) ==
    /\ closePc[c] = "waiting"
    /\ overdue' = overdue \cup {o \in awaited[c] : opPc[o] # "done"}
    /\ closePc' = [closePc EXCEPT ![c] = "transport"]
    /\ UNCHANGED <<state, lock, opVars, caller, awaited, outcome, transport>>

\* A failing transport leaves the engine closing: close may be called again.
CloseTransport(c) ==
    /\ closePc[c] = "transport"
    /\ lock' = None
    /\ \/ /\ transport' = "closed"
          /\ state' = "closed"
          /\ CloseReturns(c, "ok")
       \/ /\ CloseReturns(c, "networkError")
          /\ UNCHANGED <<state, transport>>
    /\ UNCHANGED <<opVars, caller, awaited, overdue>>

-----------------------------------------------------------------------------

OpStep(o) == OpLock(o) \/ OpRegister(o)
CloseStep(c) == CloseLock(c) \/ AllDone(c) \/ BudgetSpent(c) \/ CloseTransport(c)

LifeNext ==
    \/ \E o \in Ops : OpBegin(o) \/ OpStep(o) \/ BodyEnds(o) \/ BodyCancelled(o) \/ OuterCancel(o)
    \/ \E c \in Closers : CloseBegin(c) \/ CloseStep(c) \/ CloseCancelled(c)

LifeSpec == LifeInit /\ [][LifeNext]_lifeVars

\* The event loop serves ready tasks, the budget's timer fires, and the
\* transport's own close ends, well or not.  Nothing is assumed of the bodies:
\* they may ignore their cancellation for ever.
LifeFairSpec ==
    /\ LifeSpec
    /\ \A o \in Ops : WF_lifeVars(OpStep(o))
    /\ \A c \in Closers : WF_lifeVars(CloseStep(c))

-----------------------------------------------------------------------------
(* Safety *)

\* Once close has begun, whatever still runs has been told to stop: no
\* operation slips in between the check of the state and the registration.
NobodySlipsIn ==
    state # "open" => \A o \in Ops : opPc[o] = "running" => o \in marked

\* The transport is not closed under a running operation, except one that was
\* cancelled and let the whole clean-up budget pass.
TransportOutlivesOperations ==
    transport = "closed" => \A o \in Ops : opPc[o] = "running" => o \in overdue

\* close says ok only when the transport is closed, and an engine is closed
\* for good exactly when its transport is: a failed close stays retryable.
OkMeansClosed ==
    /\ state = "closed" <=> transport = "closed"
    /\ \A c \in Closers : outcome[c] = "ok" => transport = "closed"

-----------------------------------------------------------------------------
(* The inductive invariant behind the safety properties *)

\* The registry is exactly the set of running operations.
RegistryIsExact == operations = {o \in Ops : opPc[o] = "running"}

\* The lock names the one operation or close that is in its critical section.
LockIsExact ==
    /\ \A o \in Ops : opPc[o] = "locked" <=> lock = o
    /\ \A c \in Closers : closePc[c] \in {"waiting", "transport"} <=> lock = c

\* A close in progress has seen every operation that runs: it awaits it, or has
\* given it up.
CloseSeesAll ==
    \A c \in Closers :
        /\ closePc[c] \in {"waiting", "transport"} => state = "closing"
        /\ closePc[c] = "waiting" => operations \subseteq awaited[c]
        /\ closePc[c] = "transport" => operations \subseteq overdue

CloseInv ==
    /\ TypeOK
    /\ RegistryIsExact
    /\ LockIsExact
    /\ CloseSeesAll
    /\ NobodySlipsIn
    /\ TransportOutlivesOperations
    /\ OkMeansClosed

-----------------------------------------------------------------------------
(* Liveness *)

\* Every close comes back, though operations ignore their cancellation, call close
\* themselves, or await a child task that does; and no operation is stuck in front of the
\* lock of a close in progress.
NobodyWaitsForEver ==
    /\ \A c \in Closers : closePc[c] = "locking" ~> closePc[c] = "done"
    /\ \A o \in Ops : opPc[o] = "locking" ~> opPc[o] \in {"running", "done"}
=============================================================================
