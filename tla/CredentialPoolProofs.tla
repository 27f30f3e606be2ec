------------------------ MODULE CredentialPoolProofs ------------------------
(***************************************************************************)
(* For any number of requests, worker processes and accounts, the refresh  *)
(* lock of an account is held exactly by the one task of the process that  *)
(* is in the locked part of its code, through every failure, cancellation  *)
(* and crash, and a caller's own credential never takes part.  In a single *)
(* process the key being refreshed is always the pool's current one.       *)
(* A key that was marked invalid never counts as valid again, and one that *)
(* the upstream has replaced leaves the pool, as long as nothing is        *)
(* cancelled or restarted and the store can be written.                    *)
(*                                                                         *)
(* PoolInv (CredentialPool) is inductive.  LockDiscipline alone is not: a  *)
(* lock is named by the task's process and account, so the task must have  *)
(* both (TasksHaveAProcess, CredentialsInHand).                            *)
(***************************************************************************)
EXTENDS CredentialPool, TLAPS

USE PoolAssumption

-----------------------------------------------------------------------------
(* Facts about keys, tasks and locks *)

LEMMA KeyFacts ==
  /\ 0 \in Keys /\ CallerKey \notin Keys /\ None \notin Keys /\ CallerKey # None
  /\ Keys \subseteq Nat
  BY DEF Keys, CallerKey

LEMMA TaskFacts ==
  /\ None \notin Tasks /\ None \notin Workers /\ None \notin Accounts
  /\ \A t \in Checkers : t \notin Requests /\ t[1] \in Workers /\ t[2] \in Accounts
  /\ Requests \subseteq Tasks /\ Checkers \subseteq Tasks
  BY DEF Tasks, Checkers

\* After a refresh a request makes its call and a health check is over.
LEMMA AfterRefreshLabels ==
  ASSUME TypeOK, NEW t \in Tasks
  PROVE  AfterRefresh(t) \in {"done", "call", "retry"}
  BY DEF TypeOK, AfterRefresh, Tasks, Checkers

\* A task that may take a lock names one of its process.
LEMMA Located ==
  ASSUME TypeOK, TasksHaveAProcess, CredentialsInHand, NEW t \in Tasks,
         pc[t] \in Locked \cup {"ensureLock", "refreshLock"}
  PROVE  home[t] \in Workers /\ acct[t] \in Accounts
  BY DEF TasksHaveAProcess, CredentialsInHand, InHand, Locked

\* Under a lock, and wherever a row is to be condemned, the credential in hand
\* is one of the pool.
LEMMA PoolKeyInHand ==
  ASSUME TypeOK, CredentialsInHand, NEW t \in Tasks,
         pc[t] \in Locked \cup {"ensureLock", "refreshLock", "retry", "invalidate"}
  PROVE  source[t] = "pool" /\ acct[t] \in Accounts /\ key[t] \in Keys
  BY DEF TypeOK, CredentialsInHand, InHand, Locked

\* The type of the locks.
LockType == [Workers -> [Accounts -> Tasks \cup {None}]]

\* Taking or freeing the lock of one's process and account keeps its type.
LEMMA LockTypes ==
  ASSUME lock \in LockType, NEW t \in Tasks, home[t] \in Workers, acct[t] \in Accounts,
         TakeLock(t) \/ FreeLock(t)
  PROVE  lock' \in LockType
<1>1. \A x \in Tasks \cup {None} :
         [lock EXCEPT ![home[t]][acct[t]] = x] \in LockType
  BY DEF LockType
<1> QED
  BY <1>1 DEF TakeLock, FreeLock

\* What taking and freeing do to each lock.
LEMMA LockValues ==
  ASSUME lock \in LockType, NEW t \in Tasks, home[t] \in Workers, acct[t] \in Accounts,
         NEW w \in Workers, NEW a \in Accounts
  PROVE  /\ TakeLock(t) => lock'[w][a] = IF w = home[t] /\ a = acct[t] THEN t ELSE lock[w][a]
         /\ FreeLock(t) => lock'[w][a] = IF w = home[t] /\ a = acct[t] THEN None ELSE lock[w][a]
  BY DEF LockType, TakeLock, FreeLock

-----------------------------------------------------------------------------
(* Types *)

LEMMA InitTypes == Init => TypeOK
  BY KeyFacts, TaskFacts DEF Init, TypeOK, PCs, Responses, Checkers, Tasks

LEMMA StepTypes ==
  ASSUME TypeOK, ValidRowsExist, TasksHaveAProcess, CredentialsInHand,
         NEW t \in Tasks, Step(t)
  PROVE  TypeOK'
<1> USE KeyFacts, TaskFacts DEF At, Goto, Respond, Raise, PCs, Locked, Responses, workerVars, rows, history, cred
<1>0. pc \in [Tasks -> PCs] /\ response \in [Tasks -> Responses] /\ attempt \in [Tasks -> 0..1]
  BY DEF TypeOK
<1>1. CASE Acquire(t)
  <2>1. {<<a, stored[a]>> : a \in valid} \in SUBSET (Accounts \X Keys)
    BY DEF TypeOK, ValidRowsExist
  <2>2. todo' \in [Tasks -> SUBSET (Accounts \X Keys)]
    BY <1>1, <2>1 DEF Acquire, TypeOK
  <2>3. pc' \in [Tasks -> PCs] /\ response' \in [Tasks -> Responses]
    BY <1>0, <1>1 DEF Acquire
  <2>4. UNCHANGED <<worker, starts, stored, valid, lock, issued, replaced, condemned, unmarked,
                    home, source, acct, key, got, attempt>>
    BY <1>1 DEF Acquire
  <2> QED
    BY <2>2, <2>3, <2>4 DEF TypeOK
<1>2. CASE Choose(t)
  <2>1. \A c \in todo[t] : c[1] \in Accounts /\ c[2] \in Keys
    BY DEF TypeOK
  <2>2. todo' \in [Tasks -> SUBSET (Accounts \X Keys)]
    BY <1>2 DEF Choose, TypeOK
  <2>3. acct' \in [Tasks -> Accounts \cup {None}] /\ key' \in [Tasks -> Keys \cup {CallerKey, None}]
    <3>1. acct \in [Tasks -> Accounts \cup {None}] /\ key \in [Tasks -> Keys \cup {CallerKey, None}]
      BY DEF TypeOK
    <3> QED
      BY <1>2, <2>1, <3>1 DEF Choose
  <2>4. pc' \in [Tasks -> PCs]
    BY <1>0, <1>2 DEF Choose
  <2>6. response' \in [Tasks -> Responses]
    BY <1>0, <1>2 DEF Choose
  <2>5. UNCHANGED <<worker, starts, stored, valid, lock, issued, replaced, condemned, unmarked, home, source, got, attempt>>
    BY <1>2 DEF Choose
  <2> QED
    BY <2>2, <2>3, <2>4, <2>5, <2>6 DEF TypeOK
<1>3. CASE EnsureLock(t) \/ RefreshLock(t)
  <2>1. home[t] \in Workers /\ acct[t] \in Accounts
    BY <1>3, Located DEF EnsureLock, RefreshLock
  <2>2. lock \in LockType
    BY DEF TypeOK, LockType
  <2>3. lock' \in LockType
    BY <1>3, <2>1, <2>2, LockTypes DEF EnsureLock, RefreshLock
  <2> QED
    BY <1>3, <2>1, <2>3 DEF EnsureLock, RefreshLock, TypeOK, LockType
<1>4. CASE EnsureRead(t)
  <2>1. home[t] \in Workers /\ acct[t] \in Accounts
    BY <1>4, Located DEF EnsureRead
  <2>2. lock \in LockType
    BY DEF TypeOK, LockType
  <2>3. lock' \in LockType
    BY <1>4, <2>1, <2>2, LockTypes DEF EnsureRead
  <2>4. pc' \in [Tasks -> PCs] /\ response' \in [Tasks -> Responses]
    BY <1>0, <1>4 DEF EnsureRead
  <2>5. key' \in [Tasks -> Keys \cup {CallerKey, None}]
    BY <1>4, <2>1 DEF EnsureRead, TypeOK
  <2>6. UNCHANGED <<worker, starts, stored, valid, issued, replaced, condemned, unmarked,
                    home, source, todo, acct, got, attempt>>
    BY <1>4 DEF EnsureRead
  <2> QED
    BY <2>3, <2>4, <2>5, <2>6 DEF TypeOK, LockType
<1>5. CASE EnsureCheck(t)
  <2>1. home[t] \in Workers /\ acct[t] \in Accounts
    BY <1>5, Located DEF EnsureCheck
  <2>2. lock \in LockType
    BY DEF TypeOK, LockType
  <2>3. lock' \in LockType
    BY <1>5, <2>1, <2>2, LockTypes DEF EnsureCheck
  <2> QED
    BY <1>5, <2>1, <2>3 DEF EnsureCheck, TypeOK, LockType
<1>6. CASE Call(t)
  <2>1. pc' \in [Tasks -> PCs]
    BY <1>0, <1>6 DEF Call
  <2>3. response' \in [Tasks -> Responses]
    BY <1>0, <1>6 DEF Call
  <2>4. attempt' \in [Tasks -> 0..1]
    BY <1>0, <1>6 DEF Call
  <2>2. UNCHANGED <<worker, starts, stored, valid, lock, issued, replaced, condemned, unmarked, home, source, todo,
                    acct, key, got>>
    BY <1>6 DEF Call
  <2> QED
    BY <2>1, <2>2, <2>3, <2>4 DEF TypeOK
<1>7. CASE RefreshRead(t)
  <2>1. home[t] \in Workers /\ acct[t] \in Accounts
    BY <1>7, Located DEF RefreshRead
  <2>2. lock \in LockType
    BY DEF TypeOK, LockType
  <2>3. lock' \in LockType
    BY <1>7, <2>1, <2>2, LockTypes DEF RefreshRead
  <2>4. AfterRefresh(t) \in PCs
    BY AfterRefreshLabels
  <2>5. pc' \in [Tasks -> PCs] /\ response' \in [Tasks -> Responses]
    BY <1>0, <1>7, <2>4 DEF RefreshRead
  <2>6. key' \in [Tasks -> Keys \cup {CallerKey, None}]
    BY <1>7, <2>1 DEF RefreshRead, TypeOK
  <2>7. UNCHANGED <<worker, starts, stored, valid, issued, replaced, condemned, unmarked, home, source, todo, acct,
                    got, attempt>>
    BY <1>7 DEF RefreshRead
  <2> QED
    BY <2>3, <2>5, <2>6, <2>7 DEF TypeOK, LockType
<1>8. CASE RefreshCall(t)
  <2>1. acct[t] \in Accounts /\ key[t] \in Keys
    BY <1>8, PoolKeyInHand DEF RefreshCall
  <2>2. issued[acct[t]] < MaxKey => issued[acct[t]] + 1 \in Keys
    BY <2>1 DEF TypeOK, Keys
  <2>3. pc' \in [Tasks -> PCs]
    BY <1>8 DEF RefreshCall, TypeOK
  <2>6. got' \in [Tasks -> Keys \cup {None}]
    BY <1>8, <2>2 DEF RefreshCall, TypeOK
  <2>4. /\ issued' \in [Accounts -> Keys]
        /\ replaced' \subseteq Accounts \X Keys /\ replaced \subseteq replaced'
    BY <1>8, <2>1, <2>2 DEF RefreshCall, TypeOK
  <2>5. UNCHANGED <<worker, starts, stored, valid, lock, condemned, unmarked, home, source, todo, acct, key, attempt, response>>
    BY <1>8 DEF RefreshCall
  <2> QED
    BY <2>3, <2>4, <2>5, <2>6 DEF TypeOK
<1>9. CASE Apply(t)
  <2>1. home[t] \in Workers /\ acct[t] \in Accounts
    BY <1>9, Located DEF Apply
  <2>2. lock \in LockType
    BY DEF TypeOK, LockType
  <2>3. lock' \in LockType
    BY <1>9, <2>1, <2>2, LockTypes DEF Apply
  <2>4. got[t] \in Keys
    BY <1>9 DEF Apply, CredentialsInHand, InHand
  <2>5. stored' \in [Accounts -> Keys \cup {None}] /\ valid' \subseteq Accounts
    BY <1>9, <2>1, <2>4 DEF Apply, TypeOK
  <2>6. AfterRefresh(t) \in PCs
    BY AfterRefreshLabels
  <2>7. pc' \in [Tasks -> PCs] /\ got' \in [Tasks -> Keys \cup {None}]
    BY <1>9, <2>6 DEF Apply, TypeOK
  <2>8. key' \in [Tasks -> Keys \cup {CallerKey, None}]
    BY <1>9, <2>4 DEF Apply, TypeOK
  <2>9. UNCHANGED <<worker, starts, issued, replaced, condemned, unmarked, home, source, todo, acct, attempt, response>>
    BY <1>9 DEF Apply
  <2> QED
    BY <2>3, <2>5, <2>7, <2>8, <2>9 DEF TypeOK, LockType
<1>10. CASE MarkRefresh(t)
  <2>1. home[t] \in Workers /\ acct[t] \in Accounts
    BY <1>10, Located DEF MarkRefresh
  <2>2. lock \in LockType
    BY DEF TypeOK, LockType
  <2>3. lock' \in LockType
    BY <1>10, <2>1, <2>2, LockTypes DEF MarkRefresh
  <2>4. pc' \in [Tasks -> PCs] /\ response' \in [Tasks -> Responses]
    BY <1>0, <1>10 DEF MarkRefresh, RefreshFailed
  <2>5. Row(acct[t]) \subseteq Accounts \X Keys
    BY DEF Row
  <2>6. /\ valid' \subseteq Accounts /\ condemned' \subseteq Accounts \X Keys
        /\ unmarked' \subseteq replaced
    BY <1>10, <2>5 DEF MarkRefresh, MarkInvalid, TypeOK
  <2>7. UNCHANGED <<worker, starts, stored, issued, replaced, home, source, todo, acct, key,
                    got, attempt>>
    BY <1>10 DEF MarkRefresh, MarkInvalid
  <2> QED
    BY <2>3, <2>4, <2>6, <2>7 DEF TypeOK, LockType
<1>11. CASE Retry(t)
  <2>1. pc' \in [Tasks -> PCs]
    BY <1>0, <1>11 DEF Retry
  <2>3. response' \in [Tasks -> Responses]
    BY <1>0, <1>11 DEF Retry
  <2>2. UNCHANGED <<worker, starts, stored, valid, lock, issued, replaced, condemned, unmarked, home, source, todo,
                    acct, key, got, attempt>>
    BY <1>11 DEF Retry
  <2> QED
    BY <2>1, <2>2, <2>3 DEF TypeOK
<1>12. CASE Invalidate(t)
  <2>1. Row(acct[t]) \subseteq Accounts \X Keys
    BY DEF Row
  <2>2. valid' \subseteq Accounts /\ condemned' \subseteq Accounts \X Keys
    BY <1>12, <2>1 DEF Invalidate, MarkInvalid, TypeOK
  <2>3. pc' \in [Tasks -> PCs] /\ response' \in [Tasks -> Responses]
    BY <1>0, <1>12 DEF Invalidate
  <2>4. UNCHANGED <<worker, starts, stored, lock, issued, replaced, unmarked, home, source, todo,
                    acct, key, got, attempt>>
    BY <1>12 DEF Invalidate, MarkInvalid
  <2> QED
    BY <2>2, <2>3, <2>4 DEF TypeOK
<1>13. CASE CheckRead(t)
  <2>1. t[2] \in Accounts
    BY <1>13 DEF CheckRead, CredentialsInHand, InHand
  <2>2. acct' \in [Tasks -> Accounts \cup {None}] /\ key' \in [Tasks -> Keys \cup {CallerKey, None}]
    BY <1>13, <2>1 DEF CheckRead, TypeOK
  <2>3. pc' \in [Tasks -> PCs]
    BY <1>0, <1>13 DEF CheckRead
  <2>4. UNCHANGED <<worker, starts, stored, valid, lock, issued, replaced, condemned, unmarked,
                    home, source, todo, got, attempt, response>>
    BY <1>13 DEF CheckRead
  <2> QED
    BY <2>2, <2>3, <2>4 DEF TypeOK
<1>14. CASE CheckMark(t)
  <2>1. Row(acct[t]) \subseteq Accounts \X Keys
    BY DEF Row
  <2>2. valid' \subseteq Accounts /\ condemned' \subseteq Accounts \X Keys
    BY <1>14, <2>1 DEF CheckMark, MarkInvalid, TypeOK
  <2>3. pc' \in [Tasks -> PCs]
    BY <1>0, <1>14 DEF CheckMark
  <2>4. UNCHANGED <<worker, starts, stored, lock, issued, replaced, unmarked, home, source, todo,
                    acct, key, got, attempt, response>>
    BY <1>14 DEF CheckMark, MarkInvalid
  <2> QED
    BY <2>2, <2>3, <2>4 DEF TypeOK
<1> QED
  BY <1>1, <1>2, <1>3, <1>4, <1>5, <1>6, <1>7, <1>8, <1>9, <1>10, <1>11, <1>12, <1>13,
     <1>14 DEF Step

-----------------------------------------------------------------------------
(* What a step of a task leaves alone, and what it does to the locks *)

\* A step of a task, or its cancellation, moves that task only.
Own(t) ==
  /\ UNCHANGED <<worker, home, source>>
  /\ pc[t] \notin {"idle", "done"}
  /\ pc' \in [Tasks -> PCs]
  /\ \A u \in Tasks \ {t} : /\ pc'[u] = pc[u] /\ acct'[u] = acct[u]
                            /\ key'[u] = key[u] /\ got'[u] = got[u]

LEMMA StepIsOwn ==
  ASSUME TypeOK, TypeOK', NEW t \in Tasks, Step(t)
  PROVE  Own(t)
<1> USE DEF Own, At, Goto, Respond, Raise, workerVars, cred, TypeOK
<1>1. CASE Acquire(t) BY <1>1 DEF Acquire
<1>2. CASE Choose(t) BY <1>2 DEF Choose
<1>3. CASE EnsureLock(t) BY <1>3 DEF EnsureLock
<1>4. CASE EnsureRead(t) BY <1>4 DEF EnsureRead
<1>5. CASE EnsureCheck(t) BY <1>5 DEF EnsureCheck
<1>6. CASE Call(t) BY <1>6 DEF Call
<1>7. CASE RefreshLock(t) BY <1>7 DEF RefreshLock
<1>8. CASE RefreshRead(t) BY <1>8 DEF RefreshRead
<1>9. CASE RefreshCall(t) BY <1>9 DEF RefreshCall
<1>10. CASE Apply(t) BY <1>10 DEF Apply
<1>11. CASE MarkRefresh(t) BY <1>11 DEF MarkRefresh, RefreshFailed
<1>12. CASE Retry(t) BY <1>12 DEF Retry
<1>13. CASE Invalidate(t) BY <1>13 DEF Invalidate
<1>14. CASE CheckRead(t) BY <1>14 DEF CheckRead
<1>15. CASE CheckMark(t) BY <1>15 DEF CheckMark
<1> QED
  BY <1>1, <1>2, <1>3, <1>4, <1>5, <1>6, <1>7, <1>8, <1>9, <1>10, <1>11, <1>12, <1>13,
     <1>14, <1>15 DEF Step

\* Entering the locked part takes the lock, leaving it gives the lock back, and
\* neither the account nor the lock changes in between.
Locking(t) ==
  \/ /\ lock' = lock /\ pc[t] \in Locked /\ pc'[t] \in Locked /\ acct'[t] = acct[t]
  \/ /\ lock' = lock /\ pc[t] \notin Locked /\ pc'[t] \notin Locked
  \/ /\ TakeLock(t) /\ pc[t] \notin Locked /\ pc'[t] \in Locked /\ acct'[t] = acct[t]
     /\ home[t] \in Workers /\ acct[t] \in Accounts
  \/ /\ FreeLock(t) /\ pc[t] \in Locked /\ pc'[t] \notin Locked
     /\ home[t] \in Workers /\ acct[t] \in Accounts

LEMMA StepIsLocking ==
  ASSUME TypeOK, TasksHaveAProcess, CredentialsInHand, NEW t \in Tasks, Step(t)
  PROVE  Locking(t)
<1> USE DEF Locking, Locked, At, Goto, Respond, Raise
<1>0. pc \in [Tasks -> PCs] /\ acct \in [Tasks -> Accounts \cup {None}]
  BY DEF TypeOK
<1>1. CASE Acquire(t) BY <1>0, <1>1 DEF Acquire
<1>2. CASE Choose(t) BY <1>0, <1>2 DEF Choose
<1>3. CASE EnsureLock(t) BY <1>0, <1>3, Located DEF EnsureLock, cred
<1>4. CASE EnsureRead(t) BY <1>0, <1>4, Located DEF EnsureRead
<1>5. CASE EnsureCheck(t) BY <1>0, <1>5, Located DEF EnsureCheck, cred
<1>6. CASE Call(t) BY <1>0, <1>6 DEF Call
<1>7. CASE RefreshLock(t) BY <1>0, <1>7, Located DEF RefreshLock, cred
<1>8. CASE RefreshRead(t) BY <1>0, <1>8, Located, AfterRefreshLabels DEF RefreshRead
<1>9. CASE RefreshCall(t) BY <1>0, <1>9 DEF RefreshCall, cred
<1>10. CASE Apply(t) BY <1>0, <1>10, Located, AfterRefreshLabels DEF Apply
<1>11. CASE MarkRefresh(t) BY <1>0, <1>11, Located DEF MarkRefresh, RefreshFailed
<1>12. CASE Retry(t) BY <1>0, <1>12 DEF Retry
<1>13. CASE Invalidate(t) BY <1>0, <1>13 DEF Invalidate
<1>14. CASE CheckRead(t) BY <1>0, <1>14 DEF CheckRead
<1>15. CASE CheckMark(t) BY <1>0, <1>15 DEF CheckMark
<1> QED
  BY <1>1, <1>2, <1>3, <1>4, <1>5, <1>6, <1>7, <1>8, <1>9, <1>10, <1>11, <1>12, <1>13,
     <1>14, <1>15 DEF Step

\* A step that keeps to its own task and to its lock keeps the discipline.
LEMMA LockDisciplineKept ==
  ASSUME TypeOK, TasksHaveAProcess, CredentialsInHand, LockDiscipline,
         NEW t \in Tasks, Own(t), Locking(t)
  PROVE  LockDiscipline'
<1>0. lock \in LockType /\ None \notin Tasks
  BY TaskFacts DEF TypeOK, LockType
<1>4. \A u \in Tasks : pc[u] \in Locked => home[u] \in Workers /\ acct[u] \in Accounts
  BY Located
<1>1. CASE lock' = lock
  BY <1>0, <1>1 DEF Own, Locking, LockDiscipline, Held, LockType, TakeLock, FreeLock
<1>2. CASE TakeLock(t) /\ pc[t] \notin Locked /\ pc'[t] \in Locked /\ acct'[t] = acct[t]
           /\ home[t] \in Workers /\ acct[t] \in Accounts
  <2>1. \A w \in Workers, a \in Accounts :
           lock'[w][a] = IF w = home[t] /\ a = acct[t] THEN t ELSE lock[w][a]
    BY <1>0, <1>2, LockValues
  <2>2. lock[home[t]][acct[t]] = None
    BY <1>2 DEF TakeLock
  <2>3. \A u \in Tasks : pc'[u] \in Locked => lock'[home[u]][acct'[u]] = u
    BY <1>0, <1>2, <1>4, <2>1, <2>2 DEF Own, LockDiscipline, Held
  <2>4. ASSUME NEW w \in Workers, NEW a \in Accounts, lock'[w][a] # None
        PROVE  LET u == lock'[w][a] IN pc'[u] \in Locked /\ home[u] = w /\ acct'[u] = a
    <3>1. CASE w = home[t] /\ a = acct[t]
      BY <1>2, <2>1, <2>4, <3>1
    <3>2. CASE ~(w = home[t] /\ a = acct[t])
      <4>1. lock'[w][a] = lock[w][a] /\ lock[w][a] \in Tasks
        BY <1>0, <2>1, <2>4, <3>2 DEF LockType
      <4> QED
        BY <1>0, <2>4, <3>2, <4>1 DEF Own, LockDiscipline
    <3> QED
      BY <3>1, <3>2
  <2> QED
    BY <2>3, <2>4 DEF Own, LockDiscipline, Held
<1>3. CASE FreeLock(t) /\ pc[t] \in Locked /\ pc'[t] \notin Locked
           /\ home[t] \in Workers /\ acct[t] \in Accounts
  <2>1. \A w \in Workers, a \in Accounts :
           lock'[w][a] = IF w = home[t] /\ a = acct[t] THEN None ELSE lock[w][a]
    BY <1>0, <1>3, LockValues
  <2>2. lock[home[t]][acct[t]] = t
    BY <1>3 DEF LockDiscipline, Held
  <2>3. \A u \in Tasks : pc'[u] \in Locked => lock'[home[u]][acct'[u]] = u
    BY <1>0, <1>3, <1>4, <2>1, <2>2 DEF Own, LockDiscipline, Held
  <2>4. ASSUME NEW w \in Workers, NEW a \in Accounts, lock'[w][a] # None
        PROVE  LET u == lock'[w][a] IN pc'[u] \in Locked /\ home[u] = w /\ acct'[u] = a
    <3>1. CASE w = home[t] /\ a = acct[t]
      BY <1>3, <2>1, <2>4, <3>1
    <3>2. CASE ~(w = home[t] /\ a = acct[t])
      <4>1. lock'[w][a] = lock[w][a] /\ lock[w][a] \in Tasks
        BY <1>0, <2>1, <2>4, <3>2 DEF LockType
      <4> QED
        BY <1>0, <2>4, <3>2, <4>1 DEF Own, LockDiscipline
    <3> QED
      BY <3>1, <3>2
  <2> QED
    BY <2>3, <2>4 DEF Own, LockDiscipline, Held
<1> QED
  BY <1>1, <1>2, <1>3 DEF Locking

-----------------------------------------------------------------------------
(* The other conjuncts, for the steps of a task *)

LEMMA StepRows ==
  ASSUME TypeOK, ValidRowsExist, CredentialsInHand, NEW t \in Tasks, Step(t)
  PROVE  ValidRowsExist'
<1> USE DEF ValidRowsExist
<1>1. CASE Apply(t)
  <2>1. acct[t] \in Accounts /\ got[t] # None
    BY <1>1, KeyFacts, PoolKeyInHand DEF Apply, At, Locked, CredentialsInHand, InHand
  <2> QED
    BY <1>1, <2>1, TaskFacts DEF Apply, rows, TypeOK
<1>2. CASE MarkRefresh(t) \/ Invalidate(t) \/ CheckMark(t)
  BY <1>2 DEF MarkRefresh, Invalidate, CheckMark, MarkInvalid, rows
<1>3. CASE UNCHANGED rows
  BY <1>3 DEF rows
<1> QED
  BY <1>1, <1>2, <1>3 DEF Step, Acquire, Choose, EnsureLock, EnsureRead, EnsureCheck, Call,
     RefreshLock, RefreshRead, RefreshCall, Retry, CheckRead

\* What a task holds after a step of its own.
LEMMA StepInHand ==
  ASSUME TypeOK, ValidRowsExist, CredentialsInHand, NEW t \in Tasks, Step(t)
  PROVE  InHand(t)'
<1> USE KeyFacts, TaskFacts DEF InHand, Locked, At, Goto, Respond, Raise, cred
<1>0. /\ pc \in [Tasks -> PCs] /\ acct \in [Tasks -> Accounts \cup {None}]
      /\ key \in [Tasks -> Keys \cup {CallerKey, None}] /\ got \in [Tasks -> Keys \cup {None}]
      /\ source \in [Tasks -> {"cookie", "pool"}]
      /\ InHand(t)
  BY DEF TypeOK, CredentialsInHand
<1>1. CASE Acquire(t) BY <1>0, <1>1 DEF Acquire
<1>2. CASE Choose(t)
  <2>1. \A c \in todo[t] : c[1] \in Accounts /\ c[2] \in Keys
    BY DEF TypeOK
  <2> QED
    BY <1>0, <1>2, <2>1 DEF Choose
<1>3. CASE EnsureLock(t) BY <1>0, <1>3 DEF EnsureLock
<1>4. CASE EnsureRead(t)
  <2>1. stored[acct[t]] \in Keys \cup {None}
    BY <1>0, <1>4 DEF EnsureRead, TypeOK
  <2> QED
    BY <1>0, <1>4, <2>1 DEF EnsureRead
<1>5. CASE EnsureCheck(t) BY <1>0, <1>5 DEF EnsureCheck
<1>6. CASE Call(t) BY <1>0, <1>6 DEF Call
<1>7. CASE RefreshLock(t) BY <1>0, <1>7 DEF RefreshLock
<1>8. CASE RefreshRead(t)
  <2>1. stored[acct[t]] \in Keys \cup {None}
    BY <1>0, <1>8 DEF RefreshRead, TypeOK
  <2> QED
    BY <1>0, <1>8, <2>1, AfterRefreshLabels DEF RefreshRead
<1>9. CASE RefreshCall(t)
  <2>1. issued[acct[t]] < MaxKey => issued[acct[t]] + 1 \in Keys
    BY <1>0, <1>9 DEF RefreshCall, TypeOK, Keys
  <2> QED
    BY <1>0, <1>9, <2>1 DEF RefreshCall
<1>10. CASE Apply(t) BY <1>0, <1>10, AfterRefreshLabels DEF Apply
<1>11. CASE MarkRefresh(t) BY <1>0, <1>11 DEF MarkRefresh, RefreshFailed
<1>12. CASE Retry(t) BY <1>0, <1>12 DEF Retry
<1>13. CASE Invalidate(t) BY <1>0, <1>13 DEF Invalidate
<1>14. CASE CheckRead(t)
  <2>1. t[2] \in Accounts /\ stored[t[2]] \in Keys \cup {None}
    BY <1>0, <1>14 DEF CheckRead, TypeOK
  <2> QED
    BY <1>0, <1>14, <2>1 DEF CheckRead
<1>15. CASE CheckMark(t) BY <1>0, <1>15 DEF CheckMark
<1> QED
  BY <1>1, <1>2, <1>3, <1>4, <1>5, <1>6, <1>7, <1>8, <1>9, <1>10, <1>11, <1>12, <1>13,
     <1>14, <1>15 DEF Step

LEMMA StepInv ==
  ASSUME PoolInv, NEW t \in Tasks, Step(t)
  PROVE  PoolInv'
<1> USE DEF PoolInv
<1>1. TypeOK'
  BY StepTypes
<1>2. Own(t) /\ Locking(t)
  BY <1>1, StepIsOwn, StepIsLocking
<1>3. ValidRowsExist'
  BY StepRows
<1>4. TasksHaveAProcess'
  BY <1>2 DEF Own, TasksHaveAProcess, Tasks
<1>5. CredentialsInHand'
  BY <1>2, StepInHand DEF Own, CredentialsInHand, InHand
<1>6. LockDiscipline'
  BY <1>2, LockDisciplineKept
<1> QED
  BY <1>1, <1>3, <1>4, <1>5, <1>6

-----------------------------------------------------------------------------
(* The life of a worker, arrivals and cancellations *)

\* The tasks of a process that is down are idle or done, and hold no lock.
LEMMA DownIsIdle ==
  ASSUME PoolInv, NEW w \in Workers, worker[w] = "down"
  PROVE  /\ \A t \in Tasks : home[t] = w => pc[t] \in {"idle", "done"}
         /\ \A a \in Accounts : <<w, a>> \in Tasks /\ home[<<w, a>>] = w
  BY DEF PoolInv, TasksHaveAProcess, Tasks, Checkers

LEMMA StartInv ==
  ASSUME PoolInv, NEW w \in Workers, Start(w)
  PROVE  PoolInv'
<1> USE KeyFacts, TaskFacts
<1>1. PICK seeded \in SUBSET Accounts :
         /\ stored' = [a \in Accounts |-> IF a \in seeded THEN 0 ELSE None]
         /\ valid' = seeded
         /\ pc' = [t \in Tasks |-> IF t \in {w} \X seeded THEN "checkRead" ELSE pc[t]]
  BY DEF Start
<1>2. /\ worker[w] = "down" /\ starts' = starts + 1 /\ starts < MaxStarts
      /\ worker' = [worker EXCEPT ![w] = "checking"]
      /\ condemned' \subseteq condemned
      /\ UNCHANGED <<lock, issued, replaced, unmarked, home, source, todo, acct, key, got, attempt,
                     response>>
  BY DEF Start, cred
<1>3. \A t \in Tasks : \/ t \in Checkers /\ home[t] = w /\ pc[t] \in {"idle", "done"}
                          /\ source[t] = "pool" /\ pc'[t] = "checkRead"
                       \/ pc'[t] = pc[t]
  <2>1. ASSUME NEW t \in Tasks, t \in {w} \X seeded
        PROVE  /\ t \in Checkers /\ home[t] = w /\ pc[t] \in {"idle", "done"}
               /\ source[t] = "pool"
    <3>1. t \in Checkers /\ home[t] = w /\ pc[t] \in {"idle", "done"}
      BY <1>2, <2>1, DownIsIdle DEF Checkers, PoolInv, TasksHaveAProcess
    <3>2. source[t] \in {"cookie", "pool"} /\ (source[t] = "cookie" => t \in Requests)
      BY DEF PoolInv, TypeOK, CredentialsInHand, InHand
    <3> QED
      BY <3>1, <3>2
  <2> QED
    BY <1>1, <2>1
<1>4. TypeOK'
  <2>1. pc' \in [Tasks -> PCs]
    BY <1>1 DEF PoolInv, TypeOK, PCs
  <2>2. stored' \in [Accounts -> Keys \cup {None}] /\ valid' \subseteq Accounts
    BY <1>1
  <2>3. worker' \in [Workers -> {"down", "checking", "serving"}] /\ starts' \in 0..MaxStarts
    BY <1>2 DEF PoolInv, TypeOK
  <2> QED
    BY <1>2, <2>1, <2>2, <2>3 DEF PoolInv, TypeOK
<1>5. ValidRowsExist'
  BY <1>1 DEF ValidRowsExist
<1>6. TasksHaveAProcess'
  BY <1>2, <1>3 DEF PoolInv, TypeOK, TasksHaveAProcess
<1>7. CredentialsInHand'
  BY <1>2, <1>3 DEF PoolInv, CredentialsInHand, InHand, Locked
<1>8. LockDiscipline'
  <2>1. \A t \in Tasks : pc'[t] \in Locked <=> pc[t] \in Locked
    BY <1>3 DEF Locked
  <2>2. \A v \in Workers, a \in Accounts : lock[v][a] \in Tasks \cup {None}
    BY DEF PoolInv, TypeOK
  <2> QED
    BY <1>2, <2>1, <2>2 DEF PoolInv, LockDiscipline, Held
<1> QED
  BY <1>4, <1>5, <1>6, <1>7, <1>8 DEF PoolInv

LEMMA ServeInv ==
  ASSUME PoolInv, NEW w \in Workers, Serve(w)
  PROVE  PoolInv'
<1>1. /\ worker' = [worker EXCEPT ![w] = "serving"]
      /\ UNCHANGED <<starts, stored, valid, lock, issued, replaced, condemned, unmarked, pc, home, source, todo,
                     acct, key, got, attempt, response>>
  BY DEF Serve, rows, history, taskVars
<1> QED
  BY <1>1 DEF PoolInv, TypeOK, ValidRowsExist, TasksHaveAProcess, CredentialsInHand, InHand,
     LockDiscipline, Held

LEMMA EndsInv ==
  ASSUME PoolInv, NEW w \in Workers, Ends(w)
  PROVE  PoolInv'
<1> USE KeyFacts, TaskFacts
<1>1. /\ worker' = [worker EXCEPT ![w] = "down"]
      /\ lock' = [lock EXCEPT ![w] = [a \in Accounts |-> None]]
      /\ pc' = [t \in Tasks |-> IF home[t] = w
                                THEN IF t \in Checkers THEN "idle" ELSE "done"
                                ELSE pc[t]]
      /\ UNCHANGED <<starts, stored, valid, issued, replaced, condemned, unmarked, home, source, todo,
                     acct, key, got, attempt>>
  BY DEF Ends, rows, history, cred
<1>2. response' \in [Tasks -> Responses]
  BY DEF Ends, PoolInv, TypeOK, Responses
<1>3. pc' \in [Tasks -> PCs]
  BY <1>1 DEF PoolInv, TypeOK, PCs
<1>4. lock' \in LockType
  BY <1>1 DEF PoolInv, TypeOK, LockType
<1>5. TypeOK'
  BY <1>1, <1>2, <1>3, <1>4 DEF PoolInv, TypeOK, LockType
<1>6. ValidRowsExist'
  BY <1>1 DEF PoolInv, ValidRowsExist
<1>7. TasksHaveAProcess'
  BY <1>1 DEF PoolInv, TypeOK, TasksHaveAProcess
<1>8. CredentialsInHand'
  BY <1>1 DEF PoolInv, CredentialsInHand, InHand, Locked
<1>9. LockDiscipline'
  <2>1. \A v \in Workers, a \in Accounts : lock'[v][a] = IF v = w THEN None ELSE lock[v][a]
    BY <1>1 DEF PoolInv, TypeOK
  <2>2. \A t \in Tasks : pc[t] \in Locked => home[t] \in Workers /\ acct[t] \in Accounts
    BY Located DEF PoolInv
  <2>3. \A t \in Tasks : pc'[t] \in Locked => pc'[t] = pc[t] /\ home[t] # w
    BY <1>1 DEF Locked
  <2>4. \A t \in Tasks : pc'[t] \in Locked => lock'[home[t]][acct[t]] = t
    BY <2>1, <2>2, <2>3 DEF PoolInv, LockDiscipline, Held
  <2>5. ASSUME NEW v \in Workers, NEW a \in Accounts, lock'[v][a] # None
        PROVE  LET t == lock'[v][a] IN pc'[t] \in Locked /\ home[t] = v /\ acct[t] = a
    <3>1. v # w /\ lock'[v][a] = lock[v][a] /\ lock[v][a] \in Tasks
      BY <2>1, <2>5 DEF PoolInv, TypeOK
    <3> QED
      BY <1>1, <2>5, <3>1 DEF PoolInv, LockDiscipline
  <2> QED
    BY <1>1, <2>4, <2>5 DEF LockDiscipline, Held
<1> QED
  BY <1>5, <1>6, <1>7, <1>8, <1>9 DEF PoolInv

LEMMA ArriveInv ==
  ASSUME PoolInv, NEW t \in Requests, NEW w \in Workers, Arrive(t, w)
  PROVE  PoolInv'
<1> USE KeyFacts, TaskFacts DEF PoolInv
<1>1. /\ pc[t] = "idle" /\ worker[w] = "serving"
      /\ home' = [home EXCEPT ![t] = w]
      /\ UNCHANGED <<worker, starts, stored, valid, lock, issued, replaced, condemned, unmarked, todo, got, attempt, response>>
  BY DEF Arrive, At, workerVars, rows, history
<1>2. \/ /\ pc' = [pc EXCEPT ![t] = "acquire"] /\ UNCHANGED <<acct, key, source>>
      \/ /\ pc' = [pc EXCEPT ![t] = "call"]
         /\ \E a \in Accounts : acct' = [acct EXCEPT ![t] = a]
         /\ key' = [key EXCEPT ![t] = CallerKey]
         /\ source' = [source EXCEPT ![t] = "cookie"]
  BY DEF Arrive, Goto, cred
<1>3. TypeOK'
  <2>1. home' \in [Tasks -> Workers \cup {None}]
    BY <1>1 DEF TypeOK
  <2>5. pc' \in [Tasks -> PCs]
    BY <1>2 DEF TypeOK, PCs
  <2>2. acct' \in [Tasks -> Accounts \cup {None}]
    <3>1. ASSUME NEW a \in Accounts, acct' = [acct EXCEPT ![t] = a]
          PROVE  acct' \in [Tasks -> Accounts \cup {None}]
      BY <3>1 DEF TypeOK
    <3>2. CASE acct' = acct
      BY <3>2 DEF TypeOK
    <3> QED
      BY <1>2, <3>1, <3>2
  <2>3. key' \in [Tasks -> Keys \cup {CallerKey, None}]
    <3>1. CASE key' = key
      BY <3>1 DEF TypeOK
    <3>2. CASE key' = [key EXCEPT ![t] = CallerKey]
      BY <3>2 DEF TypeOK
    <3> QED
      BY <1>2, <3>1, <3>2
  <2>4. source' \in [Tasks -> {"cookie", "pool"}]
    BY <1>2 DEF TypeOK
  <2> QED
    BY <1>1, <2>1, <2>2, <2>3, <2>4, <2>5 DEF TypeOK
<1>4. ValidRowsExist'
  BY <1>1 DEF ValidRowsExist
<1>5. TasksHaveAProcess'
  BY <1>1, <1>2 DEF TypeOK, TasksHaveAProcess
<1>6. CredentialsInHand'
  BY <1>1, <1>2 DEF TypeOK, CredentialsInHand, InHand, Locked
<1>7. LockDiscipline'
  <2>1. \A v \in Workers, a \in Accounts : lock[v][a] # t
    BY <1>1 DEF LockDiscipline, Locked
  <2> QED
    BY <1>1, <1>2, <2>1 DEF TypeOK, LockDiscipline, Held, Locked
<1> QED
  BY <1>3, <1>4, <1>5, <1>6, <1>7

LEMMA CancelInv ==
  ASSUME PoolInv, NEW t \in Requests, Cancel(t)
  PROVE  PoolInv'
<1> USE KeyFacts, TaskFacts DEF PoolInv
<1>1. /\ pc[t] \notin {"idle", "done"}
      /\ pc' = [pc EXCEPT ![t] = "done"]
      /\ response' = [response EXCEPT ![t] = "cancelled"]
      /\ IF pc[t] \in Locked THEN FreeLock(t) ELSE lock' = lock
      /\ UNCHANGED <<worker, starts, stored, valid, issued, replaced, condemned, unmarked, home, source, todo,
                     acct, key, got, attempt>>
  BY DEF Cancel, Respond, Goto, workerVars, rows, history, cred
<1>2. pc[t] \in Locked => home[t] \in Workers /\ acct[t] \in Accounts
  BY Located
<1>3. Own(t) /\ Locking(t)
  BY <1>1, <1>2 DEF Own, Locking, TypeOK, PCs, Locked
<1>4. lock' \in LockType
  BY <1>1, <1>2, LockTypes DEF TypeOK, LockType
<1>5. TypeOK'
  BY <1>1, <1>4 DEF TypeOK, PCs, Responses, LockType
<1>6. ValidRowsExist'
  BY <1>1 DEF ValidRowsExist
<1>7. TasksHaveAProcess'
  BY <1>1 DEF TypeOK, TasksHaveAProcess
<1>8. CredentialsInHand'
  BY <1>1 DEF TypeOK, CredentialsInHand, InHand, Locked
<1>9. LockDiscipline'
  BY <1>3, LockDisciplineKept
<1> QED
  BY <1>5, <1>6, <1>7, <1>8, <1>9

-----------------------------------------------------------------------------
(* The theorems *)

LEMMA InitInv == Init => PoolInv
<1> SUFFICES ASSUME Init PROVE PoolInv
  OBVIOUS
<1>1. TasksHaveAProcess /\ CredentialsInHand /\ ValidRowsExist
  BY TaskFacts DEF Init, TasksHaveAProcess, CredentialsInHand, InHand, ValidRowsExist, Locked
<1>2. LockDiscipline
  BY DEF Init, LockDiscipline, Locked
<1> QED
  BY <1>1, <1>2, InitTypes DEF PoolInv

LEMMA NextInv == PoolInv /\ [Next]_vars => PoolInv'
<1> SUFFICES ASSUME PoolInv, [Next]_vars PROVE PoolInv'
  OBVIOUS
<1>1. ASSUME NEW w \in Workers, Start(w) \/ Serve(w) \/ StartupFails(w) \/ Crash(w) PROVE PoolInv'
  BY <1>1, StartInv, ServeInv, EndsInv DEF StartupFails, Crash
<1>2. ASSUME NEW t \in Requests, NEW w \in Workers, Arrive(t, w) PROVE PoolInv'
  BY <1>2, ArriveInv
<1>3. ASSUME NEW t \in Tasks, Step(t) PROVE PoolInv'
  BY <1>3, StepInv
<1>4. ASSUME NEW t \in Requests, Cancel(t) PROVE PoolInv'
  BY <1>4, CancelInv
<1>5. CASE UNCHANGED vars
  BY <1>5 DEF vars, PoolInv, TypeOK, ValidRowsExist, TasksHaveAProcess, CredentialsInHand,
     InHand, LockDiscipline, Held
<1> QED
  BY <1>1, <1>2, <1>3, <1>4, <1>5 DEF Next

\* The inductive invariant holds in every reachable state.
THEOREM PoolInvariant == Spec => []PoolInv
  BY InitInv, NextInv, PTL DEF Spec

\* Every variable keeps its type: in particular a row holds a key that the
\* upstream issued, never one of a caller, and no request is at two places.
THEOREM TypeCorrect == Spec => []TypeOK
  BY PoolInvariant, PTL DEF PoolInv

\* The refresh of an account is serialised within a process, and no failure,
\* cancellation or crash leaves a lock behind (`_credential_refresh_lock`).
THEOREM LocksAreKept == Spec => []LockDiscipline
  BY PoolInvariant, PTL DEF PoolInv

\* A caller's own credential is never refreshed, stored or exchanged
\* (configured_credential_for_api, execute_route).
THEOREM CallersAreApart == Spec => []CallersStayApart
<1>1. PoolInv => CallersStayApart
  BY TaskFacts DEF PoolInv, CredentialsInHand, InHand, LockDiscipline, CallersStayApart, Locked
<1> QED
  BY <1>1, PoolInvariant, PTL

-----------------------------------------------------------------------------
(* One worker process *)

\* With one process nobody else writes the row of an account whose lock is held.
LEMMA StepCurrent ==
  ASSUME NEW w0, Workers = {w0}, PoolInv, InHandIsCurrent, NEW t \in Tasks, Step(t)
  PROVE  InHandIsCurrent'
<1> DEFINE Refreshing == {"ensureCheck", "refreshCall", "apply", "markRefresh"}
<1>1. Own(t)
  BY StepIsOwn, StepTypes DEF PoolInv
<1>2. ASSUME NEW u \in Tasks \ {t}, pc'[u] \in Refreshing
      PROVE  stored'[acct'[u]] \in {key'[u], None}
  <2>1. pc[u] \in Refreshing /\ acct'[u] = acct[u] /\ key'[u] = key[u]
    BY <1>1, <1>2 DEF Own
  <2>2. stored[acct[u]] \in {key[u], None}
    BY <2>1 DEF InHandIsCurrent
  <2>3. acct[u] \in Accounts /\ lock[home[u]][acct[u]] = u /\ home[u] = w0
    BY <2>1, Located DEF PoolInv, LockDiscipline, Held, Locked
  <2>4. CASE stored' = stored
    BY <2>1, <2>2, <2>4
  <2>5. CASE Apply(t)
    <3>1. lock[home[t]][acct[t]] = t /\ home[t] = w0 /\ acct[t] \in Accounts
      BY <2>5, Located DEF PoolInv, LockDiscipline, Held, Locked, Apply, At
    <3>2. acct[u] # acct[t]
      BY <2>3, <3>1
    <3>3. stored'[acct[u]] = stored[acct[u]]
      BY <2>3, <2>5, <3>1, <3>2 DEF Apply, rows, PoolInv, TypeOK
    <3> QED
      BY <2>1, <2>2, <3>3
  <2> QED
    BY <2>4, <2>5 DEF Step, Acquire, Choose, EnsureLock, EnsureRead, EnsureCheck, Call,
       RefreshLock, RefreshRead, RefreshCall, MarkRefresh, Retry, Invalidate, CheckRead,
       CheckMark, MarkInvalid, rows
<1>3. ASSUME pc'[t] \in Refreshing
      PROVE  stored'[acct'[t]] \in {key'[t], None}
  <2>0. /\ pc \in [Tasks -> PCs] /\ key \in [Tasks -> Keys \cup {CallerKey, None}]
        /\ pc[t] \in Refreshing => stored[acct[t]] \in {key[t], None}
    BY DEF PoolInv, TypeOK, InHandIsCurrent
  <2> USE DEF At, Goto, Respond, Raise, rows, cred
  <2>1. CASE EnsureRead(t)
    BY <1>3, <2>0, <2>1 DEF EnsureRead
  <2>2. CASE EnsureCheck(t)
    BY <1>3, <2>0, <2>2 DEF EnsureCheck
  <2>3. CASE RefreshRead(t)
    BY <1>3, <2>0, <2>3, AfterRefreshLabels DEF RefreshRead, PoolInv
  <2>4. CASE RefreshCall(t)
    BY <1>3, <2>0, <2>4 DEF RefreshCall
  <2>5. CASE Apply(t)
    BY <1>3, <2>0, <2>5, AfterRefreshLabels DEF Apply, PoolInv
  <2> QED
    BY <1>3, <2>0, <2>1, <2>2, <2>3, <2>4, <2>5 DEF Step, Acquire, Choose, EnsureLock, Call,
       RefreshLock, MarkRefresh, RefreshFailed, Retry, Invalidate, CheckRead, CheckMark
<1> QED
  BY <1>2, <1>3 DEF InHandIsCurrent

\* The single process starts when all its tasks are idle or done.
LEMMA StartCurrent ==
  ASSUME NEW w0, Workers = {w0}, PoolInv, NEW w \in Workers, Start(w)
  PROVE  InHandIsCurrent'
<1>1. \A t \in Tasks : pc[t] \in {"idle", "done"}
  BY DEF Start, PoolInv, TasksHaveAProcess
<1>2. \A t \in Tasks : pc'[t] \in {"idle", "done", "checkRead"}
  BY <1>1 DEF Start
<1> QED
  BY <1>2 DEF InHandIsCurrent

LEMMA NextCurrent ==
  ASSUME NEW w0, Workers = {w0}, PoolInv, InHandIsCurrent, [Next]_vars
  PROVE  InHandIsCurrent'
<1>1. ASSUME NEW w \in Workers, Start(w) PROVE InHandIsCurrent'
  BY <1>1, StartCurrent
<1>2. ASSUME NEW w \in Workers, Serve(w) \/ StartupFails(w) \/ Crash(w) PROVE InHandIsCurrent'
  BY <1>2 DEF Serve, StartupFails, Crash, Ends, rows, cred, taskVars, InHandIsCurrent
<1>3. ASSUME NEW t \in Requests, NEW w \in Workers, Arrive(t, w) PROVE InHandIsCurrent'
  BY <1>3 DEF Arrive, At, Goto, rows, cred, InHandIsCurrent, PoolInv, TypeOK
<1>4. ASSUME NEW t \in Tasks, Step(t) PROVE InHandIsCurrent'
  BY <1>4, StepCurrent
<1>5. ASSUME NEW t \in Requests, Cancel(t) PROVE InHandIsCurrent'
  BY <1>5 DEF Cancel, Respond, Goto, rows, cred, InHandIsCurrent, PoolInv, TypeOK
<1>6. CASE UNCHANGED vars
  BY <1>6 DEF vars, InHandIsCurrent
<1> QED
  BY <1>1, <1>2, <1>3, <1>4, <1>5, <1>6 DEF Next

\* In a single process a refresh always works on the pool's current key, and a
\* failed one never condemns a newer key (`refresh`: the comparison under the
\* lock).  The hypothesis is needed: two processes compare under two locks.
THEOREM RefreshIsCurrent ==
  ASSUME NEW w0, Workers = {w0}
  PROVE  Spec => []RefreshWorksOnThePoolKey
<1>1. Init => InHandIsCurrent
  BY DEF Init, InHandIsCurrent
<1>2. PoolInv /\ InHandIsCurrent /\ [Next]_vars => InHandIsCurrent'
  BY NextCurrent
<1>3. InHandIsCurrent => RefreshWorksOnThePoolKey
  BY DEF InHandIsCurrent, RefreshWorksOnThePoolKey
<1> QED
  BY <1>1, <1>2, <1>3, PoolInvariant, PTL DEF Spec

-----------------------------------------------------------------------------
(* What was condemned *)

\* The keys of rows are keys the upstream issued, so the next one is new.
RowsWereIssued ==
  /\ \A a \in Accounts : stored[a] # None => stored[a] <= issued[a]
  /\ \A c \in condemned : c[2] <= issued[c[1]]

\* A key on its way to the row was never in it, so it was never condemned, and no
\* other task, of whichever process, is about to store the same one.
OnItsWay(t) ==
  pc[t] = "apply" =>
    /\ got[t] # 0 /\ got[t] <= issued[acct[t]] /\ got[t] # stored[acct[t]]
    /\ <<acct[t], got[t]>> \notin condemned
    /\ \A u \in Tasks \ {t} : pc[u] = "apply" /\ acct[u] = acct[t] => got[u] # got[t]

\* The inductive invariant behind CondemnedStaysOut.
CondemnedInv == RowsWereIssued /\ CondemnedStaysOut /\ \A t \in Tasks : OnItsWay(t)

LEMMA CondemnedTypes ==
  ASSUME PoolInv
  PROVE  /\ stored \in [Accounts -> Keys \cup {None}] /\ valid \subseteq Accounts
         /\ issued \in [Accounts -> Keys] /\ condemned \subseteq Accounts \X Keys
         /\ pc \in [Tasks -> PCs] /\ acct \in [Tasks -> Accounts \cup {None}]
         /\ got \in [Tasks -> Keys \cup {None}]
         /\ \A t \in Tasks : pc[t] = "apply" => acct[t] \in Accounts /\ got[t] \in Keys
  BY DEF PoolInv, TypeOK, CredentialsInHand, InHand, Locked

\* The upstream's answer is a key that no row ever had.
LEMMA RefreshCallCondemned ==
  ASSUME PoolInv, CondemnedInv, NEW t \in Tasks, RefreshCall(t)
  PROVE  CondemnedInv'
<1>1. /\ UNCHANGED <<stored, valid, condemned, acct>>
      /\ acct[t] \in Accounts
      /\ \A u \in Tasks \ {t} : pc'[u] = pc[u] /\ got'[u] = got[u]
  BY CondemnedTypes, PoolKeyInHand DEF RefreshCall, At, Goto, rows, cred, Locked, PoolInv
<1>2. \/ /\ issued' = [issued EXCEPT ![acct[t]] = @ + 1]
         /\ got'[t] = issued[acct[t]] + 1
      \/ issued' = issued /\ pc'[t] # "apply"
  BY CondemnedTypes DEF RefreshCall, Goto
<1>3. \A a \in Accounts : issued[a] \in Nat /\ issued'[a] \in Nat /\ issued[a] <= issued'[a]
  <2>1. \A a \in Accounts : issued[a] \in Nat
    BY CondemnedTypes, KeyFacts
  <2>2. \A a \in Accounts : issued'[a] = issued[a] \/ issued'[a] = issued[a] + 1
    BY <1>1, <1>2, CondemnedTypes
  <2> QED
    BY <2>1, <2>2
<1>4. \A a \in Accounts : stored[a] # None => stored[a] \in Nat /\ stored[a] <= issued[a]
  BY KeyFacts, CondemnedTypes DEF CondemnedInv, RowsWereIssued
<1>5. \A c \in condemned : c[1] \in Accounts /\ c[2] \in Nat /\ c[2] <= issued[c[1]]
  BY KeyFacts, CondemnedTypes DEF CondemnedInv, RowsWereIssued
<1>6. RowsWereIssued'
  <2>1. \A a \in Accounts : stored[a] # None => stored[a] <= issued'[a]
    BY <1>3, <1>4
  <2>2. \A c \in condemned : c[2] <= issued'[c[1]]
    BY <1>3, <1>5
  <2> QED
    BY <1>1, <2>1, <2>2 DEF RowsWereIssued
<1>7. ASSUME NEW u \in Tasks, pc'[u] = "apply", u # t
      PROVE  /\ acct[u] \in Accounts /\ got[u] \in Nat /\ got[u] <= issued[acct[u]]
             /\ pc[u] = "apply" /\ got'[u] = got[u]
  BY <1>1, <1>7, CondemnedTypes, KeyFacts DEF CondemnedInv, OnItsWay
<1>8. pc'[t] = "apply" => /\ got'[t] = issued[acct[t]] + 1
                          /\ issued'[acct[t]] = issued[acct[t]] + 1
  BY <1>1, <1>2, CondemnedTypes
<1>9. ASSUME NEW u \in Tasks, pc'[u] = "apply" PROVE OnItsWay(u)'
  <2>1. CASE u = t
    <3>1. got'[t] \in Nat /\ issued[acct[t]] \in Nat /\ issued[acct[t]] < got'[t]
      BY <1>1, <1>3, <1>8, <1>9, <2>1
    <3>2. got'[t] # 0 /\ got'[t] <= issued'[acct[t]] /\ got'[t] # stored[acct[t]]
      BY <1>1, <1>3, <1>4, <1>8, <1>9, <2>1, <3>1
    <3>3. <<acct[t], got'[t]>> \notin condemned
      <4>1. ASSUME <<acct[t], got'[t]>> \in condemned PROVE FALSE
        <5>1. got'[t] <= issued[acct[t]]
          BY <1>5, <4>1
        <5> QED
          BY <3>1, <5>1
      <4> QED
        BY <4>1
    <3>4. ASSUME NEW v \in Tasks \ {t}, pc'[v] = "apply", acct[v] = acct[t]
          PROVE  got'[v] # got'[t]
      BY <1>7, <3>1, <3>4
    <3> QED
      BY <1>1, <2>1, <3>2, <3>3, <3>4 DEF OnItsWay
  <2>2. CASE u # t
    <3>1. OnItsWay(u) /\ pc[u] = "apply" /\ got'[u] = got[u] /\ acct[u] \in Accounts
          /\ got[u] \in Nat /\ got[u] <= issued[acct[u]]
      BY <1>7, <1>9, <2>2 DEF CondemnedInv
    <3>2. got'[u] <= issued'[acct[u]]
      BY <1>3, <3>1
    <3>3. ASSUME NEW v \in Tasks \ {u}, pc'[v] = "apply", acct[v] = acct[u]
          PROVE  got'[v] # got'[u]
      <4>1. CASE v = t
        BY <1>3, <1>8, <3>1, <3>3, <4>1
      <4>2. CASE v # t
        BY <1>7, <3>1, <3>3, <4>2 DEF OnItsWay
      <4> QED
        BY <4>1, <4>2
    <3> QED
      BY <1>1, <3>1, <3>2, <3>3 DEF OnItsWay
  <2> QED
    BY <2>1, <2>2
<1> QED
  BY <1>1, <1>6, <1>9 DEF CondemnedInv, CondemnedStaysOut, OnItsWay

\* The row takes a key that was never in it; a row that is gone takes none.
LEMMA ApplyCondemned ==
  ASSUME PoolInv, CondemnedInv, NEW t \in Tasks, Apply(t)
  PROVE  CondemnedInv'
<1>1. /\ UNCHANGED <<issued, condemned, acct>>
      /\ pc[t] = "apply" /\ acct[t] \in Accounts /\ got[t] \in Keys
      /\ pc'[t] # "apply"
      /\ \A u \in Tasks \ {t} : pc'[u] = pc[u] /\ got'[u] = got[u]
  BY CondemnedTypes, AfterRefreshLabels DEF Apply, At, Goto, history, PoolInv
<1>2. OnItsWay(t)
  BY DEF CondemnedInv
<1>3. \/ UNCHANGED <<stored, valid>>
      \/ stored' = [stored EXCEPT ![acct[t]] = got[t]] /\ valid' = valid \cup {acct[t]}
  BY DEF Apply, rows
<1>4. \A a \in Accounts : stored'[a] = stored[a] \/ (a = acct[t] /\ stored'[a] = got[t])
  BY <1>1, <1>3, CondemnedTypes
<1>5. RowsWereIssued'
  BY <1>1, <1>2, <1>4 DEF CondemnedInv, RowsWereIssued, OnItsWay
<1>6. CondemnedStaysOut'
  <2>1. CASE UNCHANGED <<stored, valid>>
    BY <1>1, <2>1 DEF CondemnedInv, CondemnedStaysOut
  <2>2. CASE stored' = [stored EXCEPT ![acct[t]] = got[t]] /\ valid' = valid \cup {acct[t]}
    <3>1. ASSUME NEW a \in valid' PROVE <<a, stored'[a]>> \notin condemned
      <4>1. CASE a = acct[t]
        BY <1>1, <1>2, <2>2, <4>1, CondemnedTypes DEF OnItsWay
      <4>2. CASE a # acct[t]
        BY <2>2, <3>1, <4>2, CondemnedTypes DEF CondemnedInv, CondemnedStaysOut
      <4> QED
        BY <4>1, <4>2
    <3> QED
      BY <1>1, <3>1 DEF CondemnedStaysOut
  <2> QED
    BY <1>3, <2>1, <2>2
<1>7. ASSUME NEW u \in Tasks, pc'[u] = "apply" PROVE OnItsWay(u)'
  <2>1. u # t /\ pc[u] = "apply" /\ got'[u] = got[u] /\ acct[u] \in Accounts
    BY <1>1, <1>7, CondemnedTypes
  <2>2. OnItsWay(u)
    BY DEF CondemnedInv
  <2>3. got[u] # stored'[acct[u]]
    BY <1>1, <1>2, <1>4, <2>1, <2>2 DEF OnItsWay
  <2>4. \A v \in Tasks \ {u} : pc'[v] = "apply" => v # t /\ pc[v] = "apply" /\ got'[v] = got[v]
    BY <1>1
  <2> QED
    BY <1>1, <2>1, <2>2, <2>3, <2>4 DEF OnItsWay
<1> QED
  BY <1>5, <1>6, <1>7 DEF CondemnedInv, OnItsWay

\* A mark condemns the key in the row, which is not one on its way.
LEMMA MarkCondemned ==
  ASSUME PoolInv, CondemnedInv, NEW t \in Tasks, acct[t] \in Accounts,
         MarkInvalid(acct[t]) \/ UNCHANGED <<stored, valid, condemned>>,
         UNCHANGED <<issued, acct, got>>,
         \A u \in Tasks : pc'[u] = "apply" => pc[u] = "apply"
  PROVE  CondemnedInv'
<1>1. CASE UNCHANGED <<stored, valid, condemned>>
  BY <1>1 DEF CondemnedInv, RowsWereIssued, CondemnedStaysOut, OnItsWay
<1>2. CASE MarkInvalid(acct[t])
  <2>1. /\ stored' = stored /\ valid' = valid \ {acct[t]}
        /\ condemned' = condemned \cup Row(acct[t])
    BY <1>2 DEF MarkInvalid
  <2>2. \A c \in condemned' : \/ c \in condemned
                              \/ c = <<acct[t], stored[acct[t]]>> /\ stored[acct[t]] \in Keys
    BY <2>1 DEF Row
  <2>3. RowsWereIssued'
    <3>1. \A c \in condemned' : c[2] <= issued[c[1]]
      BY <2>2, KeyFacts DEF CondemnedInv, RowsWereIssued
    <3> QED
      BY <2>1, <3>1 DEF CondemnedInv, RowsWereIssued
  <2>4. CondemnedStaysOut'
    BY <2>1, <2>2 DEF CondemnedInv, CondemnedStaysOut
  <2>5. ASSUME NEW u \in Tasks, pc'[u] = "apply" PROVE OnItsWay(u)'
    <3>1. OnItsWay(u) /\ pc[u] = "apply"
      BY <2>5 DEF CondemnedInv
    <3>2. <<acct[u], got[u]>> \notin condemned'
      BY <2>2, <3>1 DEF OnItsWay
    <3> QED
      BY <2>1, <3>1, <3>2 DEF OnItsWay
  <2> QED
    BY <2>3, <2>4, <2>5 DEF CondemnedInv, OnItsWay
<1> QED
  BY <1>1, <1>2

LEMMA StepCondemned ==
  ASSUME PoolInv, CondemnedInv, NEW t \in Tasks, Step(t)
  PROVE  CondemnedInv'
<1>1. CASE RefreshCall(t)
  BY <1>1, RefreshCallCondemned
<1>2. CASE Apply(t)
  BY <1>2, ApplyCondemned
<1>3. Own(t)
  BY StepIsOwn, StepTypes DEF PoolInv
<1>4. CASE MarkRefresh(t) \/ Invalidate(t) \/ CheckMark(t)
  <2>1. acct[t] \in Accounts
    BY <1>4 DEF MarkRefresh, Invalidate, CheckMark, At, PoolInv, CredentialsInHand, InHand, Locked
  <2>2. pc'[t] # "apply"
    BY <1>4, CondemnedTypes DEF MarkRefresh, RefreshFailed, Invalidate, CheckMark, Goto, Respond,
       Raise
  <2>3. UNCHANGED <<issued, acct, got>>
    BY <1>4 DEF MarkRefresh, Invalidate, CheckMark, cred
  <2>4. MarkInvalid(acct[t]) \/ UNCHANGED <<stored, valid, condemned>>
    BY <1>4 DEF MarkRefresh, Invalidate, CheckMark, rows, history
  <2>5. \A u \in Tasks : pc'[u] = "apply" => pc[u] = "apply"
    BY <1>3, <2>2 DEF Own
  <2> QED
    BY <2>1, <2>3, <2>4, <2>5, MarkCondemned
<1>5. CASE ~(RefreshCall(t) \/ Apply(t) \/ MarkRefresh(t) \/ Invalidate(t) \/ CheckMark(t))
  <2>1. UNCHANGED <<stored, valid, condemned, issued, got>>
    BY <1>5 DEF Step, Acquire, Choose, EnsureLock, EnsureRead, EnsureCheck, Call, RefreshLock,
       RefreshRead, Retry, CheckRead, rows, history
  <2>2. pc'[t] # "apply"
    BY <1>5, CondemnedTypes, AfterRefreshLabels DEF Step, Acquire, Choose, EnsureLock, EnsureRead,
       EnsureCheck, Call, RefreshLock, RefreshRead, Retry, CheckRead, Goto, Respond, Raise, PoolInv
  <2>3. \A u \in Tasks : pc'[u] = "apply" => pc[u] = "apply" /\ acct'[u] = acct[u]
    BY <1>3, <2>2 DEF Own
  <2> QED
    BY <2>1, <2>3 DEF CondemnedInv, RowsWereIssued, CondemnedStaysOut, OnItsWay
<1> QED
  BY <1>1, <1>2, <1>4, <1>5

\* A start writes the operator's seeds, and what was said of them is forgotten.
LEMMA StartCondemned ==
  ASSUME PoolInv, CondemnedInv, NEW w \in Workers, Start(w)
  PROVE  CondemnedInv'
<1>1. PICK seeded \in SUBSET Accounts :
         /\ stored' = [a \in Accounts |-> IF a \in seeded THEN 0 ELSE None]
         /\ valid' = seeded /\ condemned' = condemned \ (seeded \X {0})
         /\ pc' = [t \in Tasks |-> IF t \in {w} \X seeded THEN "checkRead" ELSE pc[t]]
  BY DEF Start
<1>2. UNCHANGED <<issued, acct, got>>
  BY DEF Start, cred
<1>3. \A a \in Accounts : issued[a] \in Nat
  BY KeyFacts, CondemnedTypes
<1>4. RowsWereIssued' /\ CondemnedStaysOut'
  BY <1>1, <1>2, <1>3 DEF CondemnedInv, RowsWereIssued, CondemnedStaysOut
<1>5. ASSUME NEW u \in Tasks, pc'[u] = "apply" PROVE OnItsWay(u)'
  <2>1. \A v \in Tasks : pc'[v] = "apply" => pc[v] = "apply"
    BY <1>1
  <2>2. OnItsWay(u) /\ pc[u] = "apply" /\ acct[u] \in Accounts /\ got[u] \in Keys
    BY <1>5, <2>1, CondemnedTypes DEF CondemnedInv
  <2>3. got[u] # stored'[acct[u]]
    BY <1>1, <2>2, KeyFacts DEF OnItsWay
  <2> QED
    BY <1>1, <1>2, <2>1, <2>2, <2>3 DEF OnItsWay
<1> QED
  BY <1>4, <1>5 DEF CondemnedInv, OnItsWay

\* A key that was marked invalid never counts as valid again, with any number of
\* requests, processes, failures of the store, cancellations and crashes, until the
\* operator seeds it anew (`apply_refresh` alone makes a row valid, and with the
\* key the upstream has just issued).
THEOREM CondemnedKeysStayOut == Spec => []CondemnedStaysOut
<1>1. Init => CondemnedInv
  BY DEF Init, CondemnedInv, RowsWereIssued, CondemnedStaysOut, OnItsWay
<1>2. ASSUME PoolInv, CondemnedInv, [Next]_vars PROVE CondemnedInv'
  <2>1. ASSUME NEW w \in Workers, Start(w) PROVE CondemnedInv'
    BY <1>2, <2>1, StartCondemned
  <2>2. ASSUME NEW w \in Workers, Serve(w) \/ StartupFails(w) \/ Crash(w) PROVE CondemnedInv'
    <3>1. UNCHANGED <<stored, valid, condemned, issued, acct, got>>
      BY <2>2 DEF Serve, StartupFails, Crash, Ends, rows, history, cred, taskVars
    <3>2. \A u \in Tasks : pc'[u] = "apply" => pc[u] = "apply"
      BY <2>2 DEF Serve, StartupFails, Crash, Ends, taskVars
    <3> QED
      BY <1>2, <3>1, <3>2 DEF CondemnedInv, RowsWereIssued, CondemnedStaysOut, OnItsWay
  <2>3. ASSUME NEW t \in Requests, NEW w \in Workers, Arrive(t, w) PROVE CondemnedInv'
    <3>1. UNCHANGED <<stored, valid, condemned, issued, got>>
      BY <2>3 DEF Arrive, rows, history
    <3>2. \A u \in Tasks : pc'[u] = "apply" => pc[u] = "apply" /\ acct'[u] = acct[u]
      BY <1>2, <2>3, CondemnedTypes DEF Arrive, Goto, At, cred
    <3> QED
      BY <1>2, <3>1, <3>2 DEF CondemnedInv, RowsWereIssued, CondemnedStaysOut, OnItsWay
  <2>4. ASSUME NEW t \in Tasks, Step(t) PROVE CondemnedInv'
    BY <1>2, <2>4, StepCondemned
  <2>5. ASSUME NEW t \in Requests, Cancel(t) PROVE CondemnedInv'
    <3>1. UNCHANGED <<stored, valid, condemned, issued, acct, got>>
      BY <2>5 DEF Cancel, rows, history, cred
    <3>2. \A u \in Tasks : pc'[u] = "apply" => pc[u] = "apply"
      BY <1>2, <2>5, CondemnedTypes, TaskFacts DEF Cancel, Respond, Goto
    <3> QED
      BY <1>2, <3>1, <3>2 DEF CondemnedInv, RowsWereIssued, CondemnedStaysOut, OnItsWay
  <2>6. CASE UNCHANGED vars
    BY <1>2, <2>6 DEF vars, CondemnedInv, RowsWereIssued, CondemnedStaysOut, OnItsWay
  <2> QED
    BY <1>2, <2>1, <2>2, <2>3, <2>4, <2>5, <2>6 DEF Next
<1>3. CondemnedInv => CondemnedStaysOut
  BY DEF CondemnedInv
<1> QED
  BY <1>1, <1>2, <1>3, PoolInvariant, PTL DEF Spec

-----------------------------------------------------------------------------
(* One start of a process, and no cancellation *)

\* A key the upstream has replaced is older than the newest of its account.
ReplacedIsOld == \A c \in replaced : c[2] < issued[c[1]]

\* No key at hand, in a row or in a snapshot is newer than the newest.
KnownKeysWereIssued ==
  /\ \A a \in Accounts : stored[a] # None => stored[a] <= issued[a]
  /\ \A t \in Tasks : \A c \in todo[t] : c[2] <= issued[c[1]]
  /\ \A t \in Tasks : acct[t] \in Accounts /\ key[t] \in Keys => key[t] <= issued[acct[t]]

\* What a refresh is about to store is the newest key.
GotIsNewest == \A t \in Tasks : pc[t] = "apply" => got[t] = issued[acct[t]]

\* While a process is up, a valid row whose key was replaced is in the hands of the
\* task that replaced it, which still has to store the new key or to condemn the
\* row; where the mark failed it is among the unmarked.
IsUp == \E w \in Workers : worker[w] # "down"
ReplacedIsInHand ==
  \A a \in valid :
    IsUp /\ <<a, stored[a]>> \in replaced \ unmarked =>
      \E t \in Tasks : pc[t] \in {"apply", "markRefresh"} /\ acct[t] = a

\* Nothing was replaced before the one start, and one process is up after it.
OneStart ==
  /\ \A v, w \in Workers : worker[v] # "down" /\ worker[w] # "down" => v = w
  /\ \/ starts = 0 /\ replaced = {} /\ \A w \in Workers : worker[w] = "down"
     \/ starts = MaxStarts

\* The inductive invariant behind ReplacedKeysLeaveThePool.
ReplacedInv == ReplacedIsOld /\ KnownKeysWereIssued /\ GotIsNewest /\ ReplacedIsInHand /\ OneStart

\* Two tasks at work on the same account in the one process are the same task.
LEMMA OneAtWork ==
  ASSUME PoolInv, ReplacedInv,
         NEW t \in Tasks, NEW u \in Tasks, pc[t] \in Locked, pc[u] \in Locked, acct[t] = acct[u]
  PROVE  t = u
<1>1. \A v, w \in Workers : worker[v] # "down" /\ worker[w] # "down" => v = w
  BY DEF ReplacedInv, OneStart
<1>2. home[t] \in Workers /\ worker[home[t]] # "down"
  BY DEF PoolInv, TasksHaveAProcess, Locked
<1>3. home[u] \in Workers /\ worker[home[u]] # "down"
  BY DEF PoolInv, TasksHaveAProcess, Locked
<1> QED
  BY <1>1, <1>2, <1>3 DEF PoolInv, LockDiscipline, Held

\* What every step of a task leaves alone: a row, the newest keys and what the
\* upstream has replaced change in two places only.
LEMMA RowsAndKeys ==
  ASSUME PoolInv, NEW t \in Tasks, Step(t)
  PROVE  /\ Apply(t) \/ UNCHANGED stored
         /\ RefreshCall(t) \/ UNCHANGED <<issued, replaced>>
         /\ unmarked \subseteq unmarked' /\ (RefreshCall(t) \/ Apply(t) => unmarked' = unmarked)
         /\ RefreshCall(t) \/ Apply(t) \/ UNCHANGED got
         /\ Apply(t) \/ valid' \subseteq valid
         /\ UNCHANGED <<worker, starts>>
  BY DEF Step, Acquire, Choose, EnsureLock, EnsureRead, EnsureCheck, Call, RefreshLock,
     RefreshRead, RefreshCall, Apply, MarkRefresh, Retry, Invalidate, CheckRead, CheckMark,
     MarkInvalid, rows, history, cred, workerVars

\* The newest key of an account only grows.
LEMMA IssuedGrows ==
  ASSUME PoolInv, NEW t \in Tasks, Step(t)
  PROVE  \A a \in Accounts : issued[a] \in Nat /\ issued'[a] \in Nat /\ issued[a] <= issued'[a]
<1>1. issued \in [Accounts -> Keys] /\ \A a \in Accounts : issued[a] \in Nat
  BY KeyFacts DEF PoolInv, TypeOK
<1>2. CASE RefreshCall(t)
  BY <1>1, <1>2 DEF RefreshCall
<1> QED
  BY <1>1, <1>2, RowsAndKeys

LEMMA StepIsOld ==
  ASSUME PoolInv, ReplacedInv, NEW t \in Tasks, Step(t)
  PROVE  ReplacedIsOld'
<1>1. \A c \in replaced : c[1] \in Accounts /\ c[2] \in Nat /\ c[2] < issued[c[1]]
  BY KeyFacts DEF PoolInv, TypeOK, ReplacedInv, ReplacedIsOld
<1>2. \A c \in replaced : c[2] < issued'[c[1]]
  BY <1>1, IssuedGrows
<1>3. CASE RefreshCall(t)
  <2>1. acct[t] \in Accounts /\ key[t] \in Keys /\ key[t] \in Nat
    BY <1>3, PoolKeyInHand, KeyFacts DEF RefreshCall, At, Locked, PoolInv
  <2>2. key[t] <= issued[acct[t]]
    BY <2>1 DEF ReplacedInv, KnownKeysWereIssued
  <2>3. replaced' = replaced \/ /\ replaced' = replaced \cup {<<acct[t], key[t]>>}
                                /\ issued'[acct[t]] = issued[acct[t]] + 1
    BY <1>3, <2>1 DEF RefreshCall, PoolInv, TypeOK
  <2>4. issued[acct[t]] \in Nat
    BY <2>1, IssuedGrows
  <2>5. key[t] < issued[acct[t]] + 1
    BY <2>1, <2>2, <2>4
  <2> QED
    BY <1>2, <2>3, <2>5 DEF ReplacedIsOld
<1> QED
  BY <1>2, <1>3, RowsAndKeys DEF ReplacedIsOld

LEMMA StepGot ==
  ASSUME PoolInv, ReplacedInv, NEW t \in Tasks, Step(t)
  PROVE  GotIsNewest'
<1>1. Own(t)
  BY StepIsOwn, StepTypes DEF PoolInv
<1>2. /\ got \in [Tasks -> Keys \cup {None}] /\ issued \in [Accounts -> Keys]
      /\ pc \in [Tasks -> PCs]
  BY DEF PoolInv, TypeOK
<1>3. CASE RefreshCall(t)
  <2>1. pc[t] = "refreshCall" /\ acct[t] \in Accounts /\ acct' = acct
    BY <1>3, PoolKeyInHand DEF RefreshCall, At, Locked, PoolInv, cred
  <2>2. ASSUME NEW u \in Tasks \ {t}, pc'[u] = "apply" PROVE got'[u] = issued'[acct'[u]]
    <3>1. pc[u] = "apply" /\ got'[u] = got[u] /\ acct[u] \in Accounts
      BY <1>1, <1>2, <1>3, <2>2, PoolKeyInHand DEF Own, RefreshCall, Locked, PoolInv
    <3>2. acct[u] # acct[t]
      BY <2>1, <3>1, OneAtWork DEF Locked
    <3>3. issued'[acct[u]] = issued[acct[u]]
      BY <1>2, <1>3, <2>1, <3>1, <3>2 DEF RefreshCall
    <3> QED
      BY <2>1, <3>1, <3>3 DEF ReplacedInv, GotIsNewest
  <2>3. ASSUME pc'[t] = "apply" PROVE got'[t] = issued'[acct'[t]]
    BY <1>2, <1>3, <2>1, <2>3 DEF RefreshCall, Goto
  <2> QED
    BY <2>2, <2>3 DEF GotIsNewest
<1>4. CASE ~RefreshCall(t)
  <2>1. \A u \in Tasks : pc'[u] = "apply" => u # t /\ pc[u] = "apply" /\ acct'[u] = acct[u]
    <3>1. pc'[t] # "apply"
      BY <1>2, <1>4, AfterRefreshLabels DEF Step, Acquire, Choose, EnsureLock, EnsureRead,
         EnsureCheck, Call, RefreshLock, RefreshRead, Apply, MarkRefresh, Retry, Invalidate,
         CheckRead, CheckMark, Goto, Respond, Raise, RefreshFailed, PoolInv
    <3> QED
      BY <1>1, <3>1 DEF Own
  <2>2. \A u \in Tasks \ {t} : got'[u] = got[u]
    BY <1>2, <1>4, RowsAndKeys DEF Apply
  <2>3. issued' = issued
    BY <1>4, RowsAndKeys
  <2> QED
    BY <2>1, <2>2, <2>3 DEF ReplacedInv, GotIsNewest
<1> QED
  BY <1>3, <1>4

LEMMA StepKnown ==
  ASSUME PoolInv, ReplacedInv, NEW t \in Tasks, Step(t)
  PROVE  KnownKeysWereIssued'
<1>1. Own(t)
  BY StepIsOwn, StepTypes DEF PoolInv
<1>2. /\ stored \in [Accounts -> Keys \cup {None}] /\ got \in [Tasks -> Keys \cup {None}]
      /\ todo \in [Tasks -> SUBSET (Accounts \X Keys)] /\ valid \subseteq Accounts
      /\ acct \in [Tasks -> Accounts \cup {None}]
      /\ key \in [Tasks -> Keys \cup {CallerKey, None}]
      /\ pc \in [Tasks -> PCs]
  BY DEF PoolInv, TypeOK
<1>3. /\ \A a \in Accounts : stored[a] # None => stored[a] <= issued[a]
      /\ \A u \in Tasks : \A c \in todo[u] : c[2] <= issued[c[1]]
      /\ \A u \in Tasks : acct[u] \in Accounts /\ key[u] \in Keys => key[u] <= issued[acct[u]]
  BY DEF ReplacedInv, KnownKeysWereIssued
<1>4. \A a \in Accounts : issued[a] \in Nat /\ issued'[a] \in Nat /\ issued[a] <= issued'[a]
  BY IssuedGrows
<1>5. \A a \in Accounts : \A k \in Keys : k <= issued[a] => k <= issued'[a]
  BY <1>4, KeyFacts
<1>6. CASE Apply(t)
  <2>1. /\ pc[t] = "apply" /\ acct[t] \in Accounts /\ got[t] = issued[acct[t]]
        /\ got[t] \in Keys /\ issued' = issued
    <3>1. pc[t] = "apply"
      BY <1>6 DEF Apply, At
    <3> QED
      BY <1>6, <3>1 DEF Apply, ReplacedInv, GotIsNewest, PoolInv, CredentialsInHand,
         InHand, Locked
  <2>2. got[t] <= issued[acct[t]]
    BY <1>4, <2>1
  <2>3. \A a \in Accounts : stored'[a] = stored[a] \/ (a = acct[t] /\ stored'[a] = got[t])
    BY <1>2, <1>6, <2>1 DEF Apply, rows
  <2>4. \A u \in Tasks : key'[u] = key[u] \/ (u = t /\ key'[u] = got[t])
    BY <1>2, <1>6 DEF Apply
  <2>5. acct' = acct /\ todo' = todo
    BY <1>6 DEF Apply
  <2>6. \A a \in Accounts : stored'[a] # None => stored'[a] <= issued'[a]
    BY <1>3, <2>1, <2>2, <2>3
  <2>7. \A u \in Tasks : acct'[u] \in Accounts /\ key'[u] \in Keys => key'[u] <= issued'[acct'[u]]
    BY <1>3, <2>1, <2>2, <2>4, <2>5
  <2>8. \A u \in Tasks : \A c \in todo'[u] : c[2] <= issued'[c[1]]
    BY <1>3, <2>1, <2>5
  <2> QED
    BY <2>6, <2>7, <2>8 DEF KnownKeysWereIssued
<1>7. CASE ~Apply(t)
  <2>1. stored' = stored
    BY <1>7, RowsAndKeys
  <2>2. \A a \in Accounts : stored'[a] # None => stored'[a] <= issued'[a]
    BY <1>2, <1>3, <1>5, <2>1
  <2>3. \A u \in Tasks : \A c \in todo'[u] :
          c \in todo[u] \/ \E a \in valid : c = <<a, stored[a]>>
    BY <1>2, <1>7 DEF Step, Acquire, Choose, EnsureLock, EnsureRead, EnsureCheck, Call,
       RefreshLock, RefreshRead, RefreshCall, MarkRefresh, Retry, Invalidate, CheckRead, CheckMark
  <2>4. \A a \in valid : a \in Accounts /\ stored[a] \in Keys /\ stored[a] <= issued[a]
    BY <1>2, <1>3 DEF PoolInv, ValidRowsExist
  <2>5. \A u \in Tasks : \A c \in todo'[u] : c[2] <= issued'[c[1]]
    <3>1. ASSUME NEW u \in Tasks, NEW c \in todo[u] PROVE c[2] <= issued'[c[1]]
      <4>1. c[1] \in Accounts /\ c[2] \in Keys
        BY <1>2
      <4> QED
        BY <1>3, <1>5, <4>1
    <3> QED
      BY <1>5, <2>3, <2>4, <3>1
  <2>6. \/ acct'[t] = acct[t] /\ key'[t] = key[t]
        \/ acct'[t] = acct[t] /\ key'[t] = stored[acct[t]]
        \/ \E c \in todo[t] : acct'[t] = c[1] /\ key'[t] = c[2]
        \/ t \in Checkers /\ acct'[t] = t[2] /\ key'[t] = stored[t[2]]
    <3>1. CASE CheckRead(t)
      <4>1. t \in Checkers
        BY <3>1 DEF CheckRead, At, PoolInv, CredentialsInHand, InHand
      <4> QED
        BY <1>2, <3>1, <4>1 DEF CheckRead
    <3> QED
      BY <1>2, <1>7, <3>1 DEF Step, Acquire, Choose, EnsureLock, EnsureRead, EnsureCheck, Call,
         RefreshLock, RefreshRead, RefreshCall, MarkRefresh, Retry, Invalidate, CheckMark, cred
  <2>7. acct'[t] \in Accounts /\ key'[t] \in Keys => key'[t] <= issued[acct'[t]]
    BY <1>2, <1>3, <2>6, KeyFacts
  <2>8. ASSUME NEW u \in Tasks, acct'[u] \in Accounts, key'[u] \in Keys
        PROVE  key'[u] <= issued'[acct'[u]]
    <3>1. CASE u = t
      BY <1>5, <2>7, <2>8, <3>1
    <3>2. CASE u # t
      BY <1>1, <1>3, <1>5, <2>8, <3>2 DEF Own
    <3> QED
      BY <3>1, <3>2
  <2> QED
    BY <2>2, <2>5, <2>8 DEF KnownKeysWereIssued
<1> QED
  BY <1>6, <1>7

LEMMA StepReplacedIsInHand ==
  ASSUME PoolInv, ReplacedInv, NEW t \in Tasks, Step(t)
  PROVE  ReplacedIsInHand'
<1> DEFINE InHands(u, a) == pc[u] \in {"apply", "markRefresh"} /\ acct[u] = a
<1> SUFFICES ASSUME NEW a \in valid', IsUp', <<a, stored'[a]>> \in replaced' \ unmarked'
             PROVE  \E u \in Tasks : InHands(u, a)'
  BY DEF ReplacedIsInHand
<1>1. Own(t)
  BY StepIsOwn, StepTypes DEF PoolInv
<1>2. /\ stored \in [Accounts -> Keys \cup {None}] /\ valid \subseteq Accounts
      /\ pc \in [Tasks -> PCs] /\ acct \in [Tasks -> Accounts \cup {None}]
  BY DEF PoolInv, TypeOK
<1>0. IsUp /\ unmarked \subseteq unmarked' /\ <<a, stored'[a]>> \in replaced' \ unmarked
  BY RowsAndKeys DEF IsUp
<1> USE DEF At, Goto
<1>3. ASSUME InHands(t, a), ~Apply(t) PROVE FALSE
  <2>1. MarkRefresh(t)
    BY <1>3 DEF Step, Acquire, Choose, EnsureLock, EnsureRead, EnsureCheck, Call, RefreshLock,
       RefreshRead, RefreshCall, Retry, Invalidate, CheckRead, CheckMark
  <2>2. acct[t] = a /\ stored' = stored /\ replaced' = replaced
    BY <1>3, <2>1 DEF MarkRefresh, MarkInvalid, rows
  <2>3. CASE MarkInvalid(acct[t])
    BY <2>2, <2>3 DEF MarkInvalid
  <2>4. CASE unmarked' = unmarked \cup (Row(acct[t]) \cap replaced)
    <3>1. <<a, stored[a]>> \in Row(a)
      BY <1>0, <2>2 DEF Row, PoolInv, TypeOK
    <3> QED
      BY <1>0, <2>2, <2>4, <3>1
  <2> QED
    BY <2>1, <2>3, <2>4 DEF MarkRefresh
<1>4. ASSUME a \in valid, <<a, stored[a]>> \in replaced, ~Apply(t)
      PROVE  \E u \in Tasks : InHands(u, a)'
  <2>1. PICK u \in Tasks : InHands(u, a)
    <3>1. stored'[a] = stored[a]
      BY <1>4, RowsAndKeys
    <3> QED
      BY <1>0, <1>4, <3>1 DEF ReplacedInv, ReplacedIsInHand
  <2>2. u # t
    BY <1>3, <1>4, <2>1
  <2> QED
    BY <1>1, <2>1, <2>2 DEF Own
<1>5. CASE RefreshCall(t)
  <2>1. valid' = valid /\ stored' = stored
    BY <1>5 DEF RefreshCall, rows
  <2>2. CASE <<a, stored[a]>> \in replaced
    BY <1>4, <1>5, <2>1, <2>2 DEF RefreshCall, Apply
  <2>3. CASE <<a, stored[a]>> \notin replaced
    <3>1. a = acct[t] /\ pc'[t] = "apply" /\ acct' = acct
      BY <1>2, <1>5, <2>1, <2>3 DEF RefreshCall, cred
    <3> QED
      BY <3>1
  <2> QED
    BY <2>2, <2>3
<1>6. CASE Apply(t)
  <2>1. /\ pc[t] = "apply" /\ acct[t] \in Accounts /\ got[t] = issued[acct[t]]
        /\ issued[acct[t]] \in Nat
        /\ replaced' = replaced /\ acct' = acct
    <3>1. pc[t] = "apply" /\ replaced' = replaced /\ acct' = acct
      BY <1>6 DEF Apply, history
    <3> QED
      BY <3>1, IssuedGrows DEF ReplacedInv, GotIsNewest, PoolInv, CredentialsInHand, InHand, Locked
  <2>2. CASE stored' = stored /\ valid' = valid
    <3>1. PICK u \in Tasks : InHands(u, a)
      BY <1>0, <2>1, <2>2 DEF ReplacedInv, ReplacedIsInHand
    <3>2. CASE u # t
      BY <1>1, <3>1, <3>2 DEF Own
    <3>3. CASE u = t
      <4>1. stored[a] # None
        BY <2>2 DEF PoolInv, ValidRowsExist
      <4>2. pc'[t] = "markRefresh"
        <5>1. a = acct[t]
          BY <3>1, <3>3
        <5>2. CASE stored' = [stored EXCEPT ![acct[t]] = got[t]]
          <6>1. <<a, got[t]>> \in replaced
            BY <1>2, <2>1, <2>2, <5>1, <5>2
          <6>2. got[t] < issued[a]
            BY <6>1 DEF ReplacedInv, ReplacedIsOld
          <6> QED
            BY <2>1, <5>1, <6>2
        <5> QED
          BY <1>2, <1>6, <4>1, <5>1, <5>2 DEF Apply
      <4> QED
        BY <2>1, <3>1, <3>3, <4>2
    <3> QED
      BY <3>2, <3>3
  <2>3. CASE /\ stored' = [stored EXCEPT ![acct[t]] = got[t]]
             /\ valid' = valid \cup {acct[t]}
    <3>1. CASE a = acct[t]
      <4>1. <<a, got[t]>> \in replaced
        BY <1>2, <2>1, <2>3, <3>1
      <4>2. got[t] < issued[a]
        BY <4>1 DEF ReplacedInv, ReplacedIsOld
      <4> QED
        BY <2>1, <3>1, <4>2
    <3>2. CASE a # acct[t]
      <4>1. a \in valid /\ <<a, stored[a]>> \in replaced
        BY <1>2, <2>1, <2>3, <3>2
      <4>2. PICK u \in Tasks : InHands(u, a)
        BY <1>0, <2>3, <3>2, <4>1, RowsAndKeys DEF ReplacedInv, ReplacedIsInHand, PoolInv, TypeOK
      <4> QED
        BY <1>1, <3>2, <4>2 DEF Own
    <3> QED
      BY <3>1, <3>2
  <2> QED
    BY <1>6, <2>2, <2>3 DEF Apply, rows
<1>7. CASE ~RefreshCall(t) /\ ~Apply(t)
  BY <1>4, <1>7, RowsAndKeys
<1> QED
  BY <1>5, <1>6, <1>7

\* The one start writes the seeds before any key was replaced.
LEMMA StartReplaced ==
  ASSUME PoolInv, ReplacedInv, MaxStarts = 1, NEW w \in Workers, Start(w)
  PROVE  ReplacedInv'
<1>1. /\ starts < 1 /\ starts' = starts + 1 /\ starts \in 0..1
      /\ UNCHANGED <<issued, replaced, todo, acct, key, got>>
  BY DEF Start, PoolInv, TypeOK, cred
<1>2. starts = 0 /\ starts' = MaxStarts /\ replaced = {} /\ replaced' = {}
  BY <1>1 DEF ReplacedInv, OneStart
<1>3. \A t \in Tasks : pc'[t] = "apply" => pc[t] = "apply"
  BY DEF Start, PoolInv, TypeOK
<1>4. \A a \in Accounts : stored'[a] # None => stored'[a] = 0
  BY DEF Start
<1>5. \A a \in Accounts : issued[a] \in Nat
  BY KeyFacts DEF PoolInv, TypeOK
<1>6. KnownKeysWereIssued'
  BY <1>1, <1>4, <1>5 DEF ReplacedInv, KnownKeysWereIssued
<1>7. GotIsNewest'
  BY <1>1, <1>3 DEF ReplacedInv, GotIsNewest
<1>8. \A v, u \in Workers : worker'[v] # "down" /\ worker'[u] # "down" => v = u
  BY <1>2 DEF Start, ReplacedInv, OneStart, PoolInv, TypeOK
<1> QED
  BY <1>1, <1>2, <1>6, <1>7, <1>8 DEF ReplacedInv, ReplacedIsOld, ReplacedIsInHand, OneStart

\* A process that is up has had its one start, so it does not crash.
LEMMA NextReplaced ==
  ASSUME MaxStarts = 1, MayCancel = FALSE, PoolInv, ReplacedInv, [Next]_vars
  PROVE  ReplacedInv'
<1>1. ASSUME NEW w \in Workers, Start(w) PROVE ReplacedInv'
  BY <1>1, StartReplaced
<1>2. ASSUME NEW w \in Workers, Serve(w) PROVE ReplacedInv'
  <2>1. /\ UNCHANGED <<starts, stored, valid, issued, replaced, condemned, unmarked, pc, todo, acct, key, got>>
        /\ starts = MaxStarts
        /\ \A v \in Workers : worker'[v] # "down" => worker[v] # "down"
    BY <1>2 DEF Serve, rows, history, taskVars, ReplacedInv, OneStart, PoolInv, TypeOK
  <2> QED
    BY <2>1 DEF ReplacedInv, ReplacedIsOld, KnownKeysWereIssued, GotIsNewest, ReplacedIsInHand,
       OneStart, IsUp
<1>8. ASSUME NEW w \in Workers, StartupFails(w) PROVE ReplacedInv'
  <2>1. /\ worker' = [worker EXCEPT ![w] = "down"] /\ worker[w] = "checking"
        /\ UNCHANGED <<starts, stored, valid, issued, replaced, unmarked, todo, acct, key, got>>
        /\ \A u \in Tasks : pc'[u] = "apply" => pc[u] = "apply"
    BY <1>8 DEF StartupFails, Ends, rows, history, cred
  <2>2. starts = MaxStarts /\ \A v \in Workers : worker'[v] = "down"
    BY <2>1 DEF ReplacedInv, OneStart, PoolInv, TypeOK
  <2> QED
    BY <2>1, <2>2 DEF ReplacedInv, ReplacedIsOld, KnownKeysWereIssued, GotIsNewest, ReplacedIsInHand,
       OneStart, IsUp
<1>3. ASSUME NEW w \in Workers, Crash(w) PROVE FALSE
  BY <1>3 DEF Crash, ReplacedInv, OneStart
<1>4. ASSUME NEW t \in Requests, NEW w \in Workers, Arrive(t, w) PROVE ReplacedInv'
  <2>1. /\ UNCHANGED <<starts, stored, valid, issued, replaced, condemned, unmarked, todo, got, worker>>
        /\ pc[t] = "idle" /\ pc'[t] \in {"acquire", "call"}
        /\ \A u \in Tasks \ {t} : pc'[u] = pc[u] /\ acct'[u] = acct[u] /\ key'[u] = key[u]
        /\ (acct'[t] = acct[t] /\ key'[t] = key[t]) \/ key'[t] = CallerKey
    BY <1>4, TaskFacts DEF Arrive, At, Goto, workerVars, rows, history, cred, PoolInv, TypeOK
  <2>2. KnownKeysWereIssued'
    <3>1. ASSUME NEW u \in Tasks, acct'[u] \in Accounts, key'[u] \in Keys
          PROVE  key'[u] <= issued'[acct'[u]]
      <4>1. acct'[u] = acct[u] /\ key'[u] = key[u]
        BY <2>1, <3>1, KeyFacts
      <4> QED
        BY <2>1, <3>1, <4>1 DEF ReplacedInv, KnownKeysWereIssued
    <3> QED
      BY <2>1, <3>1 DEF ReplacedInv, KnownKeysWereIssued
  <2>3. GotIsNewest' /\ ReplacedIsInHand'
    BY <2>1 DEF ReplacedInv, GotIsNewest, ReplacedIsInHand, IsUp
  <2>4. ReplacedIsOld' /\ OneStart'
    BY <2>1 DEF ReplacedInv, ReplacedIsOld, OneStart
  <2> QED
    BY <2>2, <2>3, <2>4 DEF ReplacedInv
<1>5. ASSUME NEW t \in Tasks, Step(t) PROVE ReplacedInv'
  <2>1. OneStart'
    BY <1>5, StepIsOwn, StepTypes, RowsAndKeys
       DEF PoolInv, TasksHaveAProcess, Own, ReplacedInv, OneStart
  <2> QED
    BY <1>5, <2>1, StepIsOld, StepGot, StepKnown, StepReplacedIsInHand DEF ReplacedInv
<1>6. ASSUME NEW t \in Requests, Cancel(t) PROVE FALSE
  BY <1>6 DEF Cancel
<1>7. CASE UNCHANGED vars
  BY <1>7 DEF vars, ReplacedInv, ReplacedIsOld, KnownKeysWereIssued, GotIsNewest,
     ReplacedIsInHand, OneStart, IsUp
<1> QED
  BY <1>1, <1>2, <1>3, <1>4, <1>5, <1>6, <1>7, <1>8 DEF Next

\* A refresh is stored or its row is condemned: with one start of one process
\* and no cancellation, an account nobody is refreshing holds no key the upstream
\* has replaced, however many refreshes, checks and invalidations interleave and
\* whichever store operations raise, unless it was the mark itself that raised
\* (`_refresh_and_store`: apply_refresh or the mark).
THEOREM ReplacedKeysAreTakenOut ==
  ASSUME MaxStarts = 1, MayCancel = FALSE
  PROVE  Spec => []ReplacedKeysLeaveThePool
<1>1. Init => ReplacedInv
  BY KeyFacts, TaskFacts DEF Init, ReplacedInv, ReplacedIsOld, KnownKeysWereIssued, GotIsNewest,
     ReplacedIsInHand, OneStart
<1>2. PoolInv /\ ReplacedInv /\ [Next]_vars => ReplacedInv'
  BY NextReplaced
<1>3. PoolInv /\ ReplacedInv => ReplacedKeysLeaveThePool
  <2> SUFFICES ASSUME PoolInv, ReplacedInv, IsUp, NEW a \in valid,
                      <<a, stored[a]>> \in replaced \ unmarked
               PROVE  \E w \in Workers : lock[w][a] # None
    BY DEF ReplacedKeysLeaveThePool, IsUp
  <2>1. PICK t \in Tasks : pc[t] \in {"apply", "markRefresh"} /\ acct[t] = a
    BY DEF ReplacedInv, ReplacedIsInHand
  <2>2. home[t] \in Workers /\ lock[home[t]][a] = t
    BY <2>1, Located DEF PoolInv, LockDiscipline, Held, Locked
  <2> QED
    BY <2>2, TaskFacts
<1> QED
  BY <1>1, <1>2, <1>3, PoolInvariant, PTL DEF Spec
=============================================================================
