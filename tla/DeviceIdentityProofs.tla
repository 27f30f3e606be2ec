------------------------- MODULE DeviceIdentityProofs -------------------------
(***************************************************************************)
(* For any number of tasks, devices and crashes, the locks of the SDK's    *)
(* identity are held exactly where they should be, nothing is requested    *)
(* that is still valid, and a device that was found in the file stays the  *)
(* device.                                                                 *)
(*                                                                         *)
(* The discipline of the locks is inductive once it is known what a task   *)
(* has in hand (InHand).  The second look under a lock decides about what  *)
(* is requested later: RenewalIsDue carries its answer to the request,     *)
(* past the clock and past the steps of other tasks, which the lock keeps  *)
(* from everything but a look that finds what is there.                    *)
(***************************************************************************)
EXTENDS DeviceIdentity, TLAPS

USE BoundsAssumption, IdentityAssumption

-----------------------------------------------------------------------------

\* What a task has read or made by the time it uses it.
HandOf(t) ==
    /\ pc[t] \in {"save", "qimei", "qimeiLock", "qimeiCheck", "qimeiRequest"} =>
          device \in Devices
    /\ pc[t] \in {"save", "adopt"} => local[t] \in Devices
    /\ pc[t] = "load" => deviceFile # None
    /\ pc[t] \in {"qimeiRequest", "sessionSave", "sessionWrite"} => local[t] \in Times
    /\ pc[t] \in {"qimeiWrite", "sessionWrite"} => cacheData # None

InHand == \A t \in Tasks : HandOf(t)

IdentityInv == TypeOK /\ LockDiscipline /\ InHand

-----------------------------------------------------------------------------

\* What _ensure_loaded returns is a cache.
LEMMA LoadedTyped == ASSUME TypeOK PROVE Loaded \in Caches
  BY DEF TypeOK, Loaded, Caches, NoCache

\* The invariant holds initially.
LEMMA InitInv == Init => IdentityInv
<1> SUFFICES ASSUME Init PROVE IdentityInv
  OBVIOUS
<1>1. cacheFile \in Caches \cup {None}
  BY DEF Init, Caches, Qimeis, Times, Devices
<1>2. TypeOK
  BY <1>1 DEF Init, TypeOK, Devices, Times, Places
<1>3. LockDiscipline /\ InHand
  BY DEF Init, LockDiscipline, InHand, HandOf, InSession, InQimei
<1> QED
  BY <1>2, <1>3 DEF IdentityInv

\* The part of a step that ends a task's request keeps the types of what it changes.
LEMMA FailsTyped ==
  ASSUME TypeOK, NEW t \in Tasks, Fails(t)
  PROVE  /\ {storeLock', qimeiLock', sessionLock'} \subseteq Tasks \cup {None}
         /\ pc' \in [Tasks -> Places]
         /\ refreshing' \in [Tasks -> BOOLEAN]
         /\ local' \in [Tasks -> Devices \cup Times \cup {None}]
  BY DEF TypeOK, Fails, Goes, Keeps, Places

\* Every step keeps the types.
LEMMA NextTyped == TypeOK /\ InHand /\ [Next]_vars => TypeOK'
<1> SUFFICES ASSUME TypeOK, InHand, [Next]_vars PROVE TypeOK'
  OBVIOUS
<1>0. Loaded \in Caches
  BY LoadedTyped
<1> USE DEF TypeOK, worldVars, fileVars, memVars, lockVars, taskVars
<1> USE DEF Goes, Keeps, Places, InSession, InQimei, InDevice
<1>1. ASSUME NEW t \in Tasks, Start(t) PROVE TypeOK'
  BY <1>1 DEF Start
<1>2. ASSUME NEW t \in Tasks, EnsureFast(t) \/ EnsureLock(t) \/ EnsureCheck(t) PROVE TypeOK'
  <2>1. CASE EnsureFast(t)
    BY <1>0, <2>1 DEF EnsureFast, Look
  <2>2. CASE EnsureLock(t)
    BY <2>2 DEF EnsureLock
  <2>3. CASE EnsureCheck(t)
    BY <1>0, <2>3 DEF EnsureCheck, Look, SavedToday
  <2> QED
    BY <1>2, <2>1, <2>2, <2>3
<1>3. ASSUME NEW t \in Tasks, GetDevice(t) \/ Create(t) \/ Save(t) \/ Load(t) \/ Adopt(t)
      PROVE  TypeOK'
  <2>1. CASE GetDevice(t)
    BY <2>1 DEF GetDevice, AfterDevice
  <2>2. CASE Create(t)
    BY <2>2 DEF Create, Devices
  <2>3. CASE Save(t)
    BY <2>3 DEF Save, InHand, HandOf, AfterDevice
  <2>4. CASE Load(t)
    BY <2>4, FailsTyped DEF Load
  <2>5. CASE Adopt(t)
    BY <2>5 DEF Adopt, InHand, HandOf, AfterDevice
  <2> QED
    BY <1>3, <2>1, <2>2, <2>3, <2>4, <2>5
<1>4. ASSUME NEW t \in Tasks,
             QimeiFast(t) \/ QimeiLock(t) \/ QimeiCheck(t) \/ QimeiRequest(t)
             \/ QimeiSave(t) \/ QimeiWrite(t)
      PROVE  TypeOK'
  <2>1. CASE QimeiFast(t) \/ QimeiLock(t)
    BY <2>1 DEF QimeiFast, QimeiLock, AfterQimei
  <2>2. CASE QimeiCheck(t)
    BY <1>0, <2>2 DEF QimeiCheck, AfterQimei, Caches
  <2>3. CASE QimeiRequest(t)
    BY <2>3, FailsTyped DEF QimeiRequest, InHand, HandOf, Qimeis
  <2>4. CASE QimeiSave(t)
    BY <1>0, <2>4 DEF QimeiSave, StoreSet, Caches
  <2>5. CASE QimeiWrite(t)
    BY <2>5 DEF QimeiWrite, StoreWritten, AfterQimei
  <2> QED
    BY <1>4, <2>1, <2>2, <2>3, <2>4, <2>5
<1>5. ASSUME NEW t \in Tasks, SessionRequest(t) \/ SessionSave(t) \/ SessionWrite(t)
      PROVE  TypeOK'
  <2>1. CASE SessionRequest(t)
    BY <2>1, FailsTyped DEF SessionRequest
  <2>2. CASE SessionSave(t)
    BY <1>0, <2>2 DEF SessionSave, StoreSet, InHand, HandOf, Caches
  <2>3. CASE SessionWrite(t)
    BY <2>3 DEF SessionWrite, StoreWritten, InHand, HandOf
  <2> QED
    BY <1>5, <2>1, <2>2, <2>3
<1>6. ASSUME NEW t \in Tasks, Cancel(t) PROVE TypeOK'
  <2>1. generated' \in 0 .. MaxDevices /\ device' \in Devices \cup {None}
    BY <1>6 DEF Cancel, Devices
  <2>2. cacheData' \in Caches \cup {None}
    BY <1>0, <1>6 DEF Cancel, InHand, HandOf, Caches
  <2> QED
    BY <1>6, <2>1, <2>2, FailsTyped DEF Cancel
<1>7. CASE Crash
  BY <1>7 DEF Crash
<1>8. CASE Tick
  BY <1>8 DEF Tick, Times
<1>9. CASE UNCHANGED vars
  BY <1>9 DEF vars
<1> QED
  BY <1>1, <1>2, <1>3, <1>4, <1>5, <1>6, <1>7, <1>8, <1>9 DEF Next, Step

-----------------------------------------------------------------------------
(* The locks *)

\* A step of t leaves all other tasks alone.
Own(t) ==
    \A u \in Tasks \ {t} :
        pc'[u] = pc[u] /\ refreshing'[u] = refreshing[u] /\ local'[u] = local[u]

\* t may take a free lock and give back its own; wasIn and isIn say whether it is in the part
\* of the code that the lock protects, before the step and after it.
Locking(t, lock, newLock, wasIn, isIn) ==
    \/ newLock = lock /\ (wasIn <=> isIn)
    \/ lock = None /\ newLock = t /\ isIn
    \/ lock = t /\ newLock = None /\ ~isIn

\* A step of t does so with all three locks.
LocksAside(t) ==
    /\ Own(t)
    /\ Locking(t, sessionLock, sessionLock', pc[t] \in InSession \/ refreshing[t],
                                             pc'[t] \in InSession \/ refreshing'[t])
    /\ Locking(t, qimeiLock, qimeiLock', pc[t] \in InQimei, pc'[t] \in InQimei)
    /\ Locking(t, storeLock, storeLock', pc[t] \in {"qimeiWrite", "sessionWrite"},
                                         pc'[t] \in {"qimeiWrite", "sessionWrite"})

\* The discipline follows.
LEMMA LocksKept ==
  ASSUME LockDiscipline, NEW t \in Tasks, LocksAside(t)
  PROVE  LockDiscipline'
  BY DEF LockDiscipline, LocksAside, Own, Locking

\* A task that fails frees what it holds.
LEMMA FailsAside ==
  ASSUME IdentityInv, NEW t \in Tasks, Fails(t)
  PROVE  LocksAside(t)
  BY DEF IdentityInv, TypeOK, LockDiscipline, Fails, Goes, Keeps, LocksAside, Own, Locking,
         InSession, InQimei

\* Every step of a task handles the locks so.
LEMMA StepAside ==
  ASSUME IdentityInv, NEW t \in Tasks, Start(t) \/ Step(t) \/ Cancel(t)
  PROVE  LocksAside(t)
<1> USE DEF IdentityInv, TypeOK, LockDiscipline, LocksAside, Own, Locking, Goes, Keeps,
            InSession, InQimei, lockVars
<1>1. CASE Start(t)
  BY <1>1 DEF Start
<1>2. CASE EnsureFast(t) \/ EnsureLock(t) \/ EnsureCheck(t)
  <2>1. CASE EnsureFast(t)
    BY <2>1 DEF EnsureFast
  <2>2. CASE EnsureLock(t)
    BY <2>2 DEF EnsureLock
  <2>3. CASE EnsureCheck(t)
    <3>1. PICK saved \in BOOLEAN :
             /\ sessionLock' = IF saved THEN None ELSE sessionLock
             /\ refreshing' = [refreshing EXCEPT ![t] = ~saved]
      BY <2>3 DEF EnsureCheck, SavedToday
    <3> QED
      BY <2>3, <3>1 DEF EnsureCheck
  <2> QED
    BY <1>2, <2>1, <2>2, <2>3
<1>3. CASE GetDevice(t) \/ Create(t) \/ Save(t) \/ Adopt(t)
  BY <1>3 DEF GetDevice, Create, Save, Adopt, AfterDevice
<1>4. CASE Load(t)
  BY <1>4, FailsAside DEF Load
<1>5. CASE QimeiFast(t) \/ QimeiLock(t) \/ QimeiCheck(t)
  BY <1>5 DEF QimeiFast, QimeiLock, QimeiCheck, AfterQimei
<1>6. CASE QimeiRequest(t)
  BY <1>6, FailsAside DEF QimeiRequest
<1>7. CASE QimeiSave(t) \/ QimeiWrite(t)
  BY <1>7 DEF QimeiSave, StoreSet, QimeiWrite, StoreWritten, AfterQimei
<1>8. CASE SessionRequest(t)
  BY <1>8, FailsAside DEF SessionRequest
<1>9. CASE SessionSave(t) \/ SessionWrite(t)
  BY <1>9 DEF SessionSave, StoreSet, SessionWrite, StoreWritten
<1>10. CASE Cancel(t)
  BY <1>10, FailsAside DEF Cancel
<1> QED
  BY <1>1, <1>2, <1>3, <1>4, <1>5, <1>6, <1>7, <1>8, <1>9, <1>10 DEF Step

-----------------------------------------------------------------------------
(* What tasks have in hand *)

\* Every step gives a task with a device in memory, a device file, a cache again.
LEMMA NothingIsForgotten ==
  ASSUME IdentityInv, TypeOK', NEW t \in Tasks, Start(t) \/ Step(t) \/ Cancel(t)
  PROVE  /\ device \in Devices => device' \in Devices
         /\ deviceFile # None => deviceFile' # None
         /\ cacheData # None => cacheData' # None
<1>1. Loaded \in Caches
  BY LoadedTyped DEF IdentityInv
<1> USE DEF IdentityInv, TypeOK, InHand, HandOf, fileVars, memVars
<1>2. CASE Start(t)
  BY <1>2 DEF Start
<1>3. CASE EnsureFast(t) \/ EnsureLock(t) \/ EnsureCheck(t)
  BY <1>1, <1>3 DEF EnsureFast, EnsureLock, EnsureCheck, Look
<1>4. CASE GetDevice(t) \/ Create(t) \/ Save(t) \/ Load(t) \/ Adopt(t)
  BY <1>4 DEF GetDevice, Create, Save, Load, Adopt, Devices
<1>5. CASE QimeiFast(t) \/ QimeiLock(t) \/ QimeiCheck(t) \/ QimeiRequest(t)
  BY <1>1, <1>5 DEF QimeiFast, QimeiLock, QimeiCheck, QimeiRequest
<1>6. CASE QimeiSave(t) \/ QimeiWrite(t)
  BY <1>1, <1>6 DEF QimeiSave, StoreSet, QimeiWrite, StoreWritten, Caches
<1>7. CASE SessionRequest(t) \/ SessionSave(t) \/ SessionWrite(t)
  BY <1>1, <1>7 DEF SessionRequest, SessionSave, StoreSet, SessionWrite, StoreWritten, Caches
<1>8. CASE Cancel(t)
  BY <1>1, <1>8 DEF Cancel, Caches, Devices
<1> QED
  BY <1>2, <1>3, <1>4, <1>5, <1>6, <1>7, <1>8 DEF Step

\* A task has what it needs next.
LEMMA OwnHandKept ==
  ASSUME IdentityInv, TypeOK', NEW t \in Tasks, Start(t) \/ Step(t) \/ Cancel(t)
  PROVE  HandOf(t)'
<1>1. Loaded \in Caches
  BY LoadedTyped DEF IdentityInv
<1> USE DEF IdentityInv, TypeOK, InHand, HandOf, Goes, Keeps, fileVars, memVars, worldVars
<1>2. CASE Start(t)
  BY <1>2 DEF Start
<1>3. CASE EnsureFast(t) \/ EnsureLock(t) \/ EnsureCheck(t)
  BY <1>3 DEF EnsureFast, EnsureLock, EnsureCheck
<1>4. CASE GetDevice(t)
  BY <1>4 DEF GetDevice, AfterDevice
<1>5. CASE Create(t)
  <2>1. generated' \in Devices
    BY <1>5 DEF Create, Devices
  <2> QED
    BY <1>5, <2>1 DEF Create
<1>5a. CASE Save(t) \/ Adopt(t)
  BY <1>5a DEF Save, Adopt, AfterDevice
<1>6. CASE Load(t)
  BY <1>6 DEF Load, Fails
<1>7. CASE QimeiFast(t) \/ QimeiLock(t)
  BY <1>7 DEF QimeiFast, QimeiLock, AfterQimei
<1>8. CASE QimeiCheck(t)
  BY <1>8 DEF QimeiCheck, AfterQimei
<1>9. CASE QimeiRequest(t)
  BY <1>9 DEF QimeiRequest, Fails
<1>10. CASE QimeiSave(t) \/ QimeiWrite(t)
  BY <1>1, <1>10 DEF QimeiSave, StoreSet, QimeiWrite, StoreWritten, AfterQimei, Caches
<1>11. CASE SessionRequest(t)
  BY <1>11 DEF SessionRequest, Fails
<1>12. CASE SessionSave(t) \/ SessionWrite(t)
  BY <1>1, <1>12 DEF SessionSave, StoreSet, SessionWrite, StoreWritten, Caches
<1>13. CASE Cancel(t)
  BY <1>13 DEF Cancel, Fails
<1> QED
  BY <1>2, <1>3, <1>4, <1>5, <1>5a, <1>6, <1>7, <1>8, <1>9, <1>10, <1>11, <1>12, <1>13 DEF Step

\* So have the others.
LEMMA InHandKept ==
  ASSUME IdentityInv, TypeOK', NEW t \in Tasks, Start(t) \/ Step(t) \/ Cancel(t)
  PROVE  InHand'
<1>1. Own(t)
  BY StepAside DEF LocksAside
<1>2. HandOf(t)'
  BY OwnHandKept
<1>3. ASSUME NEW u \in Tasks \ {t} PROVE HandOf(u)'
  BY <1>1, <1>3, NothingIsForgotten DEF IdentityInv, InHand, HandOf, Own
<1> QED
  BY <1>2, <1>3 DEF InHand, HandOf

-----------------------------------------------------------------------------

\* Every step keeps the invariant.
LEMMA NextInv == IdentityInv /\ [Next]_vars => IdentityInv'
<1> SUFFICES ASSUME IdentityInv, [Next]_vars PROVE IdentityInv'
  OBVIOUS
<1>1. TypeOK'
  BY NextTyped DEF IdentityInv
<1>2. ASSUME NEW t \in Tasks, Start(t) \/ Step(t) \/ Cancel(t) PROVE IdentityInv'
  <2>1. LockDiscipline'
    BY <1>2, StepAside, LocksKept DEF IdentityInv
  <2>2. InHand'
    BY <1>1, <1>2, InHandKept
  <2> QED
    BY <1>1, <2>1, <2>2 DEF IdentityInv
<1>3. CASE Crash
  BY <1>1, <1>3 DEF Crash, IdentityInv, LockDiscipline, InHand, HandOf, InSession, InQimei
<1>4. CASE Tick \/ UNCHANGED vars
  BY <1>1, <1>4 DEF Tick, vars, fileVars, memVars, lockVars, taskVars, worldVars,
                    IdentityInv, LockDiscipline, InHand, HandOf
<1> QED
  BY <1>2, <1>3, <1>4 DEF Next

\* The invariant holds in every reachable state.
THEOREM IdentityInvariant == Spec => []IdentityInv
<1>1. Init => IdentityInv
  BY InitInv
<1>2. IdentityInv /\ [Next]_vars => IdentityInv'
  BY NextInv
<1> QED
  BY <1>1, <1>2, PTL DEF Spec

\* LocksAreSound (DeviceIdentity): the locks of the store, of the QIMEI and of the session are
\* held exactly by the task in the code they protect, whatever fails, is cancelled or crashes.
THEOREM TheLocksAreSound == Spec => []LocksAreSound
<1>1. IdentityInv => LocksAreSound
  BY DEF IdentityInv, LocksAreSound
<1> QED
  BY <1>1, IdentityInvariant, PTL

-----------------------------------------------------------------------------
(* A known device *)

\* All that is known is the device 1, and what was made for it.
OneDevice ==
    /\ deviceFile = 1
    /\ device \in {None, 1}
    /\ qimei # None => qimei.device = 1
    /\ cacheData # None /\ cacheData.qimei # None => cacheData.qimei.device = 1
    /\ cacheFile \notin {None, Torn} /\ cacheFile.qimei # None => cacheFile.qimei.device = 1
    /\ \A t \in Tasks : pc[t] \notin {"create", "save"} /\ (pc[t] = "adopt" => local[t] = 1)

\* Every step of a task keeps it so.
LEMMA StepKeepsDevice ==
  ASSUME IdentityInv, OneDevice, NEW t \in Tasks, Start(t) \/ Step(t) \/ Cancel(t)
  PROVE  OneDevice'
<1>1. /\ Loaded \in Caches
      /\ Loaded.qimei # None => Loaded.qimei.device = 1
  BY LoadedTyped DEF IdentityInv, OneDevice, Loaded, NoCache
<1>2. Own(t)
  BY StepAside DEF LocksAside
<1>3. \A u \in Tasks \ {t} : pc'[u] \notin {"create", "save"} /\ (pc'[u] = "adopt" => local'[u] = 1)
  BY <1>2 DEF OneDevice, Own
<1> USE DEF IdentityInv, TypeOK, OneDevice, Goes, Keeps, worldVars, fileVars, memVars
<1>4. CASE Start(t)
  BY <1>3, <1>4 DEF Start
<1>5. CASE EnsureFast(t) \/ EnsureLock(t) \/ EnsureCheck(t)
  <2>1. UNCHANGED <<fileVars, device, qimei>> /\ (cacheData' = cacheData \/ cacheData' = Loaded)
    BY <1>5 DEF EnsureFast, EnsureLock, EnsureCheck, Look
  <2>2. pc'[t] \in {"device", "ensureLock", "ensureCheck"}
    BY <1>5 DEF EnsureFast, EnsureLock, EnsureCheck
  <2> QED
    BY <1>1, <1>3, <2>1, <2>2
<1>6. CASE GetDevice(t) \/ Load(t) \/ Adopt(t)
  <2>1. 1 \in Devices /\ 1 # None
    BY DEF Devices
  <2>2. CASE GetDevice(t)
    BY <1>3, <2>1, <2>2 DEF GetDevice, AfterDevice
  <2>3. CASE Load(t)
    BY <1>3, <2>3 DEF Load, Fails
  <2>4. CASE Adopt(t)
    BY <1>3, <2>4 DEF Adopt, AfterDevice
  <2> QED
    BY <1>6, <2>2, <2>3, <2>4
<1>7. CASE Create(t) \/ Save(t)
  BY <1>7 DEF Create, Save
<1>8. CASE QimeiFast(t) \/ QimeiLock(t)
  BY <1>3, <1>8 DEF QimeiFast, QimeiLock, AfterQimei
<1>9. CASE QimeiCheck(t)
  <2>1. /\ UNCHANGED <<fileVars, device>> /\ (cacheData' = cacheData \/ cacheData' = Loaded)
        /\ qimei' = qimei \/ (qimei' = Loaded.qimei /\ Loaded.qimei # None)
    BY <1>9 DEF QimeiCheck, QimeiValid
  <2>2. pc'[t] \in {"idle", "sessionRequest", "qimeiRequest"}
    BY <1>9 DEF QimeiCheck, AfterQimei
  <2> QED
    BY <1>1, <1>3, <2>1, <2>2
<1>10. CASE QimeiRequest(t)
  <2>1. device = 1
    BY <1>10 DEF QimeiRequest, InHand, HandOf
  <2> QED
    BY <1>3, <1>10, <2>1 DEF QimeiRequest, Fails
<1>11. CASE QimeiSave(t) \/ SessionSave(t)
  <2>1. /\ UNCHANGED <<deviceFile, device, qimei>> /\ cacheFile' = Torn
        /\ cacheData' \in Caches /\ cacheData'.qimei \in {qimei, Loaded.qimei}
    BY <1>1, <1>11 DEF QimeiSave, SessionSave, StoreSet, Caches, InHand, HandOf
  <2>2. pc'[t] \in {"qimeiWrite", "sessionWrite"}
    BY <1>11 DEF QimeiSave, SessionSave
  <2> QED
    BY <1>1, <1>3, <2>1, <2>2
<1>12. CASE QimeiWrite(t) \/ SessionWrite(t)
  <2>1. UNCHANGED <<deviceFile, device, qimei, cacheData>> /\ cacheFile' \in {cacheData, Torn}
    BY <1>12 DEF QimeiWrite, SessionWrite, StoreWritten
  <2>2. pc'[t] \in {"idle", "sessionRequest", "device"}
    BY <1>12 DEF QimeiWrite, SessionWrite, AfterQimei
  <2> QED
    BY <1>3, <2>1, <2>2
<1>13. CASE SessionRequest(t)
  BY <1>3, <1>13 DEF SessionRequest, Fails
<1>14. CASE Cancel(t)
  <2>1. /\ UNCHANGED <<fileVars, qimei, device>> /\ pc'[t] = "idle"
    BY <1>14 DEF Cancel, Fails
  <2>2. cacheData' = cacheData \/ (cacheData' \in Caches /\ cacheData'.qimei \in {qimei, Loaded.qimei})
    BY <1>1, <1>14 DEF Cancel, Caches, InHand, HandOf
  <2> QED
    BY <1>1, <1>3, <2>1, <2>2
<1> QED
  BY <1>4, <1>5, <1>6, <1>7, <1>8, <1>9, <1>10, <1>11, <1>12, <1>13, <1>14 DEF Step

\* KnownDeviceStays (DeviceIdentity): a process that found a device file sends everything as
\* that device, over all restarts.
THEOREM TheKnownDeviceStays == Spec => KnownDeviceStays
<1>1. Init /\ deviceFile = 1 => OneDevice
  BY DEF Init, OneDevice
<1>2. IdentityInv /\ OneDevice /\ [Next]_vars => OneDevice'
  <2> SUFFICES ASSUME IdentityInv, OneDevice, [Next]_vars PROVE OneDevice'
    OBVIOUS
  <2>1. CASE Crash
    BY <2>1 DEF Crash, OneDevice, fileVars
  <2>2. CASE Tick \/ UNCHANGED vars
    BY <2>2 DEF Tick, vars, fileVars, memVars, lockVars, taskVars, OneDevice
  <2> QED
    BY <2>1, <2>2, StepKeepsDevice DEF Next
<1>3. OneDevice => /\ deviceFile = 1
                   /\ device \in {None, 1}
                   /\ qimei # None => qimei.device = 1
  BY DEF OneDevice
<1> QED
  BY <1>1, <1>2, <1>3, IdentityInvariant, PTL DEF Spec, KnownDeviceStays

-----------------------------------------------------------------------------
(* Nothing needless *)

\* The session that a look finds.
Current == IF session # None THEN session ELSE Loaded.session

\* Nothing was saved in the future.
Elapsed(s) == s # None => s <= now

NothingIsAhead ==
    /\ Elapsed(session)
    /\ cacheData # None => Elapsed(cacheData.session)
    /\ cacheFile \notin {None, Torn} => Elapsed(cacheFile.session)
    /\ \A t \in Tasks : pc[t] \in {"sessionSave", "sessionWrite"} => Elapsed(local[t])

\* What the second look decided still holds when the request is sent.
DueFor(t) ==
    /\ refreshing[t] /\ pc[t] # "sessionWrite" => ~SavedToday(Current)
    /\ pc[t] = "sessionRequest" => refreshing[t]
    /\ pc[t] = "qimeiRequest" => ~QimeiValid(qimei, local[t])

RenewalIsDue == \A t \in Tasks : DueFor(t)

\* A look returns the current session, and finds it again.
LEMMA LookFinds ==
  ASSUME TypeOK, NEW found, Look(found), UNCHANGED cacheFile
  PROVE  found = Current /\ Current' = Current
<1>1. Loaded \in Caches /\ Loaded # None
  BY LoadedTyped
<1> QED
  BY <1>1 DEF Look, Current, Loaded

\* Only the save of a session changes the current one.
LEMMA CurrentKept ==
  ASSUME IdentityInv, NEW t \in Tasks, Start(t) \/ Step(t) \/ Cancel(t),
         pc[t] \notin {"sessionSave", "sessionWrite"}
  PROVE  Current' = Current
<1>1. Loaded \in Caches /\ Loaded # None
  BY LoadedTyped DEF IdentityInv
<1> USE DEF IdentityInv, TypeOK, fileVars, memVars
<1>2. CASE \/ UNCHANGED <<session, cacheData, cacheFile>>
           \/ UNCHANGED session /\ cacheData' # None /\ cacheData'.session = Loaded.session
  BY <1>1, <1>2 DEF Current, Loaded
<1>3. CASE EnsureFast(t) \/ EnsureCheck(t)
  BY <1>3, LookFinds DEF EnsureFast, EnsureCheck
<1>4. CASE Start(t) \/ EnsureLock(t) \/ SessionRequest(t)
  BY <1>2, <1>4 DEF Start, EnsureLock, SessionRequest
<1>5. CASE GetDevice(t) \/ Create(t) \/ Save(t) \/ Load(t) \/ Adopt(t)
  BY <1>2, <1>5 DEF GetDevice, Create, Save, Load, Adopt
<1>6. CASE QimeiFast(t) \/ QimeiLock(t) \/ QimeiCheck(t) \/ QimeiRequest(t)
  BY <1>1, <1>2, <1>6 DEF QimeiFast, QimeiLock, QimeiCheck, QimeiRequest
<1>7. CASE QimeiSave(t)
  BY <1>1, <1>2, <1>7 DEF QimeiSave, StoreSet, Caches
<1>8. CASE QimeiWrite(t)
  <2>1. cacheData # None /\ UNCHANGED <<session, cacheData>>
    BY <1>8 DEF QimeiWrite, StoreWritten, InHand, HandOf
  <2> QED
    BY <2>1 DEF Current, Loaded
<1>9. CASE Cancel(t)
  BY <1>1, <1>2, <1>9 DEF Cancel, Caches
<1>10. CASE SessionSave(t) \/ SessionWrite(t)
  BY <1>10 DEF SessionSave, SessionWrite
<1> QED
  BY <1>3, <1>4, <1>5, <1>6, <1>7, <1>8, <1>9, <1>10 DEF Step

\* A day that is over does not come back.
LEMMA DaysPass ==
  ASSUME NEW n \in Nat, NEW s \in Nat, s <= n, s \div 2 # n \div 2
  PROVE  s \div 2 # (n + 1) \div 2
  OBVIOUS

\* Every step of a task saves what is past.
LEMMA AheadKept ==
  ASSUME IdentityInv, NothingIsAhead, NEW t \in Tasks, Start(t) \/ Step(t) \/ Cancel(t)
  PROVE  NothingIsAhead'
<1>1. Loaded \in Caches /\ Loaded # None /\ Elapsed(Loaded.session)
  BY LoadedTyped DEF IdentityInv, NothingIsAhead, Loaded, NoCache, Elapsed
<1>2. Own(t)
  BY StepAside DEF LocksAside
<1>3. now' = now /\ now \in Nat /\ now <= now
  BY DEF IdentityInv, TypeOK, Times, Start, Step, Cancel, worldVars, EnsureFast, EnsureLock,
         EnsureCheck, GetDevice, Create, Save, Load, Adopt, QimeiFast, QimeiLock, QimeiCheck,
         QimeiRequest, QimeiSave, QimeiWrite, SessionRequest, SessionSave, SessionWrite,
         StoreSet, StoreWritten
<1>4. ASSUME /\ session' \in {session, Loaded.session} \/ Elapsed(session')
             /\ cacheData' # None => \/ cacheData' = cacheData
                                     \/ Elapsed(cacheData'.session)
             /\ cacheFile' \in {cacheFile, cacheData, None, Torn}
             /\ pc'[t] \in {"sessionSave", "sessionWrite"} => Elapsed(local'[t])
      PROVE  NothingIsAhead'
  BY <1>1, <1>2, <1>3, <1>4 DEF NothingIsAhead, Elapsed, Own
<1> USE DEF IdentityInv, TypeOK, Goes, Keeps, worldVars, fileVars, memVars
<1>5. CASE Start(t)
  BY <1>4, <1>5 DEF Start
<1>6. CASE EnsureFast(t) \/ EnsureLock(t) \/ EnsureCheck(t)
  BY <1>1, <1>4, <1>6 DEF EnsureFast, EnsureLock, EnsureCheck, Look
<1>7. CASE GetDevice(t) \/ Create(t) \/ Save(t) \/ Load(t) \/ Adopt(t)
  BY <1>4, <1>7 DEF GetDevice, Create, Save, Load, Adopt, Fails, AfterDevice
<1>8. CASE QimeiFast(t) \/ QimeiLock(t) \/ QimeiCheck(t) \/ QimeiRequest(t)
  BY <1>1, <1>4, <1>8 DEF QimeiFast, QimeiLock, QimeiCheck, QimeiRequest, AfterQimei, Fails
<1>9. CASE QimeiSave(t) \/ QimeiWrite(t)
  BY <1>1, <1>4, <1>9 DEF QimeiSave, StoreSet, QimeiWrite, StoreWritten, AfterQimei, Caches
<1>10. CASE SessionRequest(t)
  BY <1>3, <1>4, <1>10 DEF SessionRequest, Fails, Elapsed
<1>11. CASE SessionSave(t) \/ SessionWrite(t)
  BY <1>1, <1>4, <1>11 DEF SessionSave, StoreSet, SessionWrite, StoreWritten, NothingIsAhead, Caches
<1>12. CASE Cancel(t)
  BY <1>1, <1>4, <1>12 DEF Cancel, Fails, NothingIsAhead, Caches
<1> QED
  BY <1>5, <1>6, <1>7, <1>8, <1>9, <1>10, <1>11, <1>12 DEF Step

\* A step of t takes nothing from what another task was told.
LEMMA DueForOthers ==
  ASSUME IdentityInv, RenewalIsDue, NEW t \in Tasks, Start(t) \/ Step(t) \/ Cancel(t),
         NEW u \in Tasks \ {t}
  PROVE  DueFor(u)'
<1>1. Own(t)
  BY StepAside DEF LocksAside
<1>2. now' = now
  BY DEF Start, Step, Cancel, worldVars, EnsureFast, EnsureLock,
         EnsureCheck, GetDevice, Create, Save, Load, Adopt, QimeiFast, QimeiLock, QimeiCheck,
         QimeiRequest, QimeiSave, QimeiWrite, SessionRequest, SessionSave, SessionWrite,
         StoreSet, StoreWritten
<1>3. ASSUME refreshing[u] PROVE Current' = Current
  <2>1. pc[t] \notin {"sessionSave", "sessionWrite"}
    BY <1>3 DEF IdentityInv, LockDiscipline, InSession
  <2> QED
    BY <2>1, CurrentKept
<1>4. ASSUME pc[u] = "qimeiRequest" PROVE qimei' = qimei
  <2>1. pc[t] \notin InQimei
    BY <1>4 DEF IdentityInv, LockDiscipline, InQimei
  <2> QED
    BY <2>1 DEF InQimei, Start, Step, Cancel, memVars, EnsureFast, EnsureLock,
         EnsureCheck, GetDevice, Create, Save, Load, Adopt, QimeiFast, QimeiLock, QimeiCheck,
         QimeiRequest, QimeiSave, QimeiWrite, SessionRequest, SessionSave, SessionWrite,
         StoreSet, StoreWritten
<1>5. DueFor(u)
  BY DEF RenewalIsDue
<1> QED
  BY <1>1, <1>2, <1>3, <1>4, <1>5 DEF DueFor, Own, SavedToday, QimeiValid

\* A task goes on to a request only with what the second look told it.
LEMMA DueForItself ==
  ASSUME IdentityInv, RenewalIsDue, NEW t \in Tasks, Start(t) \/ Step(t) \/ Cancel(t)
  PROVE  DueFor(t)'
<1>1. DueFor(t)
  BY DEF RenewalIsDue
<1>2. TypeOK /\ TypeOK'
  BY NextTyped DEF IdentityInv, Next
<1>3. CASE EnsureCheck(t)
  <2>1. PICK found \in Times \cup {None} :
           Look(found) /\ refreshing' = [refreshing EXCEPT ![t] = ~SavedToday(found)]
    BY <1>3 DEF EnsureCheck
  <2>2. now' = now /\ pc'[t] = "device" /\ UNCHANGED cacheFile
    BY <1>2, <1>3 DEF EnsureCheck, Goes, TypeOK, worldVars, fileVars
  <2>3. found = Current /\ Current' = Current
    BY <1>2, <2>1, <2>2, LookFinds
  <2>4. refreshing'[t] = ~SavedToday(found)
    BY <1>2, <2>1 DEF TypeOK
  <2> QED
    BY <2>2, <2>3, <2>4 DEF DueFor, SavedToday
<1>4. CASE QimeiCheck(t)
  <2>1. now' = now /\ refreshing' = refreshing /\ Current' = Current
    BY <1>4, CurrentKept DEF QimeiCheck, worldVars
  <2>2. pc'[t] = "qimeiRequest" => ~QimeiValid(qimei', local'[t])
    BY <1>2, <1>4 DEF QimeiCheck, TypeOK, Goes, Keeps, AfterQimei
  <2>3. pc'[t] = "sessionRequest" => refreshing[t]
    BY <1>2, <1>4 DEF QimeiCheck, TypeOK, Goes, AfterQimei
  <2>4. pc[t] = "qimeiCheck"
    BY <1>4 DEF QimeiCheck
  <2> QED
    BY <1>1, <2>1, <2>2, <2>3, <2>4 DEF DueFor, SavedToday, QimeiValid
<1>5. CASE SessionSave(t) \/ SessionWrite(t)
  BY <1>2, <1>5 DEF SessionSave, SessionWrite, StoreSet, DueFor, Goes, TypeOK
<1>6. CASE Cancel(t)
  BY <1>2, <1>6 DEF Cancel, Fails, Goes, DueFor, TypeOK
<1>7. ASSUME /\ ~EnsureCheck(t) /\ ~QimeiCheck(t) /\ ~SessionSave(t) /\ ~SessionWrite(t)
             /\ ~Cancel(t)
      PROVE  DueFor(t)'
  <2>1. pc[t] \notin {"sessionSave", "sessionWrite"}
    BY <1>7 DEF Start, Step, EnsureFast, EnsureLock, GetDevice, Create, Save, Load, Adopt,
           QimeiFast, QimeiLock, QimeiRequest, QimeiSave, QimeiWrite, SessionRequest
  <2>2. Current' = Current
    BY <2>1, CurrentKept
  <2>3. now' = now
    BY <1>7 DEF Start, Step, worldVars, EnsureFast, EnsureLock, GetDevice, Create, Save, Load,
           Adopt, QimeiFast, QimeiLock, QimeiRequest, QimeiSave, QimeiWrite, SessionRequest,
           StoreSet, StoreWritten
  <2>4. refreshing'[t] \in {refreshing[t], FALSE}
    BY <1>2, <1>7 DEF TypeOK, Start, Step, EnsureFast, EnsureLock, GetDevice, Create, Save, Load,
           Adopt, QimeiFast, QimeiLock, QimeiRequest, QimeiSave, QimeiWrite, SessionRequest,
           StoreSet, StoreWritten, Fails
  <2>5. pc'[t] # "qimeiRequest" /\ (pc'[t] = "sessionRequest" => refreshing'[t])
    BY <1>2, <1>7 DEF TypeOK, Start, Step, EnsureFast, EnsureLock, GetDevice, Create, Save, Load,
           Adopt, QimeiFast, QimeiLock, QimeiRequest, QimeiSave, QimeiWrite, SessionRequest,
           StoreSet, StoreWritten, Fails, Goes, AfterQimei, AfterDevice
  <2> QED
    BY <1>1, <2>1, <2>2, <2>3, <2>4, <2>5 DEF DueFor, SavedToday
<1> QED
  BY <1>3, <1>4, <1>5, <1>6, <1>7 DEF Step

\* The clock may go on.
LEMMA DueTomorrow ==
  ASSUME IdentityInv, NothingIsAhead, RenewalIsDue, Tick
  PROVE  NothingIsAhead' /\ RenewalIsDue'
<1>1. now \in Nat /\ now' = now + 1
  BY DEF Tick, IdentityInv, TypeOK, Times
<1>2. UNCHANGED <<fileVars, memVars, taskVars>>
  BY DEF Tick
<1>3. \A s \in Times \cup {None} :
         Elapsed(s) /\ s # None => s \in Nat /\ s <= now /\ s <= now + 1
  BY <1>1 DEF Elapsed, Times
<1>4. Loaded \in Caches /\ Elapsed(Loaded.session) /\ Elapsed(session)
  BY LoadedTyped DEF IdentityInv, NothingIsAhead, Loaded, NoCache, Elapsed
<1>5. Current \in Times \cup {None} /\ Elapsed(Current) /\ Current' = Current
  BY <1>2, <1>4 DEF Current, Loaded, IdentityInv, TypeOK, Caches, fileVars, memVars
<1>6. ~SavedToday(Current) => ~SavedToday(Current)'
  BY <1>1, <1>3, <1>5, DaysPass DEF SavedToday
<1>7. RenewalIsDue'
  BY <1>2, <1>6 DEF RenewalIsDue, DueFor, QimeiValid, taskVars, memVars
<1>8. NothingIsAhead'
  BY <1>1, <1>2, <1>3 DEF NothingIsAhead, Elapsed, IdentityInv, TypeOK, InHand, HandOf, Caches,
                           fileVars, memVars, taskVars
<1> QED
  BY <1>7, <1>8

\* NoNeedlessRequests (DeviceIdentity): nothing is requested while the process has what is
\* still valid, be it that of another task or of the file.
THEOREM NothingIsNeedless == Spec => NoNeedlessRequests
<1> DEFINE Due == IdentityInv /\ NothingIsAhead /\ RenewalIsDue
<1>1. Init => NothingIsAhead /\ RenewalIsDue
  BY DEF Init, NothingIsAhead, RenewalIsDue, DueFor, Elapsed, Times
<1>2. Due /\ [Next]_vars => NothingIsAhead' /\ RenewalIsDue'
  <2> SUFFICES ASSUME Due, [Next]_vars PROVE NothingIsAhead' /\ RenewalIsDue'
    OBVIOUS
  <2>1. ASSUME NEW t \in Tasks, Start(t) \/ Step(t) \/ Cancel(t)
        PROVE  NothingIsAhead' /\ RenewalIsDue'
    <3>1. NothingIsAhead'
      BY <2>1, AheadKept
    <3>2. \A u \in Tasks : DueFor(u)'
      BY <2>1, DueForOthers, DueForItself
    <3> QED
      BY <3>1, <3>2 DEF RenewalIsDue
  <2>2. CASE Crash
    BY <2>2 DEF Crash, NothingIsAhead, RenewalIsDue, DueFor, Elapsed, fileVars
  <2>3. CASE Tick
    BY <2>3, DueTomorrow
  <2>4. CASE UNCHANGED vars
    BY <2>4 DEF vars, worldVars, fileVars, memVars, lockVars, taskVars, NothingIsAhead,
                RenewalIsDue, DueFor, Elapsed, SavedToday, QimeiValid, Current, Loaded
  <2> QED
    BY <2>1, <2>2, <2>3, <2>4 DEF Next
<1>3. Due /\ [Next]_vars =>
        [\A t \in Tasks :
            /\ pc[t] = "sessionRequest" /\ pc'[t] = "sessionSave" =>
                  ~SavedToday(IF session # None THEN session ELSE Loaded.session)
            /\ pc[t] = "qimeiRequest" /\ pc'[t] = "qimeiSave" => ~QimeiValid(qimei, local[t])]_vars
  BY DEF RenewalIsDue, DueFor, Current
<1> QED
  BY <1>1, <1>2, <1>3, IdentityInvariant, PTL DEF Spec, NoNeedlessRequests
=============================================================================
