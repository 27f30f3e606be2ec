---------------------------- MODULE DeviceIdentity ----------------------------
(***************************************************************************)
(* What an Android request of the SDK is sent as: the device of            *)
(* DeviceManager, the QIMEI of QimeiManager and the anonymous session of   *)
(* AndroidSessionManager (qqmusic_api/utils/device.py, qimei.py,           *)
(* android_session.py).  Tasks share one process; device.json and          *)
(* device.cache.json outlive it.                                           *)
(*                                                                         *)
(* Each task prepares one request after another: an Android request as     *)
(* _prepare_batch does, ensure, get_device, get_cached; one of another     *)
(* platform, or a plain HTTP request, with get_device alone.  A file is    *)
(* written in place: from its opening to the end of the write it is torn,  *)
(* and a crash leaves it so.                                               *)
(* Files of older versions, which carry the session and the QIMEI in       *)
(* device.json, are left out.                                              *)
(***************************************************************************)
EXTENDS Naturals, FiniteSets

CONSTANTS
    Tasks,
    None, Torn,
    MaxDevices, \* bound: devices ever generated
    MaxNow,     \* bound of the clock, in half days
    MaxCrashes, \* bound: crashes of the process
    MayCancel   \* whether tasks are cancelled

ASSUME BoundsAssumption ==
    /\ MaxDevices \in Nat \ {0} /\ MaxNow \in Nat /\ MaxCrashes \in Nat
    /\ MayCancel \in BOOLEAN

VARIABLES
    now,         \* time, in half days
    crashes,
    plain,       \* the tasks whose requests are not Android's
    generated,   \* devices generated so far; a device is its number
    deviceFile,  \* device.json: a device, None or Torn
    cacheFile,   \* device.cache.json: a cache, None or Torn
    device,      \* DeviceManager.device
    cacheData,   \* DeviceCacheStore._cache_data
    qimei,       \* QimeiManager._cache with _cache_saved_at and the device it was made for
    session,     \* AndroidSessionManager._session: when it was saved
    storeLock, qimeiLock, sessionLock, \* who holds each _lock
    pc,          \* where each task is suspended
    refreshing,  \* the task is inside _refresh_session
    local        \* the device it saves or has read, current_time of get_cached, or saved_at
                 \* of _publish

fileVars == <<deviceFile, cacheFile>>
memVars == <<device, cacheData, qimei, session>>
lockVars == <<storeLock, qimeiLock, sessionLock>>
taskVars == <<pc, refreshing, local>>
worldVars == <<now, crashes, plain, generated>>
vars == <<worldVars, fileVars, memVars, lockVars, taskVars>>

-----------------------------------------------------------------------------

Devices == 1 .. MaxDevices
Times == 0 .. MaxNow
Qimeis == [device : Devices, at : Times]
Caches == [session : Times \cup {None}, qimei : Qimeis \cup {None}]
NoCache == [session |-> None, qimei |-> None]

\* None is told from everything it stands beside.
ASSUME IdentityAssumption ==
    None \notin Tasks \cup {Torn} \cup Devices \cup Times \cup Qimeis \cup Caches

InSession == {"ensureCheck", "sessionRequest", "sessionSave", "sessionWrite"}
InQimei == {"qimeiCheck", "qimeiRequest", "qimeiSave", "qimeiWrite"}
InDevice == {"device", "create", "save", "load", "adopt"}
Places == {"idle", "ensure", "ensureLock", "qimei", "qimeiLock"}
          \cup InSession \cup InQimei \cup InDevice

\* Every variable keeps its type.
TypeOK ==
    /\ now \in Times /\ crashes \in 0 .. MaxCrashes /\ plain \subseteq Tasks
    /\ generated \in 0 .. MaxDevices
    /\ deviceFile \in Devices \cup {None, Torn}
    /\ cacheFile \in Caches \cup {None, Torn}
    /\ device \in Devices \cup {None}
    /\ cacheData \in Caches \cup {None}
    /\ qimei \in Qimeis \cup {None}
    /\ session \in Times \cup {None}
    /\ {storeLock, qimeiLock, sessionLock} \subseteq Tasks \cup {None}
    /\ pc \in [Tasks -> Places]
    /\ refreshing \in [Tasks -> BOOLEAN]
    /\ local \in [Tasks -> Devices \cup Times \cup {None}]

\* The first start, or one with the files of an earlier run.
Init ==
    /\ now = 0 /\ crashes = 0 /\ plain \in SUBSET Tasks
    /\ deviceFile \in {None, 1}
    /\ generated = IF deviceFile = None THEN 0 ELSE 1
    /\ cacheFile \in {None} \cup (IF deviceFile = None THEN {}
                                  ELSE {[session |-> 0, qimei |-> [device |-> 1, at |-> 0]]})
    /\ device = None /\ cacheData = None /\ qimei = None /\ session = None
    /\ storeLock = None /\ qimeiLock = None /\ sessionLock = None
    /\ pc = [t \in Tasks |-> "idle"]
    /\ refreshing = [t \in Tasks |-> FALSE]
    /\ local = [t \in Tasks |-> None]

-----------------------------------------------------------------------------

Goes(t, place) == pc' = [pc EXCEPT ![t] = place]
Keeps(t, value) == local' = [local EXCEPT ![t] = value]

\* saved_today and the 86400 seconds of a QIMEI.
SavedToday(s) == s # None /\ s \div 2 = now \div 2
QimeiValid(q, time) == q # None /\ time - q.at < 2

\* _ensure_loaded: what cannot be read is an empty cache.
Loaded == IF cacheData # None THEN cacheData
          ELSE IF cacheFile \in {None, Torn} THEN NoCache ELSE cacheFile

Start(t) ==
    /\ pc[t] = "idle"
    /\ Goes(t, IF t \in plain THEN "device" ELSE "ensure")
    /\ UNCHANGED <<worldVars, fileVars, memVars, lockVars, refreshing, local>>

\* _get_cached: the memory, or else the store, whose lock is needed then; found is the session.
Look(found) ==
    \/ /\ session # None /\ found = session
       /\ UNCHANGED <<session, cacheData>>
    \/ /\ session = None /\ storeLock = None
       /\ found = Loaded.session
       /\ session' = found /\ cacheData' = Loaded

EnsureFast(t) ==
    /\ pc[t] = "ensure"
    /\ \E found \in Times \cup {None} :
          /\ Look(found)
          /\ Goes(t, IF SavedToday(found) THEN "device" ELSE "ensureLock")
    /\ UNCHANGED <<worldVars, fileVars, device, qimei, lockVars, refreshing, local>>

EnsureLock(t) ==
    /\ pc[t] = "ensureLock" /\ sessionLock = None
    /\ sessionLock' = t
    /\ Goes(t, "ensureCheck")
    /\ UNCHANGED <<worldVars, fileVars, memVars, storeLock, qimeiLock, refreshing, local>>

\* Faulty: no second look under the lock.
EnsureUnchecked(t) ==
    /\ pc[t] = "ensureCheck"
    /\ refreshing' = [refreshing EXCEPT ![t] = TRUE]
    /\ Goes(t, "device")
    /\ UNCHANGED <<worldVars, fileVars, memVars, lockVars, local>>

\* The second look, under the lock.
EnsureCheck(t) ==
    /\ pc[t] = "ensureCheck"
    /\ \E found \in Times \cup {None} :
          /\ Look(found)
          /\ sessionLock' = IF SavedToday(found) THEN None ELSE sessionLock
          /\ refreshing' = [refreshing EXCEPT ![t] = ~SavedToday(found)]
    /\ Goes(t, "device")
    /\ UNCHANGED <<worldVars, fileVars, device, qimei, storeLock, qimeiLock, local>>

\* What follows the device: the QIMEI of an Android request, or the request itself.
AfterDevice(t) == IF t \in plain THEN "idle" ELSE "qimei"

\* Faulty: whatever the file, a task that finds no device in memory makes one.
GetNewDevice(t) ==
    /\ pc[t] = "device"
    /\ Goes(t, IF device # None THEN AfterDevice(t) ELSE "create")
    /\ UNCHANGED <<worldVars, fileVars, memVars, lockVars, refreshing, local>>

\* get_device: the memory, or else does the file exist?
GetDevice(t) ==
    /\ pc[t] = "device"
    /\ Goes(t, IF device # None THEN AfterDevice(t)
               ELSE IF deviceFile = None THEN "create" ELSE "load")
    /\ UNCHANGED <<worldVars, fileVars, memVars, lockVars, refreshing, local>>

\* It did not: generate one and open the file for writing.
Create(t) ==
    /\ pc[t] = "create" /\ generated < MaxDevices
    /\ generated' = generated + 1
    /\ device' = generated'
    /\ Keeps(t, generated')
    /\ deviceFile' = Torn
    /\ Goes(t, "save")
    /\ UNCHANGED <<now, crashes, plain, cacheFile, cacheData, qimei, session, lockVars, refreshing>>

\* The write of the device that this task generated ends.  A longer one that ended since the
\* file was opened shows behind it.
Save(t) ==
    /\ pc[t] = "save"
    /\ deviceFile' \in {local[t], IF deviceFile = Torn THEN local[t] ELSE Torn}
    /\ Keeps(t, None)
    /\ Goes(t, AfterDevice(t))
    /\ UNCHANGED <<worldVars, cacheFile, memVars, lockVars, refreshing>>

\* Every lock the task holds is given back; the exception goes to the caller.
Fails(t) ==
    /\ Goes(t, "idle")
    /\ Keeps(t, None)
    /\ refreshing' = [refreshing EXCEPT ![t] = FALSE]
    /\ storeLock' = IF storeLock = t THEN None ELSE storeLock
    /\ qimeiLock' = IF qimeiLock = t THEN None ELSE qimeiLock
    /\ sessionLock' = IF sessionLock = t THEN None ELSE sessionLock

\* Faulty: a torn file is read until it is whole.
LoadAgain(t) ==
    /\ pc[t] = "load" /\ deviceFile # Torn
    /\ Keeps(t, deviceFile)
    /\ Goes(t, "adopt")
    /\ UNCHANGED <<worldVars, fileVars, memVars, lockVars, refreshing>>

\* _load_device: a torn file raises a JSON error.
Load(t) ==
    /\ pc[t] = "load"
    /\ \/ /\ deviceFile = Torn
          /\ Fails(t)
       \/ /\ deviceFile # Torn
          /\ Keeps(t, deviceFile)
          /\ Goes(t, "adopt")
          /\ UNCHANGED <<lockVars, refreshing>>
    /\ UNCHANGED <<worldVars, fileVars, memVars>>

Adopt(t) ==
    /\ pc[t] = "adopt"
    /\ device' = local[t] /\ Keeps(t, None)
    /\ Goes(t, AfterDevice(t))
    /\ UNCHANGED <<worldVars, fileVars, cacheData, qimei, session, lockVars, refreshing>>

\* What follows a QIMEI: the session's request, or the request itself.
AfterQimei(t) == IF refreshing[t] THEN "sessionRequest" ELSE "idle"

\* get_cached, without and with the lock.
QimeiFast(t) ==
    /\ pc[t] = "qimei"
    /\ Goes(t, IF QimeiValid(qimei, now) THEN AfterQimei(t) ELSE "qimeiLock")
    /\ UNCHANGED <<worldVars, fileVars, memVars, lockVars, refreshing, local>>

QimeiLock(t) ==
    /\ pc[t] = "qimeiLock" /\ qimeiLock = None
    /\ qimeiLock' = t
    /\ Goes(t, "qimeiCheck")
    /\ UNCHANGED <<worldVars, fileVars, memVars, storeLock, sessionLock, refreshing, local>>

\* The second look, then the store, whose lock is needed for it.
QimeiCheck(t) ==
    /\ pc[t] = "qimeiCheck"
    /\ \/ /\ QimeiValid(qimei, now)
          /\ qimeiLock' = None
          /\ Goes(t, AfterQimei(t))
          /\ UNCHANGED <<qimei, cacheData, local>>
       \/ /\ ~QimeiValid(qimei, now) /\ storeLock = None
          /\ cacheData' = Loaded
          /\ IF QimeiValid(Loaded.qimei, now)
               THEN /\ qimei' = Loaded.qimei
                    /\ qimeiLock' = None
                    /\ Goes(t, AfterQimei(t))
                    /\ UNCHANGED local
               ELSE /\ Goes(t, "qimeiRequest")
                    /\ Keeps(t, now)
                    /\ UNCHANGED <<qimei, qimeiLock>>
    /\ UNCHANGED <<worldVars, fileVars, device, session, storeLock, sessionLock, refreshing>>

\* Faulty: a failed request leaves the lock taken.
QimeiFailsLocked(t) ==
    /\ pc[t] = "qimeiRequest"
    /\ Goes(t, "idle")
    /\ refreshing' = [refreshing EXCEPT ![t] = FALSE]
    /\ sessionLock' = IF sessionLock = t THEN None ELSE sessionLock
    /\ UNCHANGED <<worldVars, fileVars, memVars, storeLock, qimeiLock, local>>

\* _request_qimei for the device in memory: an answer is kept at once, a failure is raised.
QimeiRequest(t) ==
    /\ pc[t] = "qimeiRequest"
    /\ \/ /\ qimei' = [device |-> device, at |-> local[t]]
          /\ Goes(t, "qimeiSave")
          /\ UNCHANGED <<lockVars, refreshing, local>>
       \/ /\ Fails(t)
          /\ UNCHANGED qimei
    /\ UNCHANGED <<worldVars, fileVars, device, cacheData, session>>

\* set_qimei and set_session: change the cache and open the file, which is then torn.
StoreSet(t, cache) ==
    /\ storeLock = None
    /\ storeLock' = t
    /\ cacheData' = cache
    /\ cacheFile' = Torn
    /\ UNCHANGED <<worldVars, deviceFile, device, qimei, session, qimeiLock, sessionLock,
                   refreshing, local>>

\* The end of the write, which may have failed: that is suppressed.
StoreWritten ==
    /\ storeLock' = None
    /\ cacheFile' \in {cacheData, Torn}
    /\ UNCHANGED <<worldVars, deviceFile, device, cacheData, qimei>>

QimeiSave(t) ==
    /\ pc[t] = "qimeiSave"
    /\ StoreSet(t, [Loaded EXCEPT !.qimei = qimei])
    /\ Goes(t, "qimeiWrite")

QimeiWrite(t) ==
    /\ pc[t] = "qimeiWrite"
    /\ StoreWritten
    /\ qimeiLock' = None /\ Keeps(t, None)
    /\ Goes(t, AfterQimei(t))
    /\ UNCHANGED <<session, sessionLock, refreshing>>

\* GetSession, with the device and the QIMEI: _publish validates what comes.
SessionRequest(t) ==
    /\ pc[t] = "sessionRequest"
    /\ \/ /\ Keeps(t, now)
          /\ Goes(t, "sessionSave")
          /\ UNCHANGED <<lockVars, refreshing>>
       \/ Fails(t)
    /\ UNCHANGED <<worldVars, fileVars, memVars>>

SessionSave(t) ==
    /\ pc[t] = "sessionSave"
    /\ StoreSet(t, [Loaded EXCEPT !.session = local[t]])
    /\ Goes(t, "sessionWrite")

\* The session is published to memory last.
SessionWrite(t) ==
    /\ pc[t] = "sessionWrite"
    /\ StoreWritten
    /\ session' = local[t]
    /\ sessionLock' = None /\ Keeps(t, None)
    /\ refreshing' = [refreshing EXCEPT ![t] = FALSE]
    /\ Goes(t, "device")
    /\ UNCHANGED qimeiLock

\* Cancelled while suspended anywhere but in a worker thread, which is waited for.  A write
\* that is cancelled before its thread has started leaves the new value in memory only.
Cancel(t) ==
    /\ MayCancel /\ pc[t] \notin {"idle", "save", "qimeiWrite", "sessionWrite"}
    /\ Fails(t)
    /\ \/ UNCHANGED <<generated, device, cacheData>>
       \/ /\ pc[t] = "create" /\ generated < MaxDevices
          /\ generated' = generated + 1 /\ device' = generated'
          /\ UNCHANGED cacheData
       \/ /\ pc[t] = "sessionSave" /\ storeLock = None
          /\ cacheData' = [Loaded EXCEPT !.session = local[t]]
          /\ UNCHANGED <<generated, device>>
       \/ /\ pc[t] = "qimeiSave" /\ storeLock = None
          /\ cacheData' = [Loaded EXCEPT !.qimei = qimei]
          /\ UNCHANGED <<generated, device>>
    /\ UNCHANGED <<now, crashes, plain, fileVars, qimei, session>>

\* The process dies and starts again.
Crash ==
    /\ crashes < MaxCrashes
    /\ crashes' = crashes + 1
    /\ device' = None /\ cacheData' = None /\ qimei' = None /\ session' = None
    /\ storeLock' = None /\ qimeiLock' = None /\ sessionLock' = None
    /\ pc' = [t \in Tasks |-> "idle"]
    /\ refreshing' = [t \in Tasks |-> FALSE]
    /\ local' = [t \in Tasks |-> None]
    /\ UNCHANGED <<now, plain, generated, fileVars>>

Tick ==
    /\ now < MaxNow
    /\ now' = now + 1
    /\ UNCHANGED <<crashes, plain, generated, fileVars, memVars, lockVars, taskVars>>

\* A step of a request under way.
Step(t) ==
    \/ EnsureFast(t) \/ EnsureLock(t) \/ EnsureCheck(t)
    \/ GetDevice(t) \/ Create(t) \/ Save(t) \/ Load(t) \/ Adopt(t)
    \/ QimeiFast(t) \/ QimeiLock(t) \/ QimeiCheck(t) \/ QimeiRequest(t)
    \/ QimeiSave(t) \/ QimeiWrite(t)
    \/ SessionRequest(t) \/ SessionSave(t) \/ SessionWrite(t)

Next == (\E t \in Tasks : Start(t) \/ Step(t) \/ Cancel(t)) \/ Crash \/ Tick

Spec == Init /\ [][Next]_vars

\* The loop runs what is ready and gives a lock to those who wait in turn; requests and
\* file operations end.
FairSpec == Spec /\ \A t \in Tasks : SF_vars(Step(t))

-----------------------------------------------------------------------------
(* Properties *)

\* Each lock is held exactly by the task in the part of the code it protects, through
\* failures, cancellation and crashes.
LockDiscipline ==
    \A t \in Tasks :
        /\ sessionLock = t <=> pc[t] \in InSession \/ refreshing[t]
        /\ qimeiLock = t <=> pc[t] \in InQimei
        /\ storeLock = t <=> pc[t] \in {"qimeiWrite", "sessionWrite"}

\* The types, and the discipline of the three locks.
LocksAreSound == TypeOK /\ LockDiscipline

\* "刷新使用单一锁并在锁内二次检查" (android_session.py:78): nothing is requested while the
\* process has what is still valid, be it that of another task or of the file.
NoNeedlessRequests ==
    [][\A t \in Tasks :
        /\ pc[t] = "sessionRequest" /\ pc'[t] = "sessionSave" =>
              ~SavedToday(IF session # None THEN session ELSE Loaded.session)
        /\ pc[t] = "qimeiRequest" /\ pc'[t] = "qimeiSave" => ~QimeiValid(qimei, local[t])]_vars

\* A process that found a device file sends every request as that device and as the QIMEI
\* made for it, and leaves the file alone, over all restarts.
KnownDeviceStays ==
    deviceFile = 1 => [](/\ deviceFile = 1
                         /\ device \in {None, 1}
                         /\ qimei # None => qimei.device = 1)

\* "`device_path` 保存设备指纹和 QIMEI 等设备信息，供后续客户端继续使用同一设备"
\* (docs/tutorial/credential.md:92): the file holds the device in use, once no task is about to
\* create or load one.
FileKeepsTheDevice ==
    device # None /\ (\A t \in Tasks : pc[t] \notin InDevice) => deviceFile = device

\* Every request is prepared or fails.
EveryCallEnds == \A t \in Tasks : pc[t] # "idle" ~> pc[t] = "idle"
=============================================================================
