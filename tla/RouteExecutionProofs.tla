------------------------ MODULE RouteExecutionProofs ------------------------
(***************************************************************************)
(* For every set of requests and keys and for both cache backends, the     *)
(* cached route keeps its promises: types, one fetch per key, no leaked    *)
(* flight, no follower waiting on a dead flight, no outcome lost, no       *)
(* stale second look, and FetchOnce as a whole.                            *)
(*                                                                         *)
(* The argument has two layers.  FlightInv (RouteExecution): the registry  *)
(* names exactly the leaders that are between `enter` and `leave`.         *)
(* SingleFetch alone is not inductive: `Lead` needs to know that an        *)
(* unregistered key has no fetcher, and `Finish` that the flight it pops   *)
(* is its own.  OutcomeInv, above it: what is found on a flight or in the  *)
(* cache is the outcome of the fetch it is named by, of the same key; it   *)
(* carries the refinement and EmptyHandedOnlyIfLeaderCancelled.            *)
(***************************************************************************)
EXTENDS RouteExecution, TLAPS

USE NoneAssumption, FlagAssumption

-----------------------------------------------------------------------------
(* Types *)

Typed == TypeOK /\ KeyKnown

\* The types hold initially.
LEMMA InitTyped == Init => Typed
  BY DEF Init, Typed, TypeOK, KeyKnown, PCs, Results, Kinds, Maybe, Unanswered, Answer

\* Every step keeps the types: a step after the arrival reads the stores at a
\* key the request knows.
LEMMA NextTyped == Typed /\ [Next]_vars => Typed'
<1> SUFFICES ASSUME Typed, [Next]_vars PROVE Typed'
  OBVIOUS
<1>0. UNCHANGED <<suspends, coalesce>>
  BY DEF Next, vars, configVars
<1> USE DEF Typed, TypeOK, KeyKnown, PCs, Results, Kinds, Maybe, Answer, At,
            MayRun, Goto, AwaitBackend, Respond, flightVars, storeVars, taskVars
<1> USE <1>0
<1>1. ASSUME NEW t \in Requests, NEW k \in Keys, Arrive(t, k) PROVE Typed'
  BY <1>1 DEF Arrive
<1>2. ASSUME NEW t \in Requests, Run(t) PROVE Typed'
  <2>1. CASE ReadCache(t, "readCache", "readFailure")
    BY <2>1 DEF ReadCache
  <2>2. CASE ReadCache(t, "recheckCache", "recheckFailure")
    BY <2>2 DEF ReadCache
  <2>3. CASE ReadFailure(t, "readFailure", "enter")
    BY <2>3 DEF ReadFailure
  <2>4. CASE ReadFailure(t, "recheckFailure", "fromFlight")
    BY <2>4 DEF ReadFailure
  <2>5. CASE Lead(t)
    BY <2>5 DEF Lead
  <2>6. CASE Follow(t)
    BY <2>6 DEF Follow
  <2>7. CASE FetchAlone(t)
    BY <2>7 DEF FetchAlone
  <2>8. CASE WriteCache(t)
    BY <2>8 DEF WriteCache
  <2>9. CASE WriteFailure(t)
    BY <2>9 DEF WriteFailure
  <2>10. CASE Finish(t)
    BY <2>10 DEF Finish, Leave, IsLeader
  <2>11. CASE Wake(t)
    BY <2>11 DEF Wake
  <2>12. CASE FromFlight(t)
    BY <2>12 DEF FromFlight
  <2>13. CASE BackendReadFails(t)
    BY <2>13 DEF BackendReadFails
  <2> QED
    BY <1>2, <2>1, <2>2, <2>3, <2>4, <2>5, <2>6, <2>7, <2>8, <2>9, <2>10,
       <2>11, <2>12, <2>13 DEF Run
<1>3. ASSUME NEW t \in Requests, Upstream(t) PROVE Typed'
  BY <1>3 DEF Upstream, UpstreamSucceeds, UpstreamFails, IsLeader
<1>4. ASSUME NEW t \in Requests, WaitTimesOut(t) PROVE Typed'
  BY <1>4 DEF WaitTimesOut
<1>5. ASSUME NEW t \in Requests, Cancel(t) PROVE Typed'
  BY <1>5 DEF Cancel, Leave, IsLeader
<1>6. ASSUME NEW k \in Keys, Expire(k) PROVE Typed'
  BY <1>6 DEF Expire
<1>7. CASE UNCHANGED vars
  BY <1>7 DEF vars
<1> QED
  BY <1>1, <1>2, <1>3, <1>4, <1>5, <1>6, <1>7 DEF Next

\* TypeOK holds in every reachable state.
THEOREM TypeCorrect == Spec => []TypeOK
<1>1. Typed => TypeOK
  BY DEF Typed
<1> QED
  BY InitTyped, NextTyped, <1>1, PTL DEF Spec

-----------------------------------------------------------------------------
(* Flights *)

Owned == KeyKnown /\ NoFlightLeak /\ FetchersAreRegistered /\ FlightOwnership
         /\ WaitersHaveALeader

LEMMA InitOwned == Init => Owned
  BY DEF Init, Owned, KeyKnown, NoFlightLeak, FetchersAreRegistered,
         FlightOwnership, WaitersHaveALeader, Fetching

\* A step of a request outside the fetching part of the handler, to a place
\* outside it where it does not wait, leaves the registry in order.
LEMMA OutsideStep ==
  ASSUME Typed, Owned, NEW t \in Requests, NEW l \in PCs \ {"idle", "wait"},
         pc[t] \notin Fetching \cup {"done"}, l \notin Fetching,
         pc' = [pc EXCEPT ![t] = l],
         key' = key \/ (pc[t] = "idle" /\ \E k \in Keys : key' = [key EXCEPT ![t] = k]),
         Typed', UNCHANGED <<coalesce, flightOf, flights, event>>
  PROVE  Owned'
<1> USE DEF Typed, TypeOK, Owned, Maybe
<1>1. \A u \in Requests : u # t => pc'[u] = pc[u] /\ key'[u] = key[u]
  OBVIOUS
<1>2. pc'[t] = l /\ flightOf[t] # t
  BY DEF FlightOwnership
<1>3. NoFlightLeak' /\ FetchersAreRegistered' /\ FlightOwnership'
  BY <1>1, <1>2 DEF NoFlightLeak, FetchersAreRegistered, FlightOwnership
<1>4. WaitersHaveALeader'
  BY <1>1, <1>2 DEF WaitersHaveALeader, FlightOwnership
<1> QED
  BY <1>3, <1>4

\* A step of a fetcher that goes on fetching disturbs nothing.
LEMMA InsideStep ==
  ASSUME Typed, Owned, NEW t \in Requests, NEW l \in Fetching,
         pc[t] \in Fetching, pc' = [pc EXCEPT ![t] = l],
         Typed', UNCHANGED <<coalesce, key, flightOf, flights, event>>
  PROVE  Owned'
<1> USE DEF Typed, TypeOK, Owned, Maybe
<1>1. \A u \in Requests : (pc'[u] \in Fetching <=> pc[u] \in Fetching)
  OBVIOUS
<1>2. \A u \in Requests : /\ (pc'[u] = "wait" => pc[u] = "wait")
                          /\ (pc[u] = "done" => pc'[u] = "done")
  BY DEF Fetching
<1>3. NoFlightLeak' /\ FetchersAreRegistered' /\ FlightOwnership'
  BY <1>1, <1>2 DEF NoFlightLeak, FetchersAreRegistered, FlightOwnership
<1>4. WaitersHaveALeader'
  BY <1>1, <1>2 DEF WaitersHaveALeader, FlightOwnership
<1> QED
  BY <1>3, <1>4

\* A fetcher leaves: its flight, and nobody else's, goes out of the registry
\* and its followers are released.
LEMMA LeaveStep ==
  ASSUME Typed, Owned, NEW t \in Requests, pc[t] \in Fetching, Leave(t),
         pc' = [pc EXCEPT ![t] = "done"],
         Typed', UNCHANGED <<coalesce, key, flightOf>>
  PROVE  Owned'
<1> USE DEF Typed, TypeOK, Owned, Maybe
<1>1. \A u \in Requests : u # t => pc'[u] = pc[u]
  OBVIOUS
<1>2. pc'[t] = "done" /\ key[t] \in Keys
  BY DEF KeyKnown, Fetching
<1>3. CASE ~coalesce
  <2>1. flightOf[t] # t /\ UNCHANGED <<flights, event>>
    BY <1>3 DEF FlightOwnership, Leave, IsLeader
  <2>2. \A k \in Keys : flights[k] = None
    BY <1>3 DEF FlightOwnership, NoFlightLeak
  <2>3. NoFlightLeak' /\ FetchersAreRegistered' /\ FlightOwnership'
    BY <1>1, <1>2, <1>3, <2>1, <2>2
    DEF NoFlightLeak, FetchersAreRegistered, FlightOwnership, Fetching
  <2>4. \A u \in Requests : pc[u] = "wait" => flightOf[u] \in event
    BY <2>2 DEF WaitersHaveALeader, FlightOwnership, KeyKnown
  <2> QED
    BY <1>1, <1>2, <2>1, <2>3, <2>4 DEF WaitersHaveALeader
<1>4. CASE coalesce
  <2>1. flightOf[t] = t /\ flights[key[t]] = t
    BY <1>4 DEF FetchersAreRegistered
  <2>2. flights' = [flights EXCEPT ![key[t]] = None] /\ event' = event \cup {t}
    BY <2>1 DEF Leave, IsLeader
  <2>3. \A k \in Keys : flights[k] = t => k = key[t]
    BY DEF NoFlightLeak
  <2>4. \A u \in Requests : u # t /\ pc[u] \in Fetching => key[u] # key[t]
    BY <1>4, <2>1 DEF FetchersAreRegistered
  <2>5. NoFlightLeak'
    BY <1>1, <1>2, <2>2, <2>3 DEF NoFlightLeak
  <2>6. FetchersAreRegistered'
    BY <1>1, <1>2, <2>2, <2>4 DEF FetchersAreRegistered, KeyKnown, Fetching
  <2>7. FlightOwnership'
    BY <1>1, <1>2, <2>2 DEF FlightOwnership, Fetching
  <2>8. WaitersHaveALeader'
    <3> SUFFICES ASSUME NEW u \in Requests, pc'[u] = "wait", flightOf[u] \notin event'
                 PROVE  /\ flights'[key[u]] = flightOf[u]
                        /\ pc'[flightOf[u]] \in Fetching
                        /\ key[flightOf[u]] = key[u]
      BY DEF WaitersHaveALeader
    <3>1. pc[u] = "wait" /\ flightOf[u] \in Requests /\ flightOf[u] # t
      BY <1>1, <1>2, <2>2 DEF FlightOwnership
    <3>2. /\ flights[key[u]] = flightOf[u] /\ pc[flightOf[u]] \in Fetching
          /\ key[flightOf[u]] = key[u]
      BY <2>2, <3>1 DEF WaitersHaveALeader
    <3>3. key[u] # key[t]
      BY <2>1, <3>1, <3>2
    <3> QED
      BY <1>1, <1>2, <2>2, <3>1, <3>2, <3>3
  <2> QED
    BY <2>5, <2>6, <2>7, <2>8
<1> QED
  BY <1>3, <1>4

\* Every step keeps the registry in order.
LEMMA NextOwned == Typed /\ Owned /\ Typed' /\ [Next]_vars => Owned'
<1> SUFFICES ASSUME Typed, Owned, Typed', [Next]_vars PROVE Owned'
  OBVIOUS
<1>0. UNCHANGED <<suspends, coalesce>>
  BY DEF Next, vars, configVars
<1> USE <1>0 DEF At, Goto, Respond, flightVars, storeVars
<1>1. ASSUME NEW t \in Requests, NEW k \in Keys, Arrive(t, k) PROVE Owned'
  BY <1>1, OutsideStep DEF Arrive, PCs, Fetching
<1>2. ASSUME NEW t \in Requests, Run(t) PROVE Owned'
  <2>1. CASE \/ ReadCache(t, "readCache", "readFailure")
             \/ ReadCache(t, "recheckCache", "recheckFailure")
    BY <2>1, OutsideStep DEF ReadCache, PCs, Fetching
  <2>2. CASE \/ ReadFailure(t, "readFailure", "enter")
             \/ ReadFailure(t, "recheckFailure", "fromFlight")
    BY <2>2, OutsideStep DEF ReadFailure, PCs, Fetching
  <2>3. CASE BackendReadFails(t) \/ Wake(t) \/ FromFlight(t)
    BY <2>3, OutsideStep DEF BackendReadFails, Wake, FromFlight, PCs, Fetching
  <2>4. CASE WriteCache(t) \/ WriteFailure(t)
    BY <2>4, InsideStep DEF WriteCache, WriteFailure, Fetching
  <2>5. CASE Finish(t)
    BY <2>5, LeaveStep DEF Finish, Fetching
  <2>6. CASE Lead(t)
    <3> USE DEF Typed, TypeOK, Owned, Maybe
    <3>1. key[t] \in Keys /\ flights[key[t]] = None
      BY <2>6 DEF Lead, KeyKnown
    <3>2. /\ pc'[t] = "upstream" /\ flightOf'[t] = t /\ flights'[key[t]] = t
          /\ key' = key /\ event' = event
          /\ \A u \in Requests : u # t => pc'[u] = pc[u] /\ flightOf'[u] = flightOf[u]
          /\ \A k \in Keys : k # key[t] => flights'[k] = flights[k]
      BY <2>6, <3>1 DEF Lead
    <3>3. pc[t] = "enter" /\ coalesce
      BY <2>6 DEF Lead
    <3>4. NoFlightLeak'
      BY <3>1, <3>2, <3>3 DEF NoFlightLeak, Fetching
    <3>5. FetchersAreRegistered'
      BY <3>1, <3>2, <3>3 DEF FetchersAreRegistered, KeyKnown, Fetching
    <3>6. FlightOwnership'
      <4>1. \A k \in Keys : flights'[k] # None => flightOf'[flights'[k]] = flights'[k]
        BY <3>1, <3>2, <3>3 DEF FlightOwnership, NoFlightLeak, Fetching
      <4>2. \A u \in Requests : /\ flightOf'[u] = u => coalesce' /\ pc'[u] \in Fetching \cup {"done"}
                                /\ pc'[u] = "wait" => flightOf'[u] \in Requests \ {u}
        BY <3>2, <3>3 DEF FlightOwnership, Fetching
      <4> QED
        BY <4>1, <4>2 DEF FlightOwnership
    <3>7. WaitersHaveALeader'
      BY <3>1, <3>2, <3>3 DEF WaitersHaveALeader, FlightOwnership, KeyKnown, Fetching
    <3> QED
      BY <3>4, <3>5, <3>6, <3>7
  <2>7. CASE Follow(t)
    <3> USE DEF Typed, TypeOK, Owned, Maybe
    <3>1. key[t] \in Keys /\ flights[key[t]] \in Requests
      BY <2>7 DEF Follow, KeyKnown
    <3>2. /\ pc'[t] = "wait" /\ flightOf'[t] = flights[key[t]]
          /\ key' = key /\ event' = event /\ flights' = flights
          /\ \A u \in Requests : u # t => pc'[u] = pc[u] /\ flightOf'[u] = flightOf[u]
      BY <2>7 DEF Follow
    <3>3. pc[t] = "enter" /\ coalesce
      BY <2>7 DEF Follow
    <3>4. pc[flights[key[t]]] \in Fetching /\ key[flights[key[t]]] = key[t] /\ flights[key[t]] # t
      BY <3>1, <3>3 DEF NoFlightLeak, Fetching
    <3>5. NoFlightLeak' /\ FetchersAreRegistered' /\ FlightOwnership'
      BY <3>1, <3>2, <3>3, <3>4
      DEF NoFlightLeak, FetchersAreRegistered, FlightOwnership, Fetching
    <3>6. WaitersHaveALeader'
      BY <3>1, <3>2, <3>3, <3>4 DEF WaitersHaveALeader, FlightOwnership, Fetching
    <3> QED
      BY <3>5, <3>6
  <2>8. CASE FetchAlone(t)
    <3> USE DEF Typed, TypeOK, Owned, Maybe
    <3>1. \A k \in Keys : flights[k] = None
      BY <2>8 DEF FetchAlone, FlightOwnership, NoFlightLeak
    <3> QED
      BY <2>8, <3>1 DEF FetchAlone, NoFlightLeak, FetchersAreRegistered, FlightOwnership,
                        WaitersHaveALeader, KeyKnown, Fetching
  <2> QED
    BY <1>2, <2>1, <2>2, <2>3, <2>4, <2>5, <2>6, <2>7, <2>8 DEF Run
<1>3. ASSUME NEW t \in Requests, Upstream(t) PROVE Owned'
  BY <1>3, InsideStep DEF Upstream, UpstreamSucceeds, UpstreamFails, Fetching
<1>4. ASSUME NEW t \in Requests, WaitTimesOut(t) PROVE Owned'
  BY <1>4, OutsideStep DEF WaitTimesOut, PCs, Fetching
<1>5. ASSUME NEW t \in Requests, Cancel(t) PROVE Owned'
  <2>1. CASE pc[t] \in Fetching
    BY <1>5, <2>1, LeaveStep DEF Cancel
  <2>2. CASE pc[t] \notin Fetching
    <3>1. ~IsLeader(t)
      BY <1>5, <2>2 DEF Cancel, IsLeader, Owned, FlightOwnership
    <3> QED
      BY <1>5, <2>2, <3>1, OutsideStep DEF Cancel, Leave, PCs, Fetching
  <2> QED
    BY <2>1, <2>2
<1>6. ASSUME NEW k \in Keys, Expire(k) PROVE Owned'
  BY <1>6 DEF Expire, taskVars, Owned, KeyKnown, NoFlightLeak, FetchersAreRegistered,
              FlightOwnership, WaitersHaveALeader
<1>7. CASE UNCHANGED vars
  BY <1>7 DEF vars, Owned, KeyKnown, NoFlightLeak, FetchersAreRegistered,
              FlightOwnership, WaitersHaveALeader
<1> QED
  BY <1>1, <1>2, <1>3, <1>4, <1>5, <1>6, <1>7 DEF Next

\* The registry invariant holds in every reachable state.
THEOREM FlightInvariant == Spec => []FlightInv
<1>1. Init => Typed /\ Owned
  BY InitTyped, InitOwned
<1>2. Typed /\ Owned /\ [Next]_vars => (Typed /\ Owned)'
  BY NextTyped, NextOwned
<1>3. Typed /\ Owned => FlightInv
  BY DEF Typed, Owned, FlightInv
<1> QED
  BY <1>1, <1>2, <1>3, PTL DEF Spec

\* Per key at most one request is fetching, however requests are cancelled,
\* time out, fail or arrive: the promise of Coalescer.enter and leave.
THEOREM OneFetchPerKey == Spec => []SingleFetch
<1>1. FlightInv => SingleFetch
  BY DEF FlightInv, FetchersAreRegistered, SingleFetch
<1> QED
  BY FlightInvariant, <1>1, PTL

\* No flight outlives its leader, so no follower waits for an event that
\* nobody will set.
THEOREM NoLostWakeup == Spec => []WaitersHaveALeader /\ []NoFlightLeak
<1>1. FlightInv => WaitersHaveALeader /\ NoFlightLeak
  BY DEF FlightInv
<1> QED
  BY FlightInvariant, <1>1, PTL
-----------------------------------------------------------------------------
(* Outcomes *)

Following == {"wait", "recheckCache", "recheckFailure", "fromFlight"}
Released == Following \ {"wait"}

\* A request has a key from its arrival on and an answer from its end on.
Progress ==
    \A t \in Requests :
        /\ pc[t] = "idle" => key[t] = None
        /\ pc[t] # "done" => response[t] = Unanswered

\* A fetch has an outcome once the upstream call has come back, the outcome
\* that the rest of the handler acts on; a leader's failure is on its flight.
Fetched ==
    \A t \in Requests :
        /\ pc[t] \notin {"writeCache", "writeFailure", "finish", "done"} => result[t] = "none"
        /\ pc[t] = "writeCache" => result[t] = "payload"
        /\ pc[t] = "writeFailure" => result[t] = "upstreamError"
        /\ pc[t] = "finish" => result[t] # "none"
        /\ pc[t] \in {"writeFailure", "finish"} /\ flightOf[t] = t /\ result[t] # "payload" =>
              t \in error

\* Payloads and failures, on a flight or in the cache, are those of the fetch
\* they are named by, and of the key they are found under.
Honest ==
    /\ \A f \in payload : result[f] = "payload"
    /\ \A f \in error : result[f] \in {"upstreamError", "clientError"}
    /\ \A t \in Requests : pc[t] \in Following =>
          flightOf[t] \in Requests /\ key[flightOf[t]] = key[t]
    /\ \A k \in Keys :
          /\ cache[k] # None => key[cache[k]] = k /\ result[cache[k]] = "payload"
          /\ failMark[k] # None => key[failMark[k]] = k /\ result[failMark[k]] = "upstreamError"

\* A flight that is over says how, unless its leader was cancelled; those it
\* released, and nobody else, look at it.
Outspoken ==
    /\ \A f \in event :
          /\ pc[f] = "done"
          /\ f \in payload \cup error \/ response[f].kind = "cancelled"
    /\ \A t \in Requests :
          /\ pc[t] \in Released => flightOf[t] \in event
          /\ response[t].kind = "degraded" => flightOf[t] \in event \ (payload \cup error)

OutcomeInv == Progress /\ Fetched /\ Honest /\ Outspoken

\* A memory backend never gives the loop up between its reads and what
\* follows them: what was read still holds.
MemoryReads ==
    ~suspends =>
        \A t \in Requests :
            /\ pc[t] = "readFailure" => loop = t /\ cache[key[t]] = None
            /\ pc[t] = "enter" => loop = t /\ cache[key[t]] = None /\ failMark[key[t]] = None

\* Nothing is fetched, answered or stored to begin with.
LEMMA InitOutcome == Init => OutcomeInv /\ MemoryReads
  BY DEF Init, OutcomeInv, Progress, Fetched, Honest, Outspoken, MemoryReads,
         Following, Released, Unanswered, Answer

\* A leader that is not done is the one its key is registered for.
LEMMA OwnFlight ==
  ASSUME Typed, Owned, NEW t \in Requests, IsLeader(t), pc[t] # "done"
  PROVE  key[t] \in Keys /\ flights[key[t]] = t
<1>1. coalesce /\ pc[t] \in Fetching
  BY DEF Owned, FlightOwnership, IsLeader
<1> QED
  BY <1>1 DEF Owned, FetchersAreRegistered, KeyKnown, Fetching

\* Every step keeps the outcomes in order.
LEMMA NextOutcome ==
  Typed /\ Owned /\ OutcomeInv /\ [Next]_vars => OutcomeInv'
<1> SUFFICES ASSUME Typed, Owned, OutcomeInv, [Next]_vars PROVE OutcomeInv'
  OBVIOUS
<1>0. UNCHANGED <<suspends, coalesce>>
  BY DEF Next, vars, configVars
<1> USE <1>0 DEF Typed, TypeOK, KeyKnown, Maybe, OutcomeInv, At, Goto, Respond, Answer,
              Unanswered, flightVars, storeVars, Following, Released, Fetching
<1>1. ASSUME NEW t \in Requests, NEW k \in Keys, Arrive(t, k) PROVE OutcomeInv'
  <2>1. Progress' /\ Fetched'
    BY <1>1 DEF Arrive, Progress, Fetched
  <2>2. Honest'
    BY <1>1 DEF Arrive, Progress, Fetched, Honest
  <2>3. Outspoken'
    BY <1>1 DEF Arrive, Outspoken
  <2> QED
    BY <2>1, <2>2, <2>3
<1>2. ASSUME NEW t \in Requests, Run(t) PROVE OutcomeInv'
  <2>1. CASE \/ ReadCache(t, "readCache", "readFailure")
             \/ ReadCache(t, "recheckCache", "recheckFailure")
    <3>1. Progress' /\ Fetched'
      BY <2>1 DEF ReadCache, Progress, Fetched
    <3>2. Honest'
      BY <2>1 DEF ReadCache, Progress, Fetched, Honest
    <3>3. Outspoken'
      BY <2>1 DEF ReadCache, Progress, Fetched, Outspoken
    <3> QED
      BY <3>1, <3>2, <3>3
  <2>2. CASE \/ ReadFailure(t, "readFailure", "enter")
             \/ ReadFailure(t, "recheckFailure", "fromFlight")
    <3>1. Progress' /\ Fetched'
      BY <2>2 DEF ReadFailure, Progress, Fetched
    <3>2. Honest'
      BY <2>2 DEF ReadFailure, Progress, Fetched, Honest
    <3>3. Outspoken'
      BY <2>2 DEF ReadFailure, Progress, Fetched, Outspoken
    <3> QED
      BY <3>1, <3>2, <3>3
  <2>3. CASE Lead(t)
    <3>1. Progress' /\ Fetched'
      BY <2>3 DEF Lead, Progress, Fetched
    <3>2. Honest'
      BY <2>3 DEF Lead, Progress, Fetched, Honest
    <3>3. Outspoken'
      BY <2>3 DEF Lead, Progress, Fetched, Outspoken
    <3> QED
      BY <3>1, <3>2, <3>3
  <2>4. CASE Follow(t)
    <3>1. Progress' /\ Fetched'
      BY <2>4 DEF Follow, Progress, Fetched
    <3>2. Honest'
      <4>1. key[t] \in Keys /\ flights[key[t]] \in Requests
        BY <2>4 DEF Follow
      <4>2. key[flights[key[t]]] = key[t]
        BY <4>1 DEF Owned, NoFlightLeak
      <4> QED
        BY <2>4, <4>1, <4>2 DEF Follow, Progress, Fetched, Honest
    <3>3. Outspoken'
      BY <2>4 DEF Follow, Progress, Fetched, Outspoken
    <3> QED
      BY <3>1, <3>2, <3>3
  <2>5. CASE FetchAlone(t)
    <3>1. Progress' /\ Fetched'
      BY <2>5 DEF FetchAlone, Progress, Fetched
    <3>2. Honest'
      BY <2>5 DEF FetchAlone, Progress, Fetched, Honest
    <3>3. Outspoken'
      BY <2>5 DEF FetchAlone, Progress, Fetched, Outspoken
    <3> QED
      BY <3>1, <3>2, <3>3
  <2>6. CASE WriteCache(t)
    <3>1. Progress' /\ Fetched'
      BY <2>6 DEF WriteCache, Progress, Fetched
    <3>2. Honest'
      BY <2>6 DEF WriteCache, Progress, Fetched, Honest
    <3>3. Outspoken'
      BY <2>6 DEF WriteCache, Progress, Fetched, Outspoken
    <3> QED
      BY <3>1, <3>2, <3>3
  <2>7. CASE WriteFailure(t)
    <3>1. Progress' /\ Fetched'
      BY <2>7 DEF WriteFailure, Progress, Fetched
    <3>2. Honest'
      BY <2>7 DEF WriteFailure, Progress, Fetched, Honest
    <3>3. Outspoken'
      BY <2>7 DEF WriteFailure, Progress, Fetched, Outspoken
    <3> QED
      BY <3>1, <3>2, <3>3
  <2>8. CASE Finish(t)
    <3>1. Progress' /\ Fetched'
      BY <2>8 DEF Finish, Leave, IsLeader, Progress, Fetched
    <3>2. Honest'
      BY <2>8 DEF Finish, Leave, IsLeader, Progress, Fetched, Honest
    <3>3. Outspoken'
      <4>1. pc[t] = "finish" /\ event' = IF IsLeader(t) THEN event \cup {t} ELSE event
        BY <2>8, OwnFlight DEF Finish, Leave
      <4>2. /\ \A u \in Requests : u # t => pc'[u] = pc[u] /\ response'[u] = response[u]
            /\ pc'[t] = "done" /\ response'[t].kind = result[t] /\ flightOf' = flightOf
        BY <2>8 DEF Finish
      <4>3. error' = error /\ payload' = IF IsLeader(t) /\ result[t] = "payload"
                                        THEN payload \cup {t} ELSE payload
        BY <2>8 DEF Finish
      <4>4. t \notin event /\ result[t] # "degraded"
        BY <4>1 DEF Outspoken, Results
      <4>5. t \in event' => t \in payload' \cup error'
        BY <4>1, <4>3, <4>4 DEF Fetched, IsLeader
      <4> QED
        BY <4>1, <4>2, <4>3, <4>4, <4>5 DEF Outspoken
    <3> QED
      BY <3>1, <3>2, <3>3
  <2>9. CASE Wake(t)
    <3>1. Progress' /\ Fetched'
      BY <2>9 DEF Wake, Progress, Fetched
    <3>2. Honest'
      BY <2>9 DEF Wake, Progress, Fetched, Honest
    <3>3. Outspoken'
      BY <2>9 DEF Wake, Progress, Fetched, Outspoken
    <3> QED
      BY <3>1, <3>2, <3>3
  <2>10. CASE FromFlight(t)
    <3>1. Progress' /\ Fetched'
      BY <2>10 DEF FromFlight, Progress, Fetched
    <3>2. Honest'
      BY <2>10 DEF FromFlight, Progress, Fetched, Honest
    <3>3. Outspoken'
      <4>1. /\ \A u \in Requests : u # t => pc'[u] = pc[u] /\ response'[u] = response[u]
            /\ pc[t] = "fromFlight" /\ pc'[t] = "done"
            /\ UNCHANGED <<flightOf, event, payload, error>>
        BY <2>10 DEF FromFlight
      <4>2. flightOf[t] \in event /\ t \notin event
        BY <4>1 DEF Outspoken
      <4>3. response'[t].kind = "degraded" => flightOf[t] \notin payload \cup error
        BY <2>10, <4>2 DEF FromFlight, Results
      <4> QED
        BY <4>1, <4>2, <4>3 DEF Outspoken
    <3> QED
      BY <3>1, <3>2, <3>3
  <2>11. CASE BackendReadFails(t)
    <3>1. Progress' /\ Fetched'
      BY <2>11 DEF BackendReadFails, Progress, Fetched
    <3>2. Honest'
      BY <2>11 DEF BackendReadFails, Progress, Fetched, Honest
    <3>3. Outspoken'
      BY <2>11 DEF BackendReadFails, Progress, Fetched, Outspoken
    <3> QED
      BY <3>1, <3>2, <3>3
  <2> QED
    BY <1>2, <2>1, <2>2, <2>3, <2>4, <2>5, <2>6, <2>7, <2>8, <2>9, <2>10, <2>11 DEF Run
<1>3. ASSUME NEW t \in Requests, Upstream(t) PROVE OutcomeInv'
  <2>1. Progress' /\ Fetched'
    BY <1>3 DEF Upstream, UpstreamSucceeds, UpstreamFails, IsLeader, Progress, Fetched
  <2>2. Honest'
    <3>1. /\ UNCHANGED <<key, flightOf, payload, storeVars>> /\ pc'[t] \notin Following
          /\ result[t] = "none" /\ error' \in {error, error \cup {t}}
          /\ t \in error' /\ t \notin error => result'[t] \in {"upstreamError", "clientError"}
          /\ \A u \in Requests : u # t => pc'[u] = pc[u] /\ result'[u] = result[u]
      BY <1>3 DEF Upstream, UpstreamSucceeds, UpstreamFails, IsLeader, Fetched, Following
    <3> QED
      BY <3>1 DEF Honest, Following
  <2>3. Outspoken'
    BY <1>3 DEF Upstream, UpstreamSucceeds, UpstreamFails, IsLeader, Progress, Fetched, Outspoken
  <2> QED
    BY <2>1, <2>2, <2>3
<1>4. ASSUME NEW t \in Requests, WaitTimesOut(t) PROVE OutcomeInv'
  <2>1. Progress' /\ Fetched'
    BY <1>4 DEF WaitTimesOut, Progress, Fetched
  <2>2. Honest'
    BY <1>4 DEF WaitTimesOut, Progress, Fetched, Honest
  <2>3. Outspoken'
    BY <1>4 DEF WaitTimesOut, Progress, Fetched, Outspoken
  <2> QED
    BY <2>1, <2>2, <2>3
<1>5. ASSUME NEW t \in Requests, Cancel(t) PROVE OutcomeInv'
  <2>1. Progress' /\ Fetched'
    BY <1>5 DEF Cancel, Leave, IsLeader, Progress, Fetched
  <2>2. Honest'
    BY <1>5 DEF Cancel, Leave, IsLeader, Progress, Fetched, Honest
  <2>3. Outspoken'
    <3>1. event' = IF IsLeader(t) /\ pc[t] # "done" THEN event \cup {t} ELSE event
      BY <1>5, OwnFlight DEF Cancel, Leave
    <3>2. /\ \A u \in Requests : u # t => pc'[u] = pc[u] /\ response'[u] = response[u]
          /\ pc[t] # "done" /\ pc'[t] = "done" /\ response'[t].kind = "cancelled"
          /\ UNCHANGED <<flightOf, payload, error>>
      BY <1>5 DEF Cancel
    <3>3. t \notin event
      BY <3>2 DEF Outspoken
    <3> QED
      BY <3>1, <3>2, <3>3 DEF Outspoken
  <2> QED
    BY <2>1, <2>2, <2>3
<1>6. ASSUME NEW k \in Keys, Expire(k) PROVE OutcomeInv'
  <2>1. Progress' /\ Fetched'
    BY <1>6 DEF Expire, taskVars, Progress, Fetched
  <2>2. Honest'
    BY <1>6 DEF Expire, taskVars, Progress, Fetched, Honest
  <2>3. Outspoken'
    BY <1>6 DEF Expire, taskVars, Progress, Fetched, Outspoken
  <2> QED
    BY <2>1, <2>2, <2>3
<1>7. CASE UNCHANGED vars
  BY <1>7 DEF vars, Progress, Fetched, Honest, Outspoken
<1> QED
  BY <1>1, <1>2, <1>3, <1>4, <1>5, <1>6, <1>7 DEF Next

\* The invariant of outcomes holds in every reachable state.
LEMMA OutcomeInvariant == Spec => [](Typed /\ Owned /\ OutcomeInv)
<1>1. Init => Typed /\ Owned /\ OutcomeInv
  BY InitTyped, InitOwned, InitOutcome
<1>2. Typed /\ Owned /\ OutcomeInv /\ [Next]_vars => (Typed /\ Owned /\ OutcomeInv)'
  BY NextTyped, NextOwned, NextOutcome
<1> QED
  BY <1>1, <1>2, PTL DEF Spec

\* Only a follower whose leader was cancelled comes away with nothing: an
\* outcome that the cache could not keep is still on the flight.
THEOREM NoOutcomeLost == Spec => []EmptyHandedOnlyIfLeaderCancelled
<1>1. OutcomeInv => EmptyHandedOnlyIfLeaderCancelled
  BY DEF OutcomeInv, Outspoken, EmptyHandedOnlyIfLeaderCancelled
<1> QED
  BY OutcomeInvariant, <1>1, PTL

-----------------------------------------------------------------------------
(* The memory backend *)

\* Between two reads of a task no other task runs and entries only expire.
LEMMA NextMemoryReads ==
  Typed /\ MemoryReads /\ [Next]_vars => MemoryReads'
<1> SUFFICES ASSUME Typed, MemoryReads, [Next]_vars PROVE MemoryReads'
  OBVIOUS
<1>0. UNCHANGED <<suspends, coalesce>>
  BY DEF Next, vars, configVars
<1> USE <1>0 DEF Typed, TypeOK, KeyKnown, Maybe, MemoryReads, At, MayRun, Goto, Respond,
                 AwaitBackend, flightVars, storeVars
<1>1. ASSUME NEW t \in Requests, NEW k \in Keys, Arrive(t, k) PROVE MemoryReads'
  BY <1>1 DEF Arrive
<1>2. ASSUME NEW t \in Requests, Run(t) PROVE MemoryReads'
  <2>1. CASE \/ ReadCache(t, "readCache", "readFailure")
             \/ ReadCache(t, "recheckCache", "recheckFailure")
    BY <2>1 DEF ReadCache
  <2>2. CASE \/ ReadFailure(t, "readFailure", "enter")
             \/ ReadFailure(t, "recheckFailure", "fromFlight")
    BY <2>2 DEF ReadFailure
  <2>3. CASE Lead(t) \/ Follow(t) \/ FetchAlone(t)
    BY <2>3 DEF Lead, Follow, FetchAlone
  <2>4. CASE WriteCache(t) \/ WriteFailure(t) \/ Finish(t)
    BY <2>4 DEF WriteCache, WriteFailure, Finish
  <2>5. CASE Wake(t) \/ FromFlight(t) \/ BackendReadFails(t)
    BY <2>5 DEF Wake, FromFlight, BackendReadFails
  <2> QED
    BY <1>2, <2>1, <2>2, <2>3, <2>4, <2>5 DEF Run
<1>3. ASSUME NEW t \in Requests, Upstream(t) PROVE MemoryReads'
  BY <1>3 DEF Upstream, UpstreamSucceeds, UpstreamFails
<1>4. ASSUME NEW t \in Requests, WaitTimesOut(t) PROVE MemoryReads'
  BY <1>4 DEF WaitTimesOut
<1>5. ASSUME NEW t \in Requests, Cancel(t) PROVE MemoryReads'
  BY <1>5 DEF Cancel
<1>6. ASSUME NEW k \in Keys, Expire(k) PROVE MemoryReads'
  BY <1>6 DEF Expire, taskVars
<1>7. CASE UNCHANGED vars
  BY <1>7 DEF vars
<1> QED
  BY <1>1, <1>2, <1>3, <1>4, <1>5, <1>6, <1>7 DEF Next

\* With the memory backend a request goes upstream only on a miss that is
\* still a miss: the second look of the double-checked locking cannot be stale.
THEOREM MemoryMissIsFresh == Spec => MemoryNeverRefetches
<1>1. Typed /\ MemoryReads /\ [Next]_vars =>
        \A t \in Requests : (~suspends /\ pc[t] # "upstream" /\ pc'[t] = "upstream") =>
            cache[key[t]] = None /\ failMark[key[t]] = None
  <2> SUFFICES ASSUME Typed, MemoryReads, [Next]_vars, NEW t \in Requests,
                      ~suspends, pc[t] # "upstream", pc'[t] = "upstream"
               PROVE  cache[key[t]] = None /\ failMark[key[t]] = None
    OBVIOUS
  <2>1. pc[t] = "enter"
    BY DEF Typed, TypeOK, Next, vars, Arrive, Run, Upstream, WaitTimesOut, Cancel, Expire,
           ReadCache, ReadFailure, Lead, Follow, FetchAlone, WriteCache, WriteFailure, Finish,
           Wake, FromFlight, BackendReadFails, UpstreamSucceeds, UpstreamFails,
           At, Goto, Respond, taskVars
  <2> QED
    BY <2>1 DEF MemoryReads
<1>2. Init => Typed /\ MemoryReads
  BY InitTyped, InitOutcome
<1>3. Typed /\ MemoryReads /\ [Next]_vars => (Typed /\ MemoryReads)'
  BY NextTyped, NextMemoryReads
<1> QED
  BY <1>1, <1>2, <1>3, PTL DEF Spec, MemoryNeverRefetches

-----------------------------------------------------------------------------
(* The handler implements FetchOnce *)

Fetchers == {t \in Requests : pc[t] = "upstream"}
PromiseVars == <<coalesce, key, Fetchers, result, response>>

\* A step of one request to a place other than the upstream call, which
\* neither asks, settles nor answers, is a stutter of the promise.
LEMMA QuietStep ==
  ASSUME Typed, NEW t \in Requests, NEW l \in PCs \ {"upstream"},
         pc[t] # "upstream", pc' = [pc EXCEPT ![t] = l],
         UNCHANGED <<coalesce, key, result, response>>
  PROVE  UNCHANGED PromiseVars
<1>1. Fetchers' = Fetchers
  BY DEF Typed, TypeOK, Fetchers
<1> QED
  BY <1>1 DEF PromiseVars

\* A request that goes upstream joins the fetchers.
LEMMA FetchStep ==
  ASSUME Typed, Owned, OutcomeInv, NEW t \in Requests, pc[t] = "enter",
         pc' = [pc EXCEPT ![t] = "upstream"], coalesce => flights[key[t]] = None,
         UNCHANGED <<coalesce, key, result, response>>
  PROVE  Promise!Fetch(t)
<1>1. Fetchers' = Fetchers \cup {t}
  BY DEF Typed, TypeOK, Fetchers
<1>2. key[t] # None /\ response[t] = Unanswered /\ result[t] = "none" /\ t \notin Fetchers
  BY DEF OutcomeInv, Progress, Fetched, Typed, KeyKnown, Fetchers
<1>3. ASSUME coalesce, NEW u \in Fetchers PROVE key[u] # key[t]
  BY <1>3 DEF Owned, FetchersAreRegistered, Fetchers, Fetching
<1> QED
  BY <1>1, <1>2, <1>3 DEF Promise!Fetch, Promise!Waiting, Promise!IsFetching,
                          Promise!NoAnswer, Unanswered, Answer, Fetchers

\* The upstream call comes back.
LEMMA SettleStep ==
  ASSUME Typed, OutcomeInv, NEW t \in Requests, pc[t] = "upstream",
         NEW l \in PCs \ {"upstream"}, pc' = [pc EXCEPT ![t] = l],
         NEW o \in Promise!Outcomes, result' = [result EXCEPT ![t] = o],
         UNCHANGED <<coalesce, key, response>>
  PROVE  Promise!Settle(t, o)
<1>1. Fetchers' = Fetchers \ {t}
  BY DEF Typed, TypeOK, Fetchers
<1>2. key[t] # None /\ response[t] = Unanswered /\ t \in Fetchers
  BY DEF OutcomeInv, Progress, Typed, KeyKnown, Fetchers
<1> QED
  BY <1>1, <1>2 DEF Promise!Settle, Promise!Waiting, Promise!IsFetching,
                    Promise!NoAnswer, Unanswered, Answer, Fetchers

\* An answer with what a fetch of the same key ended with.
LEMMA AnswerStep ==
  ASSUME Typed, OutcomeInv, NEW t \in Requests, pc[t] \notin {"idle", "upstream", "done"},
         NEW f \in Requests, key[f] = key[t], NEW kind, Respond(t, kind, f),
         \/ kind \in Promise!Outcomes /\ result[f] = kind
         \/ kind = "marked" /\ result[f] = "upstreamError",
         UNCHANGED <<coalesce, key, result>>
  PROVE  Promise!AnswerFrom(t, f, kind)
<1>1. Fetchers' = Fetchers /\ t \notin Fetchers
  BY DEF Typed, TypeOK, Fetchers, Respond, Goto
<1>2. key[t] # None /\ response[t] = Unanswered
  BY DEF OutcomeInv, Progress, Typed, KeyKnown
<1> QED
  BY <1>1, <1>2 DEF Promise!AnswerFrom, Promise!Waiting, Promise!IsFetching,
                    Promise!NoAnswer, Unanswered, Answer, Fetchers, Respond

\* An answer that says no more than that there is none.
LEMMA GiveUpStep ==
  ASSUME Typed, OutcomeInv, NEW t \in Requests, pc[t] \notin {"idle", "done"},
         NEW kind, pc[t] = "upstream" => kind = "cancelled", Respond(t, kind, None),
         UNCHANGED <<coalesce, key, result>>
  PROVE  Promise!GiveUp(t, kind)
<1>1. Fetchers' = Fetchers \ {t}
  BY DEF Typed, TypeOK, Fetchers, Respond, Goto
<1>2. key[t] # None /\ response[t] = Unanswered
  BY DEF OutcomeInv, Progress, Typed, KeyKnown
<1> QED
  BY <1>1, <1>2 DEF Promise!GiveUp, Promise!Waiting, Promise!IsFetching,
                    Promise!NoAnswer, Unanswered, Answer, Fetchers, Respond

\* Nobody has asked to begin with.
LEMMA InitPromise == Init => Promise!Init
  BY DEF Init, Promise!Init, Promise!NoAnswer, Unanswered, Answer

\* Every step of the handler is a step or a stutter of the promise.
LEMMA StepPromise ==
  Typed /\ Owned /\ OutcomeInv /\ [Next]_vars => [Promise!Next]_PromiseVars
<1> SUFFICES ASSUME Typed, Owned, OutcomeInv, [Next]_vars
             PROVE  Promise!Next \/ UNCHANGED PromiseVars
  OBVIOUS
<1>0. UNCHANGED <<suspends, coalesce>>
  BY DEF Next, vars, configVars
<1> USE <1>0 DEF At, Goto, flightVars, storeVars
<1>1. ASSUME NEW t \in Requests, NEW k \in Keys, Arrive(t, k) PROVE Promise!Ask(t, k)
  <2>1. Fetchers' = Fetchers
    BY <1>1 DEF Arrive, Typed, TypeOK, Fetchers
  <2> QED
    BY <1>1, <2>1 DEF Arrive, Promise!Ask, OutcomeInv, Progress, Fetchers
<1>2. ASSUME NEW t \in Requests, Run(t) PROVE Promise!Next \/ UNCHANGED PromiseVars
  <2>0. pc[t] # "idle" => key[t] \in Keys
    BY DEF Typed, KeyKnown
  <2>1. CASE \/ ReadCache(t, "readCache", "readFailure")
             \/ ReadCache(t, "recheckCache", "recheckFailure")
    <3>1. CASE cache[key[t]] # None
      <4>1. LET f == cache[key[t]]
            IN  f \in Requests /\ key[f] = key[t] /\ result[f] = "payload"
        BY <2>0, <2>1, <3>1 DEF ReadCache, Typed, TypeOK, Maybe, OutcomeInv, Honest
      <4>2. Promise!AnswerFrom(t, cache[key[t]], "payload")
        BY <2>1, <3>1, <4>1, AnswerStep DEF ReadCache, Promise!Outcomes
      <4> QED
        BY <4>1, <4>2 DEF Promise!Next, Promise!Outcomes
    <3>2. CASE cache[key[t]] = None
      BY <2>1, <3>2, QuietStep DEF ReadCache, PCs
    <3> QED
      BY <3>1, <3>2
  <2>2. CASE \/ ReadFailure(t, "readFailure", "enter")
             \/ ReadFailure(t, "recheckFailure", "fromFlight")
    <3>1. CASE failMark[key[t]] # None
      <4>1. LET f == failMark[key[t]]
            IN  f \in Requests /\ key[f] = key[t] /\ result[f] = "upstreamError"
        BY <2>0, <2>2, <3>1 DEF ReadFailure, Typed, TypeOK, Maybe, OutcomeInv, Honest
      <4>2. Promise!AnswerFrom(t, failMark[key[t]], "marked")
        BY <2>2, <3>1, <4>1, AnswerStep DEF ReadFailure
      <4> QED
        BY <4>1, <4>2 DEF Promise!Next
    <3>2. CASE failMark[key[t]] = None
      BY <2>2, <3>2, QuietStep DEF ReadFailure, PCs
    <3> QED
      BY <3>1, <3>2
  <2>3. CASE Lead(t) \/ FetchAlone(t)
    <3>1. Promise!Fetch(t)
      BY <2>3, FetchStep DEF Lead, FetchAlone
    <3> QED
      BY <3>1 DEF Promise!Next
  <2>4. CASE Follow(t) \/ WriteCache(t) \/ WriteFailure(t) \/ Wake(t)
    BY <2>4, QuietStep DEF Follow, WriteCache, WriteFailure, Wake, PCs
  <2>5. CASE Finish(t)
    <3>1. result[t] \in Promise!Outcomes
      BY <2>5 DEF Finish, OutcomeInv, Fetched, Typed, TypeOK, Results, Promise!Outcomes
    <3>2. Promise!AnswerFrom(t, t, result[t])
      BY <2>5, <3>1, AnswerStep DEF Finish
    <3> QED
      BY <3>1, <3>2 DEF Promise!Next
  <2>6. CASE FromFlight(t)
    <3>1. flightOf[t] \in Requests /\ key[flightOf[t]] = key[t]
      BY <2>6 DEF FromFlight, OutcomeInv, Honest, Following
    <3>2. CASE flightOf[t] \in payload
      <4>1. Promise!AnswerFrom(t, flightOf[t], "payload")
        BY <2>6, <3>1, <3>2, AnswerStep DEF FromFlight, OutcomeInv, Honest, Promise!Outcomes
      <4> QED
        BY <3>1, <4>1 DEF Promise!Next, Promise!Outcomes
    <3>3. CASE flightOf[t] \notin payload /\ flightOf[t] \in error
      <4>1. result[flightOf[t]] \in Promise!Outcomes
        BY <3>3 DEF OutcomeInv, Honest, Promise!Outcomes
      <4>2. Promise!AnswerFrom(t, flightOf[t], result[flightOf[t]])
        BY <2>6, <3>1, <3>3, <4>1, AnswerStep DEF FromFlight
      <4> QED
        BY <3>1, <4>1, <4>2 DEF Promise!Next
    <3>4. CASE flightOf[t] \notin payload \cup error
      <4>1. Promise!GiveUp(t, "degraded")
        BY <2>6, <3>4, GiveUpStep DEF FromFlight
      <4> QED
        BY <4>1 DEF Promise!Next, Promise!Unavailable
    <3> QED
      BY <3>2, <3>3, <3>4
  <2>7. CASE BackendReadFails(t)
    <3>1. Promise!GiveUp(t, "backendError")
      BY <2>7, GiveUpStep DEF BackendReadFails
    <3> QED
      BY <3>1 DEF Promise!Next, Promise!Unavailable
  <2> QED
    BY <1>2, <2>1, <2>2, <2>3, <2>4, <2>5, <2>6, <2>7 DEF Run
<1>3. ASSUME NEW t \in Requests, Upstream(t) PROVE Promise!Next
  <2>1. \E o \in Promise!Outcomes : Promise!Settle(t, o)
    BY <1>3, SettleStep DEF Upstream, UpstreamSucceeds, UpstreamFails, PCs, Promise!Outcomes
  <2> QED
    BY <2>1 DEF Promise!Next
<1>4. ASSUME NEW t \in Requests, WaitTimesOut(t) PROVE Promise!Next
  <2>1. Promise!GiveUp(t, "timedOut")
    BY <1>4, GiveUpStep DEF WaitTimesOut
  <2> QED
    BY <2>1 DEF Promise!Next, Promise!Unavailable
<1>5. ASSUME NEW t \in Requests, Cancel(t) PROVE Promise!Next
  <2>1. Promise!GiveUp(t, "cancelled")
    BY <1>5, GiveUpStep DEF Cancel
  <2> QED
    BY <2>1 DEF Promise!Next, Promise!Unavailable
<1>6. ASSUME NEW k \in Keys, Expire(k) PROVE UNCHANGED PromiseVars
  BY <1>6 DEF Expire, taskVars, PromiseVars, Fetchers
<1>7. CASE UNCHANGED vars
  BY <1>7 DEF vars, PromiseVars, Fetchers
<1> QED
  BY <1>1, <1>2, <1>3, <1>4, <1>5, <1>6, <1>7 DEF Next, Promise!Next

\* The refinement: whatever is cached, coalesced, expired or cancelled, callers see a service
\* that fetches once and answers with somebody's fetch of their own key.
THEOREM HandlerImplementsFetchOnce == Spec => ImplementsFetchOnce
<1>1. Typed /\ Owned /\ OutcomeInv /\ [Next]_vars => [Promise!Next]_Promise!vars
  BY StepPromise DEF PromiseVars, Fetchers, Promise!vars
<1> QED
  BY InitPromise, OutcomeInvariant, <1>1, PTL DEF Spec, ImplementsFetchOnce, Promise!Spec

=============================================================================
