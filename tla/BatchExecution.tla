---------------------------- MODULE BatchExecution ----------------------------
(***************************************************************************)
(* RequestEngine.gather (qqmusic_api/core/engine.py), the two executors it *)
(* runs side by side (executor.py) and the workers that send for them when *)
(* the transport has no batches of its own (transport.py, send_many).      *)
(*                                                                         *)
(* The CGI executor puts calls of one key into envelopes of at most        *)
(* batchSize, the HTTP executor sends each call by itself: one physical    *)
(* request is the sequence of the calls it carries.  Both prepare their    *)
(* requests in turn, send them with MaxConcurrency workers and decode.     *)
(***************************************************************************)
EXTENDS ApiCatalog, Sequences, FiniteSetsExt, SequencesExt

CONSTANTS
    Methods,        \* methods of the catalogue that are called
    Credentials,    \* credentials of their scopes
    NoCredential,   \* the one that is not valid
    MaxCalls,       \* bound: calls of one gather
    MaxBatch,       \* bound of batch_size
    MaxConcurrency  \* workers of one send_many

ASSUME BatchAssumption ==
    /\ Methods \subseteq Catalog
    /\ NoCredential \in Credentials
    /\ {MaxCalls, MaxBatch, MaxConcurrency} \subseteq Nat \ {0}

VARIABLES
    calls,     \* the calls in their order: executor, key and whether a required login is missing
    batchSize, \* batch_size
    keep,      \* return_exceptions
    stage,     \* where each executor is
    batches,   \* its physical requests in their order, once it has put them together
    seen,      \* how many of them it has tried to prepare
    prepared,  \* those it could prepare
    outcomes,  \* of each prepared request: unsent, sent, or what came of it
    found,     \* what the executor has for each call
    results,   \* the list gather fills
    gather,    \* running, or how gather ended
    fate       \* history: what became of each call outside

vars ==
    <<calls, batchSize, keep, stage, batches, seen, prepared, outcomes, found, results, gather, fate>>
askedVars == <<calls, batchSize, keep>>

-----------------------------------------------------------------------------

Executors == {"cgi", "http"}
Calls == 1 .. Len(calls)
Ended == {"done", "failed", "cancelled"}
Missing == <<"missing">>
Unsent == <<"unsent">>
Sent == <<"sent">>
Unusable == <<"unusable">>
Abandoned == <<"abandoned">>
Items(items) == <<"items", items>>
Value(i) == <<"value", i>>
Error(about) == <<"error", about>>

\* What gather and the executors see of a call.
Call(method, credential) ==
    [via |-> method.via, key |-> BatchKey(method, "android", credential),
     denied |-> NeedsLogin(method, credential # NoCredential)]
CallKinds == {Call(method, credential) : method \in Methods, credential \in Credentials}

\* Calls of executor e; those without the login they require go nowhere.
Owned(e) == {i \in Calls : calls[i].via = e}
Denied(e) == {i \in Owned(e) : calls[i].denied}
Admitted(e) == Owned(e) \ Denied(e)

\* The members of S in the order in which below[i] are those before i.
InTurn(S, below) ==
    [k \in 1 .. Cardinality(S) |-> CHOOSE i \in S : Cardinality(below[i]) = k - 1]
Earlier(S) == [i \in S |-> {j \in S : j < i}]

\* Faulty: the key is forgotten.
OneGroup(e, i) == IF e = "http" THEN {i} ELSE Admitted(e)

\* The calls that may share a request with i, and how many of them come before it.
Group(e, i) == IF e = "http" THEN {i} ELSE {j \in Admitted(e) : calls[j].key = calls[i].key}
Place(e, i) == Cardinality(Earlier(Group(e, i))[i])

\* A group in chunks of batchSize: their first calls, and the chunk that starts with call i.
Heads(e) == {i \in Admitted(e) : Place(e, i) % batchSize = 0}
Chunk(e, i) == {j \in Group(e, i) : Place(e, j) \in Place(e, i) .. Place(e, i) + batchSize - 1}

\* Groups in the order of their first calls, the chunks of each in turn.
Sooner(e) ==
    LET first(i) == Min(Group(e, i))
    IN  [i \in Heads(e) |->
            {j \in Heads(e) : first(j) < first(i) \/ (first(j) = first(i) /\ j < i)}]

Physical(e) ==
    LET request == [i \in Heads(e) |-> InTurn(Chunk(e, i), Earlier(Chunk(e, i)))]
        heads == InTurn(Heads(e), Sooner(e))
    IN  [p \in DOMAIN heads |-> request[heads[p]]]

Init ==
    /\ calls \in UNION {[1 .. n -> CallKinds] : n \in 1 .. MaxCalls}
    /\ batchSize \in 1 .. MaxBatch
    /\ keep \in BOOLEAN
    /\ stage = [e \in Executors |-> IF Owned(e) = {} THEN "done" ELSE "start"]
    /\ batches = [e \in Executors |-> <<>>]
    /\ seen = [e \in Executors |-> 0]
    /\ prepared = [e \in Executors |-> <<>>]
    /\ outcomes = [e \in Executors |-> <<>>]
    /\ found = [e \in Executors |-> [i \in Calls |-> Missing]]
    /\ results = [i \in Calls |-> Missing]
    /\ gather = "running"
    /\ fate = [i \in Calls |-> "none"]

-----------------------------------------------------------------------------

Goes(e, place) == stage' = [stage EXCEPT ![e] = place]

\* Faulty: the error of a request reaches only its first call.
SpoilFirst(e, S) ==
    found' = [found EXCEPT ![e] = [i \in Calls |-> IF i = Min(S) THEN Error({i}) ELSE @[i]]]

\* The same error for every call in S.
Spoil(e, S) == found' = [found EXCEPT ![e] = [i \in Calls |-> IF i \in S THEN Error(S) ELSE @[i]]]
Befalls(what, S) == fate' = [i \in Calls |-> IF i \in S THEN what ELSE fate[i]]

\* execute_many returns and gather takes over what it found.
Scatter(e) ==
    /\ Goes(e, "done")
    /\ results' = [i \in Calls |-> IF found'[e][i] # Missing THEN found'[e][i] ELSE results[i]]

\* The logins, all before anything is prepared.
Check(e) ==
    /\ stage[e] = "start"
    /\ Befalls("failed", Denied(e))
    /\ found' = [found EXCEPT ![e] =
                    [i \in Calls |-> IF i \in Denied(e) THEN Error({i}) ELSE @[i]]]
    /\ IF Denied(e) # {} /\ ~keep THEN Goes(e, "failed") /\ UNCHANGED <<batches, results>>
       ELSE IF Admitted(e) = {} THEN Scatter(e) /\ UNCHANGED batches
       ELSE /\ Goes(e, "prepare")
            /\ batches' = [batches EXCEPT ![e] = Physical(e)]
            /\ UNCHANGED results
    /\ UNCHANGED <<askedVars, seen, prepared, outcomes, gather>>

\* _prepare_batch or prepare of the next request.
Prepare(e) ==
    /\ stage[e] = "prepare" /\ seen[e] < Len(batches[e])
    /\ seen' = [seen EXCEPT ![e] = @ + 1]
    /\ LET request == batches[e][seen[e] + 1] IN
       \/ /\ prepared' = [prepared EXCEPT ![e] = Append(@, request)]
          /\ outcomes' = [outcomes EXCEPT ![e] = Append(@, Unsent)]
          /\ UNCHANGED <<stage, found, fate>>
       \/ /\ Befalls("failed", ToSet(request))
          /\ IF keep THEN Spoil(e, ToSet(request)) /\ UNCHANGED stage
             ELSE Goes(e, "failed") /\ UNCHANGED found
          /\ UNCHANGED <<prepared, outcomes>>
    /\ UNCHANGED <<askedVars, batches, results, gather>>

Prepared(e) ==
    /\ stage[e] = "prepare" /\ seen[e] = Len(batches[e])
    /\ IF prepared[e] = <<>> THEN UNCHANGED found /\ Scatter(e)
       ELSE Goes(e, "send") /\ UNCHANGED <<found, results>>
    /\ UNCHANGED <<askedVars, batches, seen, prepared, outcomes, gather, fate>>

Positions(e, what) == {p \in 1 .. Len(prepared[e]) : outcomes[e][p] = what}

\* A free worker takes the next request.
Send(e) ==
    /\ stage[e] = "send" /\ Positions(e, Unsent) # {}
    /\ Cardinality(Positions(e, Sent)) < MaxConcurrency
    /\ outcomes' = [outcomes EXCEPT ![e][Min(Positions(e, Unsent))] = Sent]
    /\ UNCHANGED <<askedVars, stage, batches, seen, prepared, found, results, gather, fate>>

\* A response: an unusable envelope, or one item per call, good or bad.
Respond(e, p) ==
    /\ stage[e] = "send" /\ outcomes[e][p] = Sent
    /\ \/ /\ outcomes' = [outcomes EXCEPT ![e][p] = Unusable]
          /\ Befalls("failed", ToSet(prepared[e][p]))
       \/ \E good \in SUBSET ToSet(prepared[e][p]) :
             /\ outcomes' = [outcomes EXCEPT ![e][p] =
                   Items([k \in 1 .. Len(prepared[e][p]) |->
                       IF prepared[e][p][k] \in good THEN Value(prepared[e][p][k])
                       ELSE Error({prepared[e][p][k]})])]
             /\ fate' = [i \in Calls |-> IF i \in good THEN "answered"
                                         ELSE IF i \in ToSet(prepared[e][p]) THEN "failed"
                                         ELSE fate[i]]
    /\ UNCHANGED <<askedVars, stage, batches, seen, prepared, found, results, gather>>

\* Requests under way are abandoned, those not yet sent never are.
Abandon(e) ==
    outcomes' = [outcomes EXCEPT ![e] =
        [p \in DOMAIN @ |-> IF @[p] \in {Unsent, Sent} THEN Abandoned ELSE @[p]]]

\* Faulty: the error ends the task group without cancelling its other workers.
LeaveOthersRunning(e, p) ==
    /\ stage[e] = "send" /\ outcomes[e][p] = Sent
    /\ Befalls("failed", ToSet(prepared[e][p]))
    /\ IF keep
       THEN outcomes' = [outcomes EXCEPT ![e][p] = Unusable] /\ UNCHANGED stage
       ELSE Goes(e, "failed") /\ outcomes' = [outcomes EXCEPT ![e][p] = Unusable]
    /\ UNCHANGED <<askedVars, batches, seen, prepared, found, results, gather>>

\* The transport raises: unless errors are kept the first one cancels the other workers.
SendFails(e, p) ==
    /\ stage[e] = "send" /\ outcomes[e][p] = Sent
    /\ Befalls("failed", ToSet(prepared[e][p]))
    /\ IF keep THEN outcomes' = [outcomes EXCEPT ![e][p] = Unusable] /\ UNCHANGED stage
       ELSE Goes(e, "failed") /\ Abandon(e)
    /\ UNCHANGED <<askedVars, batches, seen, prepared, found, results, gather>>

\* What the outcome of a request means for each of its calls.
Decoded(request, outcome) ==
    [i \in ToSet(request) |->
        IF outcome = Unusable THEN Error(ToSet(request))
        ELSE outcome[2][CHOOSE k \in 1 .. Len(request) : request[k] = i]]

\* All workers are through: decode, keep or raise.
Decode(e) ==
    /\ stage[e] = "send" /\ Positions(e, Unsent) \cup Positions(e, Sent) = {}
    /\ LET carrier(i) == {p \in 1 .. Len(prepared[e]) : i \in ToSet(prepared[e][p])}
           value(i) == LET p == CHOOSE p \in carrier(i) : TRUE
                       IN  Decoded(prepared[e][p], outcomes[e][p])[i]
           decoded == {i \in Calls : carrier(i) # {}}
       IN  /\ found' = [found EXCEPT ![e] =
                            [i \in Calls |-> IF i \in decoded THEN value(i) ELSE @[i]]]
           /\ IF ~keep /\ \E i \in decoded : value(i) # Value(i)
              THEN Goes(e, "failed") /\ UNCHANGED results
              ELSE Scatter(e)
    /\ UNCHANGED <<askedVars, batches, seen, prepared, outcomes, gather, fate>>

\* The task group of gather stops what is left of an executor when the other has raised or
\* the caller is cancelled.
Stop(e) ==
    /\ stage[e] \notin Ended
    /\ gather = "cancelled" \/ \E other \in Executors : stage[other] = "failed"
    /\ Goes(e, "cancelled")
    /\ Abandon(e)
    /\ UNCHANGED <<askedVars, batches, seen, prepared, found, results, gather, fate>>

\* Faulty: the executors are waited for by their results.
ReturnWhenFilled ==
    /\ gather = "running"
    /\ \A i \in Calls : results[i] # Missing
    /\ gather' = "returned"
    /\ UNCHANGED <<askedVars, stage, batches, seen, prepared, outcomes, found, results, fate>>

\* gather returns its list, or raises: an exception group, or ApiDataError for a hole.
Return ==
    /\ gather = "running"
    /\ \A e \in Executors : stage[e] \in Ended
    /\ gather' = IF (\A e \in Executors : stage[e] = "done") /\ (\A i \in Calls : results[i] # Missing)
                 THEN "returned" ELSE "raised"
    /\ UNCHANGED <<askedVars, stage, batches, seen, prepared, outcomes, found, results, fate>>

\* The caller is cancelled, or gather's operation by close.
Cancel ==
    /\ gather = "running"
    /\ gather' = "cancelled"
    /\ UNCHANGED <<askedVars, stage, batches, seen, prepared, outcomes, found, results, fate>>

Step(e) ==
    \/ Check(e) \/ Prepare(e) \/ Prepared(e) \/ Send(e) \/ Decode(e) \/ Stop(e)
    \/ \E p \in 1 .. Len(prepared[e]) : Respond(e, p) \/ SendFails(e, p)

Next == (\E e \in Executors : Step(e)) \/ Return \/ Cancel

Spec == Init /\ [][Next]_vars

\* The loop runs what is ready; the timeouts of the transport end every request.
FairSpec == Spec /\ WF_vars(Return) /\ \A e \in Executors : WF_vars(Step(e))

-----------------------------------------------------------------------------
(* Properties *)

\* "结果仍按传入顺序返回", "失败项会以异常对象的形式出现在对应位置" (docs/tutorial/client.md):
\* in a returned list every call that was answered has its own answer, every other an error
\* about a request that carried it; without return_exceptions there is no list once a call
\* has failed, with it there always is one.
ResultsInPlace ==
    /\ gather = "returned" =>
          \A i \in Calls :
             \/ fate[i] = "answered" /\ results[i] = Value(i)
             \/ /\ keep /\ fate[i] = "failed"
                /\ results[i][1] = "error" /\ i \in results[i][2]
                /\ \A j \in results[i][2] : calls[j].key = calls[i].key /\ fate[j] = "failed"
    /\ gather = "raised" => ~keep /\ \E i \in Calls : fate[i] = "failed"

\* Calls share an envelope only under one key, so none is sent with the credential or the
\* platform of another, and every admitted call is in exactly one request.
EnvelopesShareOneScope ==
    \A e \in Executors :
        LET requests == batches[e] IN
        stage[e] \in {"prepare", "send"} =>
        /\ \A p \in DOMAIN requests :
              /\ Len(requests[p]) \in 1 .. batchSize
              /\ \A i, j \in ToSet(requests[p]) : calls[i].key = calls[j].key
        /\ \A i \in Admitted(e) :
              Cardinality({p \in DOMAIN requests : i \in ToSet(requests[p])}) = 1

\* No more requests are under way than there are workers, and none outlives its executor.
NothingRunsOn ==
    \A e \in Executors :
        Cardinality(Positions(e, Sent)) <= IF stage[e] = "send" THEN MaxConcurrency ELSE 0

\* Executors end, and gather with them.
GatherEnds == <>[](gather # "running" /\ \A e \in Executors : stage[e] \in Ended)
=============================================================================
