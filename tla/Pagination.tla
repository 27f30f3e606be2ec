------------------------------ MODULE Pagination ------------------------------
(***************************************************************************)
(* AsyncPager and the iterators above it (qqmusic_api/core/pagination.py). *)
(*                                                                         *)
(* A pager is read by one reader or by two at once, who call first and     *)
(* next until they are told to stop; or by iter_items, which takes the     *)
(* items of the pages up to a limit of its own.  A request may fail: the   *)
(* exception goes to the reader, who calls again.                          *)
(***************************************************************************)
EXTENDS PagedEndpoints

CONSTANTS
    Absent,       \* an argument left out
    MaxItems,     \* bound: items the server has
    MaxNum,       \* bound: page size
    MaxLimit,     \* bound: limits in pages and in items
    MaxFailures   \* bound: requests that fail

\* What chooses a page, and a page.
Params == [at : Int, page : Int, size : Int]
Pages == [from : Int, count : Int, total : Int, more : BOOLEAN, cursor : Int \cup {None}]

ASSUME PaginationAssumption ==
    /\ {MaxItems, MaxFailures} \subseteq Nat /\ {MaxNum, MaxLimit} \subseteq Nat \ {0}
    /\ None \notin Int \cup Params \cup Pages

VARIABLES
    strategy,  \* the request's pager_strategy and first parameters
    total,     \* items the server has
    given,     \* the limit the caller gives, or Absent
    alone,     \* there is one reader
    want,      \* limit of iter_items, or None for a reader of pages
    current,   \* _current_request: its parameters, or None
    yielded,   \* _yielded_count
    more,      \* _has_more
    firstPage, \* _first_response, or None
    awaiting,  \* of each reader: idle, stopped, or the call and its request
    taken,     \* items iter_items has yielded
    failures,  \* requests that failed
    delivered, \* history: items of the pages delivered
    repeated   \* history: an item was delivered again

setup == <<strategy, total, given, alone, want>>
pager == <<current, yielded, more, firstPage>>
vars == <<setup, pager, awaiting, taken, failures, delivered, repeated>>

-----------------------------------------------------------------------------

Readers == {1, 2}
Idle == <<"idle">>
Stopped == <<"stopped">>

\* PaginatedMixin.pager hands its own default, None, to AsyncPager.
Limit == IF given = Absent THEN None ELSE given

Start == Position(strategy, strategy.params)
Rest == Start .. total - 1
Items(response) == response.from .. response.from + response.count - 1

\* AsyncPager.has_more.
HasMore ==
    /\ Limit # None => yielded < Limit
    /\ yielded = 0 \/ (more /\ current # None)

Init ==
    /\ strategy \in UNION {Strategies(page, num) : page \in 1 .. 2, num \in 1 .. MaxNum}
    /\ total \in 0 .. MaxItems
    /\ given \in {Absent, None} \cup 1 .. MaxLimit
    /\ want \in {None} \cup 1 .. MaxLimit /\ (want # None => given = Absent)
    /\ current = strategy.params
    /\ yielded = 0 /\ more = TRUE /\ firstPage = None
    /\ alone \in BOOLEAN /\ (want # None => alone)
    /\ awaiting = [r \in Readers |-> IF r = 2 /\ alone THEN Stopped ELSE Idle]
    /\ taken = 0 /\ failures = 0 /\ delivered = {} /\ repeated = FALSE

-----------------------------------------------------------------------------

Awaits(r, what) == awaiting' = [awaiting EXCEPT ![r] = what]

\* Faulty: past the end, next returns instead of raising StopAsyncIteration.
NextNeverStops(r) ==
    /\ awaiting[r] = Idle
    /\ Awaits(r, IF HasMore /\ current # None THEN <<"next", current>> ELSE Idle)
    /\ UNCHANGED <<setup, pager, taken, failures, delivered, repeated>>

\* next: StopAsyncIteration, or a request goes out.
CallNext(r) ==
    /\ awaiting[r] = Idle
    /\ Awaits(r, IF HasMore /\ current # None THEN <<"next", current>> ELSE Stopped)
    /\ UNCHANGED <<setup, pager, taken, failures, delivered, repeated>>

\* first: the page it has, StopAsyncIteration, or a request.
CallFirst(r) ==
    /\ awaiting[r] = Idle /\ want = None
    /\ firstPage = None /\ HasMore
    /\ Awaits(r, <<"first", strategy.params>>)
    /\ UNCHANGED <<setup, pager, taken, failures, delivered, repeated>>

\* The request raises.
Fail(r) ==
    /\ awaiting[r] \notin {Idle, Stopped} /\ failures < MaxFailures
    /\ failures' = failures + 1
    /\ Awaits(r, Idle)
    /\ UNCHANGED <<setup, pager, taken, delivered, repeated>>

Deliver(response) ==
    /\ delivered' = delivered \cup Items(response)
    /\ repeated' = (repeated \/ delivered \cap Items(response) # {})

\* The pager after a page: where it goes on from params.
Advance(params, response) ==
    /\ yielded' = yielded + 1
    /\ current' = NextRequest(strategy, params, response)
    /\ more' = (more /\ current' # None)

\* Faulty: a page that does not fit the limit is not taken from at all.
ConsumeWhole(r, response) ==
    IF want = None THEN Awaits(r, Idle) /\ UNCHANGED taken
    ELSE IF taken + response.count > want THEN UNCHANGED taken /\ Awaits(r, Stopped)
    ELSE taken' = taken + response.count /\ Awaits(r, Idle)

\* iter_items yields what the limit leaves it, and stops at an item beyond; until then the
\* pages go on.
Consume(r, response) ==
    IF want = None THEN Awaits(r, Idle) /\ UNCHANGED taken
    ELSE /\ taken' = IF taken + response.count > want THEN want ELSE taken + response.count
         /\ Awaits(r, IF taken + response.count > want THEN Stopped ELSE Idle)

PageComes(r) ==
    /\ awaiting[r][1] = "next"
    /\ \E response \in Responses(strategy, awaiting[r][2], total) :
          /\ firstPage' = IF firstPage = None THEN response ELSE firstPage
          /\ Advance(awaiting[r][2], response)
          /\ Deliver(response)
          /\ Consume(r, response)
    /\ UNCHANGED <<setup, failures>>

\* The first page: only while nothing else has come does it move the pager.
FirstComes(r) ==
    /\ awaiting[r][1] = "first"
    /\ \E response \in Responses(strategy, awaiting[r][2], total) :
          /\ firstPage' = response
          /\ IF yielded = 0 THEN Advance(awaiting[r][2], response)
             ELSE UNCHANGED <<current, yielded, more>>
          /\ Deliver(response)
          /\ Consume(r, response)
    /\ UNCHANGED <<setup, failures>>

Step(r) == CallNext(r) \/ PageComes(r) \/ FirstComes(r)

Next == \E r \in Readers : Step(r) \/ CallFirst(r) \/ Fail(r)

Spec == Init /\ [][Next]_vars

\* Readers go on calling, requests end.
FairSpec == Spec /\ \A r \in Readers : WF_vars(Step(r))

-----------------------------------------------------------------------------
(* Properties *)

\* What has been delivered is an unbroken run from the first page, though requests fail and
\* two readers overlap; a reader alone is given nothing twice and no more pages than the limit.
PagesJoin ==
    /\ \E end \in 0 .. MaxItems : delivered = {i \in Rest : i < end}
    /\ alone => ~repeated /\ (Limit # None => yielded <= Limit)

\* Whoever is told to stop has come to the end of the list or of a limit, and iter_items has
\* then yielded as many items as there are within its limit.
EndIsReal ==
    \A r \in Readers :
        awaiting[r] = Stopped /\ (r = 1 \/ ~alone) =>
            IF want = None THEN delivered = Rest \/ (Limit # None /\ yielded >= Limit)
            ELSE taken = IF Cardinality(Rest) < want THEN Cardinality(Rest) ELSE want

\* Every strategy comes to an end of a finite list.
ReadingEnds == <>(\A r \in Readers : awaiting[r] = Stopped)
=============================================================================
