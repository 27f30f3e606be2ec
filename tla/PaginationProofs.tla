--------------------------- MODULE PaginationProofs ---------------------------
(***************************************************************************)
(* For lists, pages and limits of any length, and every strategy of        *)
(* PagedEndpoints, what a pager delivers is an unbroken run from the first *)
(* page, though requests fail and two readers overlap; a reader that is    *)
(* told to stop has come to the end of the list or of a limit.             *)
(*                                                                         *)
(* The proof has two halves.  One page (NextPageJoins): whatever page the  *)
(* server fills, the request after it starts where the page ended, and     *)
(* there is none only at the end of the list.  The pager (PagerInv):       *)
(* every request in play starts within what has been delivered, so no page *)
(* leaves a gap, even when the slower of two readers moves the pager back. *)
(***************************************************************************)
EXTENDS Pagination, FiniteSetTheorems, TLAPS

USE PaginationAssumption

-----------------------------------------------------------------------------
(* The strategies *)

\* What the strategies have in common: how each kind learns that there is more.
Sound(s) ==
  /\ s.params \in Params /\ s.params.size \in Nat \ {0}
  /\ s.start \in Int /\ s.zero \in Int
  /\ Position(s, s.params) \in Nat
  /\ \/ /\ s.kind = "page"
        /\ \/ s.extracts \in {{"more"}, {"more", "total"}, {"count"}}
           \/ s.extracts = {"total"} /\ s.start = s.zero
     \/ /\ s.kind = "offset"
        /\ s.extracts \in {{"total", "count"}, {"more", "total", "count"}, {"total"}, {"count"}}
     \/ s.kind = "cursor" /\ s.extracts \in {{}, {"more"}, {"count"}}
     \/ /\ s.kind = "fields"
        /\ \/ s.build \in {"index", "feed", "lastItem"} /\ s.extracts = {}
           \/ s.build \in {"search", "comments", "lastItem"} /\ s.extracts = {"more"}
           \/ s.build = "feed" /\ s.extracts = {"count"}

\* A request of strategy s, for a page from `start` on.
Request(s, q) == q \in Params /\ q.size = s.params.size /\ Position(s, q) >= Position(s, s.params)

-----------------------------------------------------------------------------
(* The inductive invariant *)

\* The end of the list, or its start where a caller starts beyond it.
Last == IF Start < total THEN total ELSE Start

\* A request that is, or may still be, made: it starts at `end` or before.
Within(q, end) == Request(strategy, q) /\ Position(strategy, q) <= end

Asks(r) == awaiting[r] \notin {Idle, Stopped}

PagerTypes ==
  /\ Sound(strategy) /\ total \in 0 .. MaxItems
  /\ given \in {Absent, None} \cup 1 .. MaxLimit
  /\ want \in {None} \cup 1 .. MaxLimit
  /\ alone \in BOOLEAN /\ (want # None => alone /\ given = Absent)
  /\ current \in Params \cup {None} /\ yielded \in Nat /\ more \in BOOLEAN
  /\ firstPage \in Pages \cup {None}
  /\ awaiting \in [Readers -> {Idle, Stopped} \cup ({"first", "next"} \X Params)]
  /\ taken \in Nat /\ repeated \in BOOLEAN

\* All is delivered before `end`; no request in play starts beyond; where the
\* pager sees no further page there is none.
Reached(end) ==
  /\ delivered = Start .. end - 1
  /\ current # None => Within(current, end)
  /\ \A r \in Readers : Asks(r) => Within(awaiting[r][2], end)
  /\ current = None \/ ~more => end = Last

\* Whoever has stopped was right to.
StoppedAt(end) ==
  \A r \in Readers :
    awaiting[r] = Stopped /\ (r = 1 \/ ~alone) =>
      IF want = None THEN end = Last \/ (Limit # None /\ yielded >= Limit)
      ELSE end = Last \/ taken = want

\* A reader alone asks for each page once, where the last one ended.
AloneAt(end) ==
  alone =>
    /\ ~repeated /\ awaiting[2] = Stopped
    /\ current # None => Position(strategy, current) = end
    /\ firstPage = None => yielded = 0 /\ end = Start /\ current = strategy.params
    /\ Asks(1) =>
          /\ awaiting[1][2] = current
          /\ awaiting[1][1] = "first" => firstPage = None
          /\ Limit # None => yielded < Limit
    /\ Limit # None => yielded <= Limit
    /\ want # None => taken = IF end - Start < want THEN end - Start ELSE want

PagerInv ==
  /\ PagerTypes
  /\ \E end \in Start .. Last : Reached(end) /\ StoppedAt(end) /\ AloneAt(end)

-----------------------------------------------------------------------------
(* Every strategy is sound *)

\* A caller's first page is 1 or a later one; the items before it are skipped.
LEMMA FirstItem ==
  ASSUME NEW page \in 1 .. 2, NEW num \in Nat \ {0}
  PROVE  /\ num * (page - 1) \in Nat /\ (page - 1) * num \in Nat
         /\ (page - 1 - 0) * num \in Nat
  BY SMT

\* The four constructors build sound strategies.
LEMMA OffsetIsSound ==
  ASSUME NEW at \in Nat, NEW num \in Nat \ {0},
         NEW extracts \in {{"total", "count"}, {"more", "total", "count"}, {"total"}, {"count"}}
  PROVE  Sound(OffsetStrategy(at, num, extracts))
  BY DEF Sound, OffsetStrategy, Strategy, Position, Params

LEMMA CursorIsSound ==
  ASSUME NEW at \in Nat, NEW num \in Nat \ {0}, NEW extracts \in {{}, {"more"}, {"count"}}
  PROVE  Sound(CursorStrategy(at, num, extracts))
  BY DEF Sound, CursorStrategy, Strategy, Position, Params

LEMMA PageIsSound ==
  ASSUME NEW page \in Int, NEW zero \in Int, NEW num \in Nat \ {0}, (page - zero) * num \in Nat,
         NEW extracts,
         \/ extracts \in {{"more"}, {"more", "total"}, {"count"}}
         \/ extracts = {"total"} /\ page = zero
  PROVE  Sound(PageStrategy(page, zero, num, extracts))
  BY DEF Sound, PageStrategy, Strategy, Position, Params

LEMMA FieldsAreSound ==
  ASSUME NEW at \in Nat, NEW page \in Int, NEW num \in Nat \ {0}, NEW extracts, NEW build,
         \/ build \in {"index", "feed", "lastItem"} /\ extracts = {}
         \/ build \in {"search", "comments", "lastItem"} /\ extracts = {"more"}
         \/ build = "feed" /\ extracts = {"count"}
  PROVE  Sound(Continuation(at, page, num, extracts, build))
  BY DEF Sound, Continuation, Strategy, Position, Params

\* How each paged method sets its strategy up, and those a caller may build.
LEMMA EveryStrategyIsSound ==
  ASSUME NEW page \in 1 .. 2, NEW num \in Nat \ {0}, NEW s \in Strategies(page, num)
  PROVE  Sound(s)
<1> DEFINE before == (page - 1) * num
<1>1. /\ before \in Nat /\ num * (page - 1) = before
      /\ (page - 1 - 0) * num \in Nat /\ (1 - 1) * num \in Nat
  BY FirstItem
<1>2. ASSUME NEW e \in {{"total", "count"}, {"more", "total", "count"}, {"total"}, {"count"}}
      PROVE  Sound(OffsetStrategy(before, num, e)) /\ Sound(OffsetStrategy(num * (page - 1), num, e))
  BY <1>1, OffsetIsSound
<1>3. ASSUME NEW e \in {{}, {"more"}, {"count"}}
      PROVE  Sound(CursorStrategy(before, num, e)) /\ Sound(CursorStrategy(num * (page - 1), num, e))
  BY <1>1, CursorIsSound
<1>4. /\ \A e \in {{"more"}, {"more", "total"}, {"count"}} :
            Sound(PageStrategy(page, 1, num, e)) /\ Sound(PageStrategy(page - 1, 0, num, e))
      /\ Sound(PageStrategy(1, 1, num, {"total"}))
  BY <1>1, PageIsSound
<1>5. ASSUME NEW p \in Int
      PROVE  /\ \A b \in {"index", "feed", "lastItem"} : Sound(Continuation(before, p, num, {}, b))
             /\ \A b \in {"search", "comments", "lastItem"} :
                   /\ Sound(Continuation(before, p, num, {"more"}, b))
                   /\ Sound(Continuation(num * (page - 1), p, num, {"more"}, b))
             /\ Sound(Continuation(before, p, num, {"count"}, "feed"))
  BY <1>1, FieldsAreSound
<1>6. CASE s \in CustomStrategies(page, num)
  BY <1>2, <1>3, <1>4, <1>5, <1>6 DEF CustomStrategies
<1>7. /\ Sound(top_get_detail(page, num)) /\ Sound(mv_get_mv_list(page, num))
      /\ Sound(singer_get_songs_list(page, num)) /\ Sound(singer_get_album_list(page, num))
      /\ Sound(singer_get_mv_list(page, num)) /\ Sound(album_get_song(page, num))
      /\ Sound(album_get_new_album(page, num)) /\ Sound(songlist_get_detail(page, num))
      /\ Sound(user_get_follow_singers(page, num)) /\ Sound(user_get_fans(page, num))
      /\ Sound(user_get_follow_user(page, num)) /\ Sound(user_get_fav_song(page, num))
      /\ Sound(user_get_fav_songlist(page, num)) /\ Sound(user_get_fav_album(page, num))
  BY <1>2 DEF top_get_detail, mv_get_mv_list, singer_get_songs_list, singer_get_album_list,
     singer_get_mv_list, album_get_song, album_get_new_album, songlist_get_detail,
     user_get_follow_singers, user_get_fans, user_get_follow_user, user_get_fav_song,
     user_get_fav_songlist, user_get_fav_album
<1>8. /\ Sound(singer_get_tab_detail(page, num)) /\ Sound(search_by_type(page, num))
      /\ Sound(recommend_get_radar_recommend(page, num)) /\ Sound(user_get_friend(page, num))
  BY <1>4 DEF singer_get_tab_detail, search_by_type, recommend_get_radar_recommend, user_get_friend
<1>9. /\ Sound(recommend_get_recommend_songlist(page, num))
      /\ Sound(song_get_related_songlist(num * (page - 1), num))
      /\ Sound(song_get_related_mv(num * (page - 1), num))
      /\ Sound(comment_get_moment_comments(num * (page - 1), num))
  BY <1>3 DEF recommend_get_recommend_songlist, song_get_related_songlist, song_get_related_mv,
     comment_get_moment_comments
<1>10. /\ Sound(singer_get_singer_list_index(page, num)) /\ Sound(search_general_search(page, num))
       /\ Sound(comment_get_hot_comments(page, num)) /\ Sound(comment_get_new_comments(page, num))
       /\ Sound(comment_get_recommend_comments(page, num)) /\ Sound(recommend_get_home_feed(page, num))
       /\ Sound(user_get_dislike_list(page, num))
       /\ Sound(private_get_sessions(num * (page - 1), num))
       /\ Sound(private_get_messages(num * (page - 1), num))
  BY <1>5 DEF singer_get_singer_list_index, search_general_search, comment_strategy,
     comment_get_hot_comments, comment_get_new_comments, comment_get_recommend_comments,
     recommend_get_home_feed, user_get_dislike_list, private_get_sessions, private_get_messages
<1> QED
  BY <1>6, <1>7, <1>8, <1>9, <1>10 DEF Strategies

-----------------------------------------------------------------------------
(* One page *)

\* One more page is one page size further.
LEMMA OnePageOn ==
  ASSUME NEW page \in Int, NEW zero \in Int, NEW size \in Int,
         NEW onward, onward = page + 1, NEW same, same = size
  PROVE  /\ (onward - zero) * same = (page - zero) * size + size
         /\ (page - zero + 1) * size = (page - zero) * size + size
  BY SMT

LEMMA PositionIsInt ==
  ASSUME NEW s, Sound(s), NEW q \in Params
  PROVE  Position(s, q) \in Int
<1>1. (q.page - s.zero) * q.size \in Int
  BY SMT DEF Sound, Params
<1> QED
  BY <1>1 DEF Position, Params

\* A page starts where it was asked for, is no longer than asked and no longer
\* than the list, and is empty only at the end of the list.
LEMMA PageFits ==
  ASSUME NEW s, Sound(s), NEW n \in Nat, NEW q, Request(s, q), NEW page \in Responses(s, q, n)
  PROVE  /\ page \in Pages /\ page.from = Position(s, q) /\ page.total = n
         /\ page.count \in 0 .. q.size
         /\ page.count > 0 => page.from + page.count <= n
         /\ page.count = 0 => page.from >= n
         /\ page.more <=> page.from + page.count < n
         /\ page.cursor = IF page.count = 0 THEN None ELSE page.from + page.count
         /\ FillsPages(s) => page.count = q.size \/ page.from + page.count >= n
<1>1. Position(s, q) \in Nat /\ q.size \in Nat \ {0}
  BY PositionIsInt DEF Request, Sound
<1> DEFINE from == Position(s, q)
           left == IF n > from THEN n - from ELSE 0
           most == IF left < q.size THEN left ELSE q.size
<1>2. PICK count \in (IF FillsPages(s) \/ most = 0 THEN {most} ELSE 1 .. most) :
         page = Response(from, count, n)
  BY DEF Responses
<1>3. most \in Nat /\ most <= q.size /\ (n > from => from + most <= n)
      /\ (most = 0 => from >= n) /\ (n <= from => most = 0)
      /\ (most # q.size => from + most >= n)
  BY <1>1
<1>4. count \in 0 .. most /\ (count = 0 => most = 0) /\ (FillsPages(s) => count = most)
  BY <1>2, <1>3
<1>5. /\ page.from = from /\ page.count = count /\ page.total = n
      /\ page.more = (from + count < n)
      /\ page.cursor = IF count = 0 THEN None ELSE from + count
  BY <1>2 DEF Response
<1>6. page \in Pages
  BY <1>1, <1>2, <1>3, <1>4 DEF Response, Pages
<1>7. count \in 0 .. q.size /\ (count > 0 => from + count <= n) /\ (count = 0 => from >= n)
      /\ (FillsPages(s) => count = q.size \/ from + count >= n)
  BY <1>1, <1>3, <1>4
<1> HIDE DEF from
<1> QED
  BY <1>5, <1>6, <1>7 DEF from

\* What a page tells of the next request: none at the end of the list, else one
\* that starts where the page ended.
Joins(s, q, page, n) ==
  IF NextRequest(s, q, page) = None THEN page.from + page.count >= n
  ELSE /\ Request(s, NextRequest(s, q, page))
       /\ Position(s, NextRequest(s, q, page)) = page.from + page.count

LEMMA PageJoins ==
  ASSUME NEW s, Sound(s), s.kind = "page", NEW n \in Nat, NEW q, Request(s, q),
         NEW page \in Responses(s, q, n)
  PROVE  Joins(s, q, page, n)
<1>0. /\ page.from = Position(s, q) /\ page.count \in 0 .. q.size /\ page.total = n
      /\ page.count = 0 => page.from >= n
      /\ page.more <=> page.from + page.count < n
      /\ page.cursor = IF page.count = 0 THEN None ELSE page.from + page.count
      /\ FillsPages(s) => page.count = q.size \/ page.from + page.count >= n
  BY PageFits
<1> DEFINE next == [q EXCEPT !.page = @ + 1]
<1>1. /\ page.from = Position(s, q) /\ page.total = n /\ page.count \in 0 .. q.size
      /\ page.count = 0 => page.from >= n
      /\ page.more <=> page.from + page.count < n
      /\ page.count = q.size \/ page.from + page.count >= n
  BY <1>0 DEF FillsPages
<1>2. /\ q \in Params /\ q.size \in Nat \ {0} /\ q.size = s.params.size
      /\ Position(s, q) \in Nat /\ Position(s, q) >= Position(s, s.params)
      /\ Position(s, s.params) \in Nat
  BY PositionIsInt DEF Request, Sound
<1>3. Position(s, q) = (q.page - s.zero) * q.size
  BY DEF Position
<1>4. next \in Params /\ next.size = q.size /\ next.page = q.page + 1
  BY <1>2 DEF Params
<1>5. NextRequest(s, q, page) = IF PageHasNext(s, q, page) THEN next ELSE None
  BY DEF NextRequest, NextParams, HasNext
<1> HIDE DEF next
<1>6. Position(s, next) = page.from + q.size
  <2>1. q.page \in Int /\ s.zero \in Int /\ q.size \in Int
    BY <1>2 DEF Sound, Params
  <2>2. Position(s, next) = (next.page - s.zero) * next.size
    BY DEF Position
  <2>3. (next.page - s.zero) * next.size = (q.page - s.zero) * q.size + q.size
    BY <1>4, <2>1, OnePageOn
  <2> QED
    BY <1>1, <1>3, <2>2, <2>3
<1>7. Request(s, next)
  BY <1>1, <1>2, <1>4, <1>6 DEF Request
<1>8. next # None
  BY <1>4
<1>9. PageHasNext(s, q, page) => page.count = q.size
  <2>1. CASE "more" \in s.extracts
    <3>1. PageHasNext(s, q, page) <=> page.more
      BY <2>1, Zenon DEF PageHasNext
    <3> QED
      BY <1>1, <1>2, <3>1
  <2>2. CASE s.extracts = {"count"}
    BY <1>1, <1>2, <2>2 DEF PageHasNext, IsFull
  <2>3. CASE s.extracts = {"total"} /\ s.start = s.zero
    <3>0. q.page \in Int /\ s.zero \in Int /\ q.size \in Int
      BY <1>2 DEF Sound, Params
    <3>1. (q.page - s.start + 1) * q.size = page.from + q.size
      BY <1>1, <1>3, <2>3, <3>0, OnePageOn
    <3>2. PageHasNext(s, q, page) <=> (q.page - s.start + 1) * q.size < page.total
      BY <2>3 DEF PageHasNext, IsFull
    <3>3. PageHasNext(s, q, page) <=> page.from + q.size < n
      BY <1>1, <3>1, <3>2
    <3> QED
      BY <1>1, <1>2, <3>3
  <2> QED
    BY <2>1, <2>2, <2>3 DEF Sound
<1>10. ~PageHasNext(s, q, page) => page.from + page.count >= n
  <2>1. CASE "more" \in s.extracts
    <3>1. PageHasNext(s, q, page) <=> page.more
      BY <2>1, Zenon DEF PageHasNext
    <3> QED
      BY <1>1, <1>2, <3>1
  <2>2. CASE s.extracts = {"count"}
    BY <1>1, <1>2, <2>2 DEF PageHasNext, IsFull
  <2>3. CASE s.extracts = {"total"} /\ s.start = s.zero
    <3>0. q.page \in Int /\ s.zero \in Int /\ q.size \in Int
      BY <1>2 DEF Sound, Params
    <3>1. (q.page - s.start + 1) * q.size = page.from + q.size
      BY <1>1, <1>3, <2>3, <3>0, OnePageOn
    <3>2. PageHasNext(s, q, page) <=> (q.page - s.start + 1) * q.size < page.total
      BY <2>3 DEF PageHasNext, IsFull
    <3>3. PageHasNext(s, q, page) <=> page.from + q.size < n
      BY <1>1, <3>1, <3>2
    <3> QED
      BY <1>1, <1>2, <3>3
  <2> QED
    BY <2>1, <2>2, <2>3 DEF Sound
<1> QED
  BY <1>6, <1>7, <1>5, <1>8, <1>9, <1>10 DEF Joins

LEMMA OffsetJoins ==
  ASSUME NEW s, Sound(s), s.kind = "offset", NEW n \in Nat, NEW q, Request(s, q),
         NEW page \in Responses(s, q, n)
  PROVE  Joins(s, q, page, n)
<1>0. /\ page.from = Position(s, q) /\ page.count \in 0 .. q.size /\ page.total = n
      /\ page.count = 0 => page.from >= n
      /\ page.more <=> page.from + page.count < n
      /\ page.cursor = IF page.count = 0 THEN None ELSE page.from + page.count
      /\ FillsPages(s) => page.count = q.size \/ page.from + page.count >= n
  BY PageFits
<1> DEFINE step == ResolveStep(s, q, page)
           next == [q EXCEPT !.at = @ + step]
<1>1. /\ page.from = q.at /\ page.total = n /\ page.count \in 0 .. q.size
      /\ page.count = 0 => page.from >= n
      /\ page.more <=> page.from + page.count < n
      /\ s.extracts \in {{"count"}, {"total"}} => page.count = q.size \/ page.from + page.count >= n
  BY <1>0 DEF FillsPages, Position
<1>2. /\ q \in Params /\ q.at \in Nat /\ q.size \in Nat \ {0} /\ q.size = s.params.size
      /\ q.at >= Position(s, s.params) /\ Position(s, s.params) \in Nat
  BY PositionIsInt DEF Request, Sound, Position
<1>3. NextRequest(s, q, page) = IF OffsetHasNext(s, q, page) THEN next ELSE None
  BY DEF NextRequest, NextParams, HasNext
<1>4. step = IF "count" \in s.extracts THEN page.count ELSE q.size
  BY DEF ResolveStep
<1>5. OffsetHasNext(s, q, page) => step = page.count
  BY <1>1, <1>2, <1>4 DEF OffsetHasNext, IsFull, Sound
<1>6. ~OffsetHasNext(s, q, page) => page.from + page.count >= n
  <2>1. CASE "more" \in s.extracts
    BY <1>1, <1>2, <2>1 DEF OffsetHasNext, IsFull
  <2>2. CASE s.extracts \in {{"total", "count"}, {"total"}}
    <3>1. OffsetHasNext(s, q, page) <=> step > 0 /\ q.at + step < page.total
      BY <2>2 DEF OffsetHasNext, IsFull
    <3> QED
      BY <1>1, <1>2, <1>4, <2>2, <3>1
  <2>4. CASE s.extracts = {"count"}
    BY <1>1, <1>2, <1>4, <2>4 DEF OffsetHasNext, IsFull
  <2> QED
    BY <2>1, <2>2, <2>4 DEF Sound
<1>7. step = page.count => /\ Request(s, next) /\ Position(s, next) = page.from + page.count
                           /\ next # None
  <2> HIDE DEF step
  <2> QED
    BY <1>1, <1>2 DEF Request, Params, Position
<1> HIDE DEF next, step
<1> QED
  BY <1>3, <1>5, <1>6, <1>7 DEF Joins

LEMMA CursorJoins ==
  ASSUME NEW s, Sound(s), s.kind = "cursor", NEW n \in Nat, NEW q, Request(s, q),
         NEW page \in Responses(s, q, n)
  PROVE  Joins(s, q, page, n)
<1>0. /\ page.from = Position(s, q) /\ page.count \in 0 .. q.size /\ page.total = n
      /\ page.count = 0 => page.from >= n
      /\ page.more <=> page.from + page.count < n
      /\ page.cursor = IF page.count = 0 THEN None ELSE page.from + page.count
      /\ FillsPages(s) => page.count = q.size \/ page.from + page.count >= n
  BY PageFits
<1> DEFINE next == [q EXCEPT !.at = page.cursor]
<1>1. /\ page.from = q.at /\ page.count \in 0 .. q.size
      /\ page.count = 0 => page.from >= n
      /\ page.more <=> page.from + page.count < n
      /\ page.cursor = IF page.count = 0 THEN None ELSE page.from + page.count
      /\ s.extracts = {"count"} => page.count = q.size \/ page.from + page.count >= n
  BY <1>0 DEF FillsPages, Position
<1>2. /\ q \in Params /\ q.at \in Nat /\ q.size \in Nat \ {0} /\ q.size = s.params.size
      /\ q.at >= Position(s, s.params) /\ Position(s, s.params) \in Nat
  BY PositionIsInt DEF Request, Sound, Position
<1>3. NextRequest(s, q, page) = IF CursorHasNext(s, q, page) THEN next ELSE None
  BY DEF NextRequest, NextParams, HasNext
<1>4. CursorHasNext(s, q, page) => page.cursor = page.from + page.count
  BY <1>1 DEF CursorHasNext
<1>5. ~CursorHasNext(s, q, page) => page.from + page.count >= n
  <2>1. page.count > 0 => page.cursor # None /\ page.cursor # q.at
    BY <1>1, <1>2
  <2> QED
    BY <1>1, <1>2, <2>1 DEF CursorHasNext, IsFull, Sound
<1>6. page.cursor = page.from + page.count =>
         /\ Request(s, next) /\ Position(s, next) = page.from + page.count /\ next # None
  BY <1>1, <1>2 DEF Request, Params, Position
<1> HIDE DEF next
<1> QED
  BY <1>3, <1>4, <1>5, <1>6 DEF Joins

\* Setting the offset and the page number of a request.
LEMMA FieldsMove ==
  ASSUME NEW q \in Params, NEW at \in Int
  PROVE  /\ [q EXCEPT !.at = at, !.page = @ + 1] \in Params
         /\ [q EXCEPT !.at = at, !.page = @ + 1].at = at
         /\ [q EXCEPT !.at = at, !.page = @ + 1].size = q.size
<1>1. [q EXCEPT !.at = at] \in Params /\ [q EXCEPT !.at = at].at = at
      /\ [q EXCEPT !.at = at].size = q.size /\ [q EXCEPT !.at = at].page = q.page
  BY DEF Params
<1>2. \A half \in Params : /\ [half EXCEPT !.page = half.page + 1] \in Params
                           /\ [half EXCEPT !.page = half.page + 1].at = half.at
                           /\ [half EXCEPT !.page = half.page + 1].size = half.size
  BY DEF Params
<1>3. [q EXCEPT !.at = at, !.page = @ + 1] = [[q EXCEPT !.at = at] EXCEPT !.page = q.page + 1]
  BY Zenon DEF Params
<1> QED
  BY <1>1, <1>2, <1>3

LEMMA FieldsJoin ==
  ASSUME NEW s, Sound(s), s.kind = "fields", NEW n \in Nat, NEW q, Request(s, q),
         NEW page \in Responses(s, q, n)
  PROVE  Joins(s, q, page, n)
<1> HIDE PaginationAssumption
<1>0. /\ page.from = Position(s, q) /\ page.count \in 0 .. q.size /\ page.total = n
      /\ page.count = 0 => page.from >= n
      /\ page.more <=> page.from + page.count < n
      /\ page.cursor = IF page.count = 0 THEN None ELSE page.from + page.count
      /\ FillsPages(s) => page.count = q.size \/ page.from + page.count >= n
  BY PageFits
<1> USE PaginationAssumption
<1> DEFINE onward == [q EXCEPT !.at = page.cursor, !.page = @ + 1]
           counted == [q EXCEPT !.at = @ + page.count, !.page = @ + 1]
<1>1. /\ page.from = q.at /\ page.count \in 0 .. q.size /\ page.total = n
      /\ page.count = 0 => page.from >= n
      /\ page.more <=> page.from + page.count < n
      /\ page.cursor = IF page.count = 0 THEN None ELSE page.from + page.count
      /\ s.extracts = {"count"} => page.count = q.size \/ page.from + page.count >= n
  BY <1>0 DEF FillsPages, Position
<1>2. /\ q \in Params /\ q.at \in Nat /\ q.size \in Nat \ {0} /\ q.size = s.params.size
      /\ q.at >= Position(s, s.params) /\ Position(s, s.params) \in Nat
  BY PositionIsInt DEF Request, Sound, Position
<1>3. NextRequest(s, q, page) = IF FieldsHasNext(s, q, page) THEN Build(s, q, page) ELSE None
  BY DEF NextRequest, NextParams, HasNext
<1>4. Build(s, q, page) =
        CASE s.build = "search" -> onward
          [] s.build = "comments" -> IF page.more /\ page.count > 0 THEN onward ELSE None
          [] s.build = "lastItem" -> IF page.count > 0 THEN onward ELSE None
          [] s.build = "feed" -> IF page.count > 0 THEN counted ELSE None
          [] s.build = "index" -> IF page.count = 0 \/ q.at + page.count >= page.total
                                  THEN None ELSE counted
  BY DEF Build
<1>5. /\ Request(s, counted) /\ Position(s, counted) = page.from + page.count /\ counted # None
      /\ page.count > 0 =>
           /\ Request(s, onward) /\ Position(s, onward) = page.from + page.count /\ onward # None
  <2>0. /\ q.at + page.count \in Int /\ q.at + page.count = page.from + page.count
        /\ page.count > 0 => page.cursor \in Int /\ page.cursor = page.from + page.count
    BY <1>1, <1>2
  <2>1. counted \in Params /\ counted.at = q.at + page.count /\ counted.size = q.size
    BY <1>2, <2>0, FieldsMove, Zenon
  <2>2. page.cursor \in Int =>
          onward \in Params /\ onward.at = page.cursor /\ onward.size = q.size
    BY <1>2, FieldsMove, Zenon
  <2> HIDE DEF onward, counted
  <2> QED
    BY <1>1, <1>2, <2>0, <2>1, <2>2 DEF Request, Position
<1> HIDE DEF onward, counted
<1>6. page.more => page.count > 0
  BY <1>1, <1>2
<1>7. FieldsHasNext(s, q, page) <=>
        /\ "more" \in s.extracts => page.more
        /\ "count" \in s.extracts => IsFull(q, page)
        /\ Build(s, q, page) # None
  BY DEF FieldsHasNext
<1>8. CASE s.extracts = {"more"} /\ s.build \in {"search", "comments", "lastItem"}
  <2>1. page.more => Build(s, q, page) = onward
    BY <1>4, <1>6, <1>8
  <2> QED
    BY <1>1, <1>2, <1>3, <1>5, <1>6, <1>7, <1>8, <2>1 DEF Joins
<1>9. CASE s.extracts = {} /\ s.build = "lastItem"
  BY <1>1, <1>2, <1>3, <1>4, <1>5, <1>7, <1>9 DEF Joins
<1>10. CASE s.extracts = {} /\ s.build \in {"feed", "index"}
  BY <1>1, <1>2, <1>3, <1>4, <1>5, <1>7, <1>10 DEF Joins
<1>11. CASE s.extracts = {"count"} /\ s.build = "feed"
  <2>1. page.count > 0 => Build(s, q, page) = counted
    BY <1>4, <1>11
  <2>2. IsFull(q, page) => page.count > 0
    BY DEF IsFull
  <2>3. ~IsFull(q, page) => page.from + page.count >= n
    BY <1>1, <1>2, <1>11 DEF IsFull
  <2> QED
    BY <1>3, <1>5, <1>7, <1>11, <2>1, <2>2, <2>3 DEF Joins
<1> QED
  BY <1>8, <1>9, <1>10, <1>11 DEF Sound

\* Whatever the strategy, the pages of a list join.
LEMMA NextPageJoins ==
  ASSUME NEW s, Sound(s), NEW n \in Nat, NEW q, Request(s, q), NEW page \in Responses(s, q, n)
  PROVE  Joins(s, q, page, n)
  BY PageJoins, OffsetJoins, CursorJoins, FieldsJoin DEF Sound

-----------------------------------------------------------------------------
(* The pager *)

\* Where a pager starts and where its list ends.
LEMMA Ends ==
  ASSUME PagerTypes
  PROVE  /\ Start \in Nat /\ total \in Nat /\ Last \in Nat /\ Start <= Last /\ total <= Last
         /\ Last = Start \/ Last = total
         /\ Request(strategy, strategy.params)
         /\ Limit = None \/ Limit \in Nat
<1>1. Start \in Nat /\ total \in Nat
  BY DEF PagerTypes, Sound, Start
<1>2. Request(strategy, strategy.params)
  BY <1>1 DEF PagerTypes, Sound, Request, Start
<1>3. Limit = None \/ Limit \in Nat
  BY DEF PagerTypes, Limit
<1> QED
  BY <1>1, <1>2, <1>3 DEF Last

\* What a reader waits for is one of its two kinds of request.
LEMMA Waiting ==
  ASSUME PagerTypes, NEW r \in Readers
  PROVE  /\ Asks(r) => awaiting[r][1] \in {"first", "next"} /\ awaiting[r][2] \in Params
         /\ awaiting[r][1] \in {"first", "next"} => Asks(r)
         /\ awaiting[r] = Idle => ~Asks(r)
         /\ \A k \in {"first", "next"} : \A q : <<k, q>> \notin {Idle, Stopped}
         /\ Idle # Stopped
  BY DEF PagerTypes, Asks, Idle, Stopped

\* The page of a request within reach moves the end and leaves no gap; it says
\* that nothing follows only at the end of the list.
LEMMA PageReaches ==
  ASSUME PagerTypes, NEW end \in Start .. Last, Reached(end), NEW q, Within(q, end),
         NEW response \in Responses(strategy, q, total)
  PROVE  \E end2 \in end .. Last :
           /\ delivered \cup Items(response) = Start .. end2 - 1
           /\ LET next == NextRequest(strategy, q, response) IN
              /\ next = None => end2 = Last
              /\ next # None => Within(next, end2) /\ next \in Params
           /\ Position(strategy, q) = end =>
                 /\ end2 = end + response.count
                 /\ delivered \cap Items(response) = {}
                 /\ LET next == NextRequest(strategy, q, response) IN
                    next # None => Position(strategy, next) = end2
<1>1. /\ Start \in Nat /\ total \in Nat /\ Last \in Nat /\ Start <= Last /\ total <= Last
      /\ Last = Start \/ Last = total
  BY Ends
<1>2. /\ Sound(strategy) /\ Request(strategy, q)
      /\ Position(strategy, q) \in Int /\ Start <= Position(strategy, q)
      /\ Position(strategy, q) <= end
  BY PositionIsInt DEF PagerTypes, Within, Request, Start
<1>3. /\ response \in Pages /\ response.from = Position(strategy, q) /\ response.count \in Nat
      /\ response.count > 0 => response.from + response.count <= total
      /\ response.count = 0 => response.from >= total
  <2>1. q.size \in Nat
    BY <1>2 DEF Request, Sound
  <2> QED
    BY <1>1, <1>2, <2>1, PageFits
<1>4. Joins(strategy, q, response, total)
  BY <1>1, <1>2, NextPageJoins
<1> DEFINE after == response.from + response.count
           end2 == IF after > end THEN after ELSE end
           next == NextRequest(strategy, q, response)
<1>5. /\ after \in Int /\ after <= Last /\ Start <= after /\ end2 \in end .. Last /\ after <= end2
      /\ after >= total => end2 = Last
      /\ response.count = 0 => end2 = end
      /\ Position(strategy, q) = end => end2 = after /\ after = end + response.count
  BY <1>1, <1>2, <1>3
<1>6. delivered = Start .. end - 1
  BY DEF Reached
<1>7. \A i \in Int : i \in Items(response) <=> response.from <= i /\ i < after
  BY <1>2, <1>3 DEF Items
<1>8. Items(response) \subseteq Int
  BY <1>2, <1>3 DEF Items
<1>9. delivered \cup Items(response) = Start .. end2 - 1
  <2> DEFINE joined == delivered \cup Items(response)
  <2>1. joined \subseteq Int
    BY <1>1, <1>6, <1>8
  <2>2. \A i \in Int : i \in joined <=> Start <= i /\ i < end2
    <3>1. response.from \in Int /\ Start <= response.from /\ response.from <= end
          /\ end \in Int /\ after \in Int /\ Start \in Int
      BY <1>1, <1>2, <1>3, <1>5
    <3>2. \A i \in Int : i \in delivered <=> Start <= i /\ i < end
      BY <1>6, <3>1
    <3> HIDE DEF after
    <3> QED
      BY <1>7, <3>1, <3>2
  <2> HIDE DEF joined, end2
  <2>3. Start \in Int /\ end2 \in Int
    BY <1>1, <1>5
  <2>4. /\ Start .. end2 - 1 \subseteq Int
        /\ \A i \in Int : i \in Start .. end2 - 1 <=> Start <= i /\ i < end2
    BY <2>3
  <2>5. joined = Start .. end2 - 1
    BY <2>1, <2>2, <2>4, Zenon
  <2> QED
    BY <2>5 DEF joined
<1>10. Position(strategy, q) = end => delivered \cap Items(response) = {}
  BY <1>1, <1>2, <1>3, <1>5, <1>6, <1>7, <1>8
<1>11. /\ next = None => after >= total
       /\ next # None => Request(strategy, next) /\ Position(strategy, next) = after
  BY <1>4 DEF Joins
<1>12. next # None => Within(next, end2) /\ next \in Params
  BY <1>5, <1>11 DEF Within, Request
<1> HIDE DEF next, after, end2
<1>13. /\ next = None => end2 = Last
       /\ Position(strategy, q) = end =>
            /\ end2 = end + response.count
            /\ next # None => Position(strategy, next) = end2
  BY <1>5, <1>11
<1> QED
  BY <1>5, <1>9, <1>10, <1>12, <1>13 DEF next

LEMMA InitPager == Init => PagerInv
<1> SUFFICES ASSUME Init PROVE PagerInv
  OBVIOUS
<1>1. Sound(strategy)
  <2>1. PICK page \in 1 .. 2, num \in 1 .. MaxNum : strategy \in Strategies(page, num)
    BY DEF Init
  <2>2. num \in Nat \ {0}
    BY <2>1
  <2> QED
    BY <2>1, <2>2, EveryStrategyIsSound
<1>2. awaiting \in [Readers -> {Idle, Stopped}] /\ awaiting[1] = Idle
      /\ (alone => awaiting[2] = Stopped) /\ (~alone => awaiting[2] = Idle)
  BY DEF Init, Readers
<1>3. PagerTypes
  <2>1. strategy.params \in Params
    BY <1>1 DEF Sound
  <2> QED
    <3>1. awaiting \in [Readers -> {Idle, Stopped} \cup ({"first", "next"} \X Params)]
      BY <1>2
    <3>2. total \in 0 .. MaxItems /\ given \in {Absent, None} \cup 1 .. MaxLimit
      BY DEF Init
    <3>3. want \in {None} \cup 1 .. MaxLimit /\ (want # None => alone /\ given = Absent)
      BY DEF Init
    <3>4. alone \in BOOLEAN
      BY DEF Init
    <3> QED
      BY <1>1, <2>1, <3>1, <3>2, <3>3, <3>4 DEF Init, PagerTypes
<1>4. Start \in Nat /\ Last \in Nat /\ Start <= Last /\ Request(strategy, strategy.params)
  BY <1>3, Ends
<1>5. Reached(Start)
  <2>1. \A r \in Readers : ~Asks(r)
    BY <1>2 DEF Asks
  <2>2. Start .. Start - 1 = {}
    BY <1>4
  <2>3. current # None /\ more = TRUE
    BY <1>3, <1>1 DEF Init, Sound
  <2> QED
    BY <1>4, <2>1, <2>2, <2>3 DEF Init, Reached, Within, Start
<1>6. StoppedAt(Start)
  BY <1>2 DEF StoppedAt, Readers, Idle, Stopped
<1>7. AloneAt(Start)
  <2>1. ~Asks(1)
    BY <1>2 DEF Asks
  <2>2. Limit = None \/ Limit \in 1 .. MaxLimit
    BY <1>3 DEF PagerTypes, Limit
  <2>3. want = None \/ want \in 1 .. MaxLimit
    BY <1>3 DEF PagerTypes
  <2> QED
    BY <1>2, <1>4, <2>1, <2>2, <2>3 DEF Init, AloneAt, Start
<1> QED
  BY <1>3, <1>4, <1>5, <1>6, <1>7 DEF PagerInv

-----------------------------------------------------------------------------
(* Steps that deliver nothing *)

\* What a reader may be doing after a step that delivers nothing.
MayTurnTo(what, end) ==
  \/ what = Idle
  \/ /\ what = Stopped
     /\ IF want = None THEN end = Last \/ (Limit # None /\ yielded >= Limit)
        ELSE end = Last \/ taken = want
  \/ \E k \in {"first", "next"}, q \in Params :
        /\ what = <<k, q>> /\ Within(q, end)
        /\ alone => /\ q = current
                    /\ k = "first" => firstPage = None
                    /\ Limit # None => yielded < Limit

LEMMA QuietKeeps ==
  ASSUME PagerTypes, NEW end \in Start .. Last, Reached(end), StoppedAt(end), AloneAt(end),
         NEW r \in Readers, awaiting[r] # Stopped,
         NEW what, MayTurnTo(what, end), Awaits(r, what),
         UNCHANGED <<strategy, total, given, alone, want, current, yielded, more, firstPage,
                     taken, delivered, repeated>>
  PROVE  PagerInv'
<1>1. /\ Start' = Start /\ Last' = Last /\ Limit' = Limit
      /\ \A q, e : Within(q, e)' <=> Within(q, e)
  BY DEF Start, Last, Limit, Within
<1>2. /\ awaiting' = [awaiting EXCEPT ![r] = what]
      /\ awaiting \in [Readers -> {Idle, Stopped} \cup ({"first", "next"} \X Params)]
  BY DEF Awaits, PagerTypes
<1>3. what \in {Idle, Stopped} \cup ({"first", "next"} \X Params)
  BY DEF MayTurnTo
<1>4. awaiting'[r] = what /\ \A x \in Readers \ {r} : awaiting'[x] = awaiting[x]
  BY <1>2
<1>5. PagerTypes'
  BY <1>2, <1>3 DEF PagerTypes
<1>6. Reached(end)'
  <2>1. ASSUME NEW x \in Readers, Asks(x)' PROVE Within(awaiting'[x][2], end)
    <3>1. CASE x = r
      BY <1>4, <2>1, <3>1 DEF Asks, MayTurnTo, Idle, Stopped
    <3>2. CASE x # r
      BY <1>4, <2>1, <3>2 DEF Asks, Reached
    <3> QED
      BY <3>1, <3>2
  <2> QED
    BY <1>1, <2>1 DEF Reached
<1>7. StoppedAt(end)'
  <2>1. what = Stopped => IF want = None THEN end = Last \/ (Limit # None /\ yielded >= Limit)
                          ELSE end = Last \/ taken = want
    BY DEF MayTurnTo, Idle, Stopped
  <2> QED
    BY <1>1, <1>4, <2>1 DEF StoppedAt
<1>8. AloneAt(end)'
  <2> SUFFICES ASSUME alone PROVE AloneAt(end)'
    BY DEF AloneAt
  <2>1. r = 1 /\ 2 \in Readers
    BY DEF AloneAt, Readers
  <2>2. awaiting'[2] = Stopped /\ awaiting'[1] = what
    BY <1>4, <2>1 DEF AloneAt
  <2>3. Asks(1)' => /\ what[2] = current
                    /\ what[1] = "first" => firstPage = None
                    /\ Limit # None => yielded < Limit
    BY <2>2 DEF Asks, MayTurnTo
  <2> QED
    BY <1>1, <2>2, <2>3 DEF AloneAt
<1> QED
  BY <1>1, <1>5, <1>6, <1>7, <1>8 DEF PagerInv

LEMMA CallNextKeeps ==
  ASSUME PagerInv, NEW r \in Readers, CallNext(r)
  PROVE  PagerInv'
<1>1. PICK end \in Start .. Last : Reached(end) /\ StoppedAt(end) /\ AloneAt(end)
  BY DEF PagerInv
<1> DEFINE what == IF HasMore /\ current # None THEN <<"next", current>> ELSE Stopped
<1>2. PagerTypes
  BY DEF PagerInv
<1>3. MayTurnTo(what, end)
  <2>1. CASE HasMore /\ current # None
    <3>1. current \in Params /\ Within(current, end)
      BY <1>1, <1>2, <2>1 DEF PagerTypes, Reached
    <3>2. Limit # None => yielded < Limit
      BY <2>1 DEF HasMore
    <3>3. what = <<"next", current>>
      BY <2>1
    <3> QED
      BY <3>1, <3>2, <3>3 DEF MayTurnTo
  <2>2. CASE ~(HasMore /\ current # None)
    <3>1. what = Stopped
      BY <2>2
    <3>2. want # None => Limit = None
      BY <1>2 DEF PagerTypes, Limit
    <3>3. end = Last \/ (Limit # None /\ yielded >= Limit)
      <4>1. CASE current = None \/ ~more
        BY <1>1, <4>1 DEF Reached
      <4>2. CASE current # None /\ more
        BY <1>2, <2>2, <4>2, Ends DEF HasMore, PagerTypes
      <4> QED
        BY <4>1, <4>2
    <3> QED
      BY <3>1, <3>2, <3>3 DEF MayTurnTo
  <2> QED
    BY <2>1, <2>2
<1>4. awaiting[r] # Stopped /\ Awaits(r, what)
      /\ UNCHANGED <<strategy, total, given, alone, want, current, yielded, more, firstPage,
                     taken, delivered, repeated>>
  BY DEF CallNext, setup, pager, Idle, Stopped
<1> HIDE DEF what
<1> QED
  BY <1>1, <1>2, <1>3, <1>4, QuietKeeps

LEMMA CallFirstKeeps ==
  ASSUME PagerInv, NEW r \in Readers, CallFirst(r)
  PROVE  PagerInv'
<1>1. PICK end \in Start .. Last : Reached(end) /\ StoppedAt(end) /\ AloneAt(end)
  BY DEF PagerInv
<1>2. PagerTypes
  BY DEF PagerInv
<1>3. Within(strategy.params, end) /\ strategy.params \in Params
  BY <1>2, Ends DEF Within, Start, Request
<1>4. /\ Limit # None => yielded < Limit
      /\ firstPage = None
      /\ alone => strategy.params = current
  BY <1>1 DEF CallFirst, HasMore, AloneAt
<1>5. MayTurnTo(<<"first", strategy.params>>, end)
  BY <1>3, <1>4 DEF MayTurnTo
<1>6. awaiting[r] # Stopped /\ Awaits(r, <<"first", strategy.params>>)
      /\ UNCHANGED <<strategy, total, given, alone, want, current, yielded, more, firstPage,
                     taken, delivered, repeated>>
  BY DEF CallFirst, setup, pager, Idle, Stopped
<1> QED
  BY <1>1, <1>2, <1>5, <1>6, QuietKeeps

LEMMA FailKeeps ==
  ASSUME PagerInv, NEW r \in Readers, Fail(r)
  PROVE  PagerInv'
<1>1. PICK end \in Start .. Last : Reached(end) /\ StoppedAt(end) /\ AloneAt(end)
  BY DEF PagerInv
<1>2. PagerTypes
  BY DEF PagerInv
<1>3. awaiting[r] # Stopped /\ Awaits(r, Idle)
      /\ UNCHANGED <<strategy, total, given, alone, want, current, yielded, more, firstPage,
                     taken, delivered, repeated>>
  BY DEF Fail, setup, pager
<1>4. MayTurnTo(Idle, end)
  BY DEF MayTurnTo
<1> QED
  BY <1>1, <1>2, <1>3, <1>4, QuietKeeps

-----------------------------------------------------------------------------
(* A page comes *)

LEMMA PageKeeps ==
  ASSUME PagerInv, NEW r \in Readers, awaiting[r][1] \in {"first", "next"},
         NEW response \in Responses(strategy, awaiting[r][2], total),
         firstPage' \in {firstPage, response}, firstPage' # None,
         \/ Advance(awaiting[r][2], response)
         \/ /\ UNCHANGED <<current, yielded, more>>
            /\ awaiting[r][1] = "first" /\ yielded # 0,
         Deliver(response), Consume(r, response), UNCHANGED <<setup, failures>>
  PROVE  PagerInv'
<1>1. PICK end \in Start .. Last : Reached(end) /\ StoppedAt(end) /\ AloneAt(end)
  BY DEF PagerInv
<1> DEFINE q == awaiting[r][2]
           next == NextRequest(strategy, q, response)
<1>2. PagerTypes /\ Asks(r) /\ q \in Params /\ Within(q, end)
  <2>1. PagerTypes /\ Asks(r)
    BY Waiting DEF PagerInv
  <2> QED
    BY <1>1, <2>1, Waiting DEF Reached
<1>3. PICK end2 \in end .. Last :
         /\ delivered \cup Items(response) = Start .. end2 - 1
         /\ next = None => end2 = Last
         /\ next # None => Within(next, end2) /\ next \in Params
         /\ Position(strategy, q) = end =>
               /\ end2 = end + response.count
               /\ delivered \cap Items(response) = {}
               /\ next # None => Position(strategy, next) = end2
  BY <1>1, <1>2, PageReaches
<1>4. /\ Start \in Nat /\ Last \in Nat /\ end \in Nat /\ end2 \in Nat
      /\ Start <= end /\ end <= end2 /\ end2 <= Last
      /\ response \in Pages /\ response.count \in Nat
  <2>1. Start \in Nat /\ Last \in Nat /\ total \in Nat
    BY <1>2, Ends
  <2>2. Sound(strategy) /\ Request(strategy, q) /\ q.size \in Nat
    BY <1>2 DEF PagerTypes, Within, Request, Sound
  <2>3. response \in Pages /\ response.count \in 0 .. q.size
    BY <2>1, <2>2, PageFits
  <2> QED
    BY <2>1, <2>2, <2>3
<1>5. /\ UNCHANGED <<strategy, total, given, alone, want>>
      /\ Start' = Start /\ Last' = Last /\ Limit' = Limit
      /\ \A p, e : Within(p, e)' <=> Within(p, e)
      /\ \A p : Position(strategy, p)' = Position(strategy, p)
  BY DEF setup, Start, Last, Limit, Within
<1>6. /\ delivered' = delivered \cup Items(response)
      /\ repeated' = (repeated \/ delivered \cap Items(response) # {})
  BY DEF Deliver
<1>7. \/ /\ current' = next /\ yielded' = yielded + 1 /\ more' = (more /\ current' # None)
      \/ /\ current' = current /\ yielded' = yielded /\ more' = more
         /\ awaiting[r][1] = "first" /\ yielded # 0
  BY DEF Advance
<1>8. /\ current' = next \/ current' = current
      /\ yielded' = yielded + 1 \/ yielded' = yielded
      /\ ~more' => ~more \/ current' = None
  <2>1. CASE /\ current' = next /\ yielded' = yielded + 1 /\ more' = (more /\ current' # None)
    BY <2>1
  <2>2. CASE current' = current /\ yielded' = yielded /\ more' = more
    BY <2>2
  <2> QED
    BY <1>7, <2>1, <2>2
<1>9. PICK what \in {Idle, Stopped} :
         /\ awaiting' = [awaiting EXCEPT ![r] = what]
         /\ IF want = None THEN what = Idle /\ taken' = taken
            ELSE /\ taken' = IF taken + response.count > want THEN want
                             ELSE taken + response.count
                 /\ what = IF taken + response.count > want THEN Stopped ELSE Idle
  BY DEF Consume, Awaits
<1> HIDE DEF q, next
<1>10. /\ awaiting \in [Readers -> {Idle, Stopped} \cup ({"first", "next"} \X Params)]
       /\ awaiting'[r] = what /\ \A x \in Readers \ {r} : awaiting'[x] = awaiting[x]
  BY <1>2, <1>9 DEF PagerTypes
<1>11. PagerTypes'
  <2>1. awaiting' \in [Readers -> {Idle, Stopped} \cup ({"first", "next"} \X Params)]
    BY <1>9, <1>10
  <2>2. current' \in Params \cup {None}
    BY <1>2, <1>3, <1>8 DEF PagerTypes
  <2>6. yielded' \in Nat
    BY <1>2, <1>8 DEF PagerTypes
  <2>7. more' \in BOOLEAN
    BY <1>2, <1>7, Zenon DEF PagerTypes
  <2>3. firstPage' \in Pages \cup {None}
    BY <1>2, <1>4 DEF PagerTypes
  <2>4. taken' \in Nat
    BY <1>2, <1>4, <1>9 DEF PagerTypes
  <2>5. repeated' \in BOOLEAN
    BY <1>6
  <2> QED
    BY <1>2, <1>5, <2>1, <2>2, <2>3, <2>4, <2>5, <2>6, <2>7 DEF PagerTypes
<1>12. Reached(end2)'
  <2>1. current' # None => Within(current', end2)
    <3>1. CASE current' = next
      BY <1>3, <3>1
    <3>2. CASE current' = current
      <4>1. current' # None => Within(current, end)
        BY <1>1, <3>2 DEF Reached
      <4>2. current # None => Position(strategy, current) \in Int
        BY <1>2, PositionIsInt DEF PagerTypes
      <4> QED
        BY <1>4, <3>2, <4>1, <4>2 DEF Within
    <3> QED
      BY <1>8, <3>1, <3>2
  <2>2. ASSUME NEW x \in Readers, Asks(x)' PROVE Within(awaiting'[x][2], end2)
    <3>1. x # r
      BY <1>9, <1>10, <2>2 DEF Asks
    <3>2. Within(awaiting[x][2], end)
      BY <1>1, <1>10, <2>2, <3>1 DEF Reached, Asks
    <3>3. Position(strategy, awaiting[x][2]) \in Int
      BY <1>2, <1>10, <2>2, <3>1, Waiting, PositionIsInt DEF PagerTypes, Asks
    <3> QED
      BY <1>4, <1>10, <3>1, <3>2, <3>3 DEF Within
  <2>3. current' = None \/ ~more' => end2 = Last
    <3>1. current = None \/ ~more => end2 = Last
      BY <1>1, <1>4 DEF Reached
    <3> QED
      BY <1>3, <1>8, <3>1
  <2> QED
    BY <1>3, <1>5, <1>6, <2>1, <2>2, <2>3 DEF Reached
<1>13. StoppedAt(end2)'
  <2>1. ASSUME NEW x \in Readers, awaiting'[x] = Stopped, x = 1 \/ ~alone
        PROVE  IF want = None THEN end2 = Last \/ (Limit # None /\ yielded' >= Limit)
               ELSE end2 = Last \/ taken' = want
    <3>1. CASE x = r
      BY <1>9, <1>10, <2>1, <3>1 DEF Idle, Stopped
    <3>2. CASE x # r
      <4>1. awaiting[x] = Stopped
        BY <1>10, <2>1, <3>2
      <4>2. ~alone
        BY <1>1, <1>2, <2>1, <3>2 DEF AloneAt, Asks, Readers
      <4>3. want = None
        BY <1>2, <4>2 DEF PagerTypes
      <4>4. end = Last \/ (Limit # None /\ yielded >= Limit)
        BY <1>1, <4>1, <4>2, <4>3 DEF StoppedAt
      <4>5. CASE end = Last
        BY <1>4, <4>3, <4>5
      <4>6. CASE Limit # None /\ yielded >= Limit
        <5>1. Limit \in Nat /\ yielded \in Nat
          BY <1>2, <4>6, Ends DEF PagerTypes
        <5>2. yielded' >= Limit
          BY <1>7, <4>6, <5>1
        <5> QED
          BY <4>3, <4>6, <5>2
      <4> QED
        BY <4>4, <4>5, <4>6
    <3> QED
      BY <3>1, <3>2
  <2> QED
    BY <1>5, <2>1 DEF StoppedAt
<1>14. AloneAt(end2)'
  <2> SUFFICES ASSUME alone PROVE AloneAt(end2)'
    BY <1>5 DEF AloneAt
  <2>1. r = 1 /\ 2 \in Readers /\ awaiting[2] = Stopped
    BY <1>1, <1>2 DEF AloneAt, Asks, Readers
  <2>2. /\ q = current /\ Position(strategy, q) = end
        /\ awaiting[r][1] = "first" => yielded = 0
        /\ Limit # None => yielded < Limit
        /\ ~repeated
    BY <1>1, <1>2, <2>1 DEF AloneAt, q
  <2>3. current' = next /\ yielded' = yielded + 1
    BY <1>7, <2>2
  <2>4. end2 = end + response.count /\ ~repeated'
        /\ (current' # None => Position(strategy, current') = end2)
    BY <1>3, <1>6, <2>2, <2>3
  <2>5. awaiting'[2] = Stopped /\ ~Asks(1)'
    BY <1>9, <1>10, <2>1 DEF Asks
  <2>6. Limit # None => yielded' <= Limit
    BY <1>2, <2>2, <2>3, Ends DEF PagerTypes
  <2>7. want # None => taken' = IF end2 - Start < want THEN end2 - Start ELSE want
    <3> SUFFICES ASSUME want # None
                 PROVE  taken' = IF end2 - Start < want THEN end2 - Start ELSE want
      OBVIOUS
    <3>1. want \in Nat /\ end - Start \in Nat
      BY <1>2, <1>4 DEF PagerTypes
    <3>2. taken = IF end - Start < want THEN end - Start ELSE want
      BY <1>1 DEF AloneAt
    <3>3. end2 - Start = (end - Start) + response.count
      BY <1>4, <2>4
    <3>4. taken' = IF taken + response.count > want THEN want ELSE taken + response.count
      BY <1>9
    <3>5. (IF taken + response.count > want THEN want ELSE taken + response.count)
            = IF (end - Start) + response.count < want THEN (end - Start) + response.count ELSE want
      <4>1. CASE end - Start < want
        BY <1>4, <3>1, <3>2, <4>1
      <4>2. CASE ~(end - Start < want)
        BY <1>4, <3>1, <3>2, <4>2
      <4> QED
        BY <4>1, <4>2
    <3> QED
      BY <3>3, <3>4, <3>5
  <2> QED
    BY <1>5, <2>4, <2>5, <2>6, <2>7 DEF AloneAt
<1>15. end2 \in Start' .. Last'
  BY <1>4, <1>5
<1> QED
  BY <1>11, <1>12, <1>13, <1>14, <1>15 DEF PagerInv

LEMMA PageComesKeeps ==
  ASSUME PagerInv, NEW r \in Readers, PageComes(r) \/ FirstComes(r)
  PROVE  PagerInv'
<1>1. PICK response \in Responses(strategy, awaiting[r][2], total) :
         /\ firstPage' \in {firstPage, response}
         /\ firstPage' = response \/ firstPage # None
         /\ \/ Advance(awaiting[r][2], response)
            \/ /\ UNCHANGED <<current, yielded, more>>
               /\ awaiting[r][1] = "first" /\ yielded # 0
         /\ Deliver(response) /\ Consume(r, response)
  BY DEF PageComes, FirstComes
<1>2. awaiting[r][1] \in {"first", "next"} /\ UNCHANGED <<setup, failures>>
  BY DEF PageComes, FirstComes
<1>3. response # None
  <2>1. PagerTypes /\ Asks(r)
    BY <1>2, Waiting DEF PagerInv
  <2>2. Request(strategy, awaiting[r][2])
    BY <2>1 DEF PagerInv, Reached, Within
  <2>3. response \in Pages
    BY <2>1, <2>2, Ends, PageFits DEF PagerTypes
  <2> QED
    BY <2>3
<1>4. firstPage' # None
  BY <1>1, <1>3 DEF PageComes, FirstComes
<1> QED
  BY <1>1, <1>2, <1>4, PageKeeps

LEMMA NextPager == PagerInv /\ [Next]_vars => PagerInv'
<1> SUFFICES ASSUME PagerInv, [Next]_vars PROVE PagerInv'
  OBVIOUS
<1>1. CASE UNCHANGED vars
  BY <1>1 DEF vars, setup, pager, PagerInv, PagerTypes, Reached, StoppedAt, AloneAt, Within,
     Asks, Start, Last, Limit
<1>2. ASSUME NEW r \in Readers, CallNext(r) \/ CallFirst(r) \/ Fail(r) PROVE PagerInv'
  BY <1>2, CallNextKeeps, CallFirstKeeps, FailKeeps
<1>3. ASSUME NEW r \in Readers, PageComes(r) \/ FirstComes(r) PROVE PagerInv'
  BY <1>3, PageComesKeeps
<1> QED
  BY <1>1, <1>2, <1>3 DEF Next, Step

\* The inductive invariant holds in every reachable state.
THEOREM PagerInvariant == Spec => []PagerInv
  BY InitPager, NextPager, PTL DEF Spec

-----------------------------------------------------------------------------
(* The theorems *)

\* Whatever the strategy, the list and the sizes, what a pager has delivered is
\* an unbroken run from its first page, though requests fail and two readers
\* overlap; a reader alone is given nothing twice, and no more pages than its
\* limit (AsyncPager.next, first and NextRequest of every strategy).
THEOREM DeliveredPagesJoin == Spec => []PagesJoin
<1>1. PagerInv => PagesJoin
  <2> SUFFICES ASSUME PagerInv PROVE PagesJoin
    OBVIOUS
  <2>1. PICK end \in Start .. Last : Reached(end) /\ AloneAt(end)
    BY DEF PagerInv
  <2>2. /\ Start \in Nat /\ total \in 0 .. MaxItems /\ total \in Nat /\ end \in Nat
        /\ Start <= end /\ (end <= total \/ (end = Start /\ total <= Start))
    BY Ends DEF PagerInv, PagerTypes
  <2>3. delivered = Start .. end - 1
    BY <2>1 DEF Reached
  <2>4. \E e \in 0 .. MaxItems : delivered = {i \in Rest : i < e}
    <3>1. CASE end <= total
      <4>1. end \in 0 .. MaxItems
        BY <2>2, <3>1
      <4>2. delivered = {i \in Rest : i < end}
        BY <2>2, <2>3, <3>1 DEF Rest
      <4> QED
        BY <4>1, <4>2
    <3>2. CASE end = Start /\ total <= Start
      <4>1. delivered = {i \in Rest : i < 0}
        BY <2>2, <2>3, <3>2 DEF Rest
      <4>2. 0 \in 0 .. MaxItems
        OBVIOUS
      <4> QED
        BY <4>1, <4>2
    <3> QED
      BY <2>2, <3>1, <3>2
  <2> QED
    BY <2>1, <2>4 DEF PagesJoin, AloneAt
<1> QED
  BY <1>1, PagerInvariant, PTL

\* Whoever is told to stop has come to the end of the list or of a limit, and
\* iter_items has then yielded all the items its own limit leaves it
\* (AsyncPager.has_more, AsyncItemIterator).
THEOREM StoppingIsRight == Spec => []EndIsReal
<1>1. PagerInv => EndIsReal
  <2> SUFFICES ASSUME PagerInv PROVE EndIsReal
    OBVIOUS
  <2>1. PICK end \in Start .. Last : Reached(end) /\ StoppedAt(end) /\ AloneAt(end)
    BY DEF PagerInv
  <2>2. /\ PagerTypes /\ Start \in Nat /\ total \in Nat /\ Last \in Nat /\ end \in Nat
        /\ Start <= end /\ end <= Last /\ Start <= Last
        /\ Last = IF Start < total THEN total ELSE Start
    BY Ends DEF PagerInv, Last
  <2>3. Rest = Start .. Last - 1
    BY <2>2 DEF Rest
  <2>4. Cardinality(Rest) = Last - Start
    <3>1. Start \in Int /\ Last - 1 \in Int
      BY <2>2
    <3>2. Cardinality(Start .. Last - 1) = IF Start > Last - 1 THEN 0 ELSE (Last - 1) - Start + 1
      BY <3>1, FS_Interval
    <3> QED
      BY <2>2, <2>3, <3>2
  <2>5. end = Last => delivered = Rest
    BY <2>1, <2>3 DEF Reached
  <2>6. ASSUME NEW r \in Readers, awaiting[r] = Stopped, r = 1 \/ ~alone
        PROVE  IF want = None THEN delivered = Rest \/ (Limit # None /\ yielded >= Limit)
               ELSE taken = IF Cardinality(Rest) < want THEN Cardinality(Rest) ELSE want
    <3>1. IF want = None THEN end = Last \/ (Limit # None /\ yielded >= Limit)
          ELSE end = Last \/ taken = want
      BY <2>1, <2>6 DEF StoppedAt
    <3>2. CASE want = None
      BY <2>5, <3>1, <3>2
    <3>3. CASE want # None
      <4>1. want \in Nat /\ taken = IF end - Start < want THEN end - Start ELSE want
        BY <2>1, <2>2, <3>3 DEF PagerTypes, AloneAt
      <4> QED
        BY <2>2, <2>4, <3>1, <3>3, <4>1
    <3> QED
      BY <3>2, <3>3
  <2> QED
    BY <2>6 DEF EndIsReal
<1> QED
  BY <1>1, PagerInvariant, PTL
=============================================================================
