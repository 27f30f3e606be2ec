---------------------------- MODULE PagedEndpoints ----------------------------
(***************************************************************************)
(* The paging strategies of qqmusic_api/core/pagination.py and how each    *)
(* paged method of qqmusic_api/modules sets one up.                        *)
(*                                                                         *)
(* Of a request's parameters only those that choose the page are kept: at, *)
(* an offset or a cursor, page, a page number, and size.  Of a response:   *)
(* how many items it holds, the total, the flag for more and the cursor.   *)
(* A cursor names the item that follows the page.                          *)
(***************************************************************************)
EXTENDS Integers, FiniteSets

CONSTANT None

-----------------------------------------------------------------------------
(* Strategies.  `extracts` holds the extractors a strategy has, `start` the *)
(* start_page of a PageStrategy, `build` the function of a continuation.    *)
(* An extractor to which a list gives no answer (None) is left out of them: *)
(* has_next and _resolve_step go on as if there were none.                  *)

Strategy(kind, at, page, size, extracts) ==
    [kind |-> kind, extracts |-> extracts, start |-> page, zero |-> 0, build |-> "none",
     params |-> [at |-> at, page |-> page, size |-> size]]

OffsetStrategy(offset, size, extracts) == Strategy("offset", offset, 0, size, extracts)
CursorStrategy(cursor, size, extracts) == Strategy("cursor", cursor, 0, size, extracts)

\* The server counts pages from zero.
PageStrategy(page, zero, size, extracts) ==
    [Strategy("page", 0, page, size, extracts) EXCEPT !.zero = zero]

Continuation(at, page, size, extracts, build) ==
    [Strategy("fields", at, page, size, extracts) EXCEPT !.build = build]

\* OffsetStrategy._resolve_step.
ResolveStep(s, params, response) ==
    IF "count" \in s.extracts THEN response.count ELSE params.size

\* The functions given to MultiFieldContinuationStrategy: the next parameters, or None.
Build(s, params, response) ==
    LET onward == [params EXCEPT !.at = response.cursor, !.page = @ + 1]
        counted == [params EXCEPT !.at = @ + response.count, !.page = @ + 1]
    IN  CASE s.build = "search" -> onward
          [] s.build = "comments" -> IF response.more /\ response.count > 0 THEN onward ELSE None
          [] s.build = "lastItem" -> IF response.count > 0 THEN onward ELSE None
          [] s.build = "feed" -> IF response.count > 0 THEN counted ELSE None
          [] s.build = "index" -> IF response.count = 0 \/ params.at + response.count >= response.total
                                  THEN None ELSE counted

\* A page as long as was asked for may not be the last.
IsFull(params, response) == response.count >= params.size /\ response.count > 0

\* The extractors are asked in this order: the flag, the total, the count.
PageHasNext(s, params, response) ==
    IF "more" \in s.extracts THEN response.more
    ELSE IF "total" \in s.extracts
    THEN (params.page - s.start + 1) * params.size < response.total
    ELSE "count" \in s.extracts /\ IsFull(params, response)

OffsetHasNext(s, params, response) ==
    IF "more" \in s.extracts THEN response.more
    ELSE IF "total" \in s.extracts
    THEN /\ ResolveStep(s, params, response) > 0
         /\ params.at + ResolveStep(s, params, response) < response.total
    ELSE "count" \in s.extracts /\ IsFull(params, response)

\* CursorStrategy and BatchRefreshStrategy: unless terminated, there is a new cursor.
CursorHasNext(s, params, response) ==
    /\ IF "more" \in s.extracts THEN response.more
       ELSE "count" \in s.extracts => IsFull(params, response)
    /\ response.cursor # None
    /\ params.at # response.cursor

FieldsHasNext(s, params, response) ==
    /\ "more" \in s.extracts => response.more
    /\ "count" \in s.extracts => IsFull(params, response)
    /\ Build(s, params, response) # None

HasNext(s, params, response) ==
    CASE s.kind = "page" -> PageHasNext(s, params, response)
      [] s.kind = "offset" -> OffsetHasNext(s, params, response)
      [] s.kind = "cursor" -> CursorHasNext(s, params, response)
      [] s.kind = "fields" -> FieldsHasNext(s, params, response)

\* Faulty: the offset advances by the size that was asked for.
NextBySize(s, params, response) ==
    CASE s.kind = "page" -> [params EXCEPT !.page = @ + 1]
      [] s.kind = "offset" -> [params EXCEPT !.at = @ + params.size]
      [] s.kind = "cursor" -> [params EXCEPT !.at = response.cursor]
      [] s.kind = "fields" -> Build(s, params, response)

NextParams(s, params, response) ==
    CASE s.kind = "page" -> [params EXCEPT !.page = @ + 1]
      [] s.kind = "offset" -> [params EXCEPT !.at = @ + ResolveStep(s, params, response)]
      [] s.kind = "cursor" -> [params EXCEPT !.at = response.cursor]
      [] s.kind = "fields" -> Build(s, params, response)

\* PaginatedMixin.next_request.
NextRequest(s, params, response) ==
    IF HasNext(s, params, response) THEN NextParams(s, params, response) ELSE None

-----------------------------------------------------------------------------
(* The server, external: the page asked for, as full as it likes if it is   *)
(* asked for an offset or a cursor.                                          *)

Position(s, params) ==
    IF s.kind = "page" THEN (params.page - s.zero) * params.size ELSE params.at

Response(from, count, total) ==
    [from |-> from, count |-> count, total |-> total, more |-> from + count < total,
     cursor |-> IF count = 0 THEN None ELSE from + count]

\* With the count alone a short page is the last, with the total alone a step is a full page.
FillsPages(s) == s.kind = "page" \/ s.extracts \in {{"count"}, {"total"}}

Responses(s, params, total) ==
    LET from == Position(s, params)
        left == IF total > from THEN total - from ELSE 0
        most == IF left < params.size THEN left ELSE params.size
    IN  {Response(from, count, total) :
            count \in IF FillsPages(s) \/ most = 0 THEN {most} ELSE 1 .. most}

-----------------------------------------------------------------------------
(* The paged methods of the API modules, for a caller's page and num. *)

top_get_detail(page, num) == OffsetStrategy(num * (page - 1), num, {"total", "count"})

singer_get_singer_list_index(page, num) == Continuation((page - 1) * num, page, num, {}, "index")
singer_get_tab_detail(page, num) == PageStrategy(page - 1, 0, num, {"more"})
singer_get_songs_list(page, num) == OffsetStrategy((page - 1) * num, num, {"total", "count"})
singer_get_album_list(page, num) == OffsetStrategy((page - 1) * num, num, {"total", "count"})
singer_get_mv_list(page, num) == OffsetStrategy((page - 1) * num, num, {"total", "count"})

mv_get_mv_list(page, num) == OffsetStrategy(num * (page - 1), num, {"total", "count"})

\* The page number alone chooses the first page, page_start the later ones.
search_general_search(page, num) ==
    Continuation((page - 1) * num, page, num, {"more"}, "search")
search_by_type(page, num) == PageStrategy(page, 1, num, {"more", "total"})

\* A new batch follows the last one seen; a caller has seen none or gives it.
song_get_related_songlist(last, num) == CursorStrategy(last, num, {"more"})
song_get_related_mv(last, num) == CursorStrategy(last, num, {"more"})

comment_strategy(page, at, num) == Continuation(at, page, num, {"more"}, "comments")
comment_get_hot_comments(page, num) == comment_strategy(page - 1, (page - 1) * num, num)
comment_get_new_comments(page, num) == comment_strategy(page - 1, (page - 1) * num, num)
comment_get_recommend_comments(page, num) == comment_strategy(page - 1, (page - 1) * num, num)
comment_get_moment_comments(last, num) == CursorStrategy(last, num, {"more"})

recommend_get_home_feed(page, num) == Continuation((page - 1) * num, page, num, {}, "feed")
recommend_get_radar_recommend(page, num) == PageStrategy(page, 1, num, {"more"})
recommend_get_recommend_songlist(page, num) == CursorStrategy(num * (page - 1), num, {"more"})

album_get_song(page, num) == OffsetStrategy(num * (page - 1), num, {"total", "count"})
album_get_new_album(page, num) == OffsetStrategy(num * (page - 1), num, {"total", "count"})

songlist_get_detail(page, num) == OffsetStrategy(num * (page - 1), num, {"more", "total", "count"})

user_get_follow_singers(page, num) == OffsetStrategy((page - 1) * num, num, {"more", "total", "count"})
user_get_fans(page, num) == OffsetStrategy((page - 1) * num, num, {"more", "total", "count"})
user_get_friend(page, num) == PageStrategy(page - 1, 0, num, {"more"})
user_get_follow_user(page, num) == OffsetStrategy((page - 1) * num, num, {"more", "total", "count"})
user_get_fav_song(page, num) == OffsetStrategy(num * (page - 1), num, {"more", "total", "count"})
user_get_fav_songlist(page, num) == OffsetStrategy((page - 1) * num, num, {"more", "total", "count"})
user_get_fav_album(page, num) == OffsetStrategy((page - 1) * num, num, {"more", "total", "count"})
user_get_dislike_list(page, num) == Continuation((page - 1) * num, page, num, {}, "lastItem")

private_get_sessions(last, num) == Continuation(last, 0, num, {"more"}, "lastItem")
private_get_messages(last, num) == Continuation(last, 0, num, {"more"}, "lastItem")

\* What a caller builds with the strategies the modules leave out.
CustomStrategies(page, num) ==
    {PageStrategy(1, 1, num, {"total"}), PageStrategy(page, 1, num, {"count"}),
     OffsetStrategy((page - 1) * num, num, {"total"}), OffsetStrategy((page - 1) * num, num, {"count"}),
     CursorStrategy((page - 1) * num, num, {}), CursorStrategy((page - 1) * num, num, {"count"}),
     Continuation((page - 1) * num, page, num, {"count"}, "feed")}

Strategies(page, num) ==
    CustomStrategies(page, num) \cup
    {top_get_detail(page, num), singer_get_singer_list_index(page, num),
     singer_get_tab_detail(page, num), singer_get_songs_list(page, num),
     singer_get_album_list(page, num), singer_get_mv_list(page, num),
     mv_get_mv_list(page, num), search_general_search(page, num), search_by_type(page, num),
     comment_get_hot_comments(page, num), comment_get_new_comments(page, num),
     comment_get_recommend_comments(page, num), recommend_get_home_feed(page, num),
     recommend_get_radar_recommend(page, num), recommend_get_recommend_songlist(page, num),
     album_get_song(page, num), album_get_new_album(page, num), songlist_get_detail(page, num),
     user_get_follow_singers(page, num), user_get_fans(page, num), user_get_friend(page, num),
     user_get_follow_user(page, num), user_get_fav_song(page, num),
     user_get_fav_songlist(page, num), user_get_fav_album(page, num),
     user_get_dislike_list(page, num)}
    \cup {song_get_related_songlist(num * (page - 1), num), song_get_related_mv(num * (page - 1), num),
          comment_get_moment_comments(num * (page - 1), num),
          private_get_sessions(num * (page - 1), num), private_get_messages(num * (page - 1), num)}
=============================================================================
