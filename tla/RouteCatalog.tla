----------------------------- MODULE RouteCatalog -----------------------------
(***************************************************************************)
(* The gateway's route declarations (web/src/routes) over the methods they *)
(* lead to, and the checks that include_routes makes of them.              *)
(***************************************************************************)
EXTENDS ApiCatalog, FiniteSets

\* CachePolicy: seconds; NoCache where a route declares none.
NoCache == 0
PUBLIC_60 == 60
PUBLIC_300 == 300
PUBLIC_600 == 600

\* AuthPolicy.
NONE == "none"                         \* cookies are not read
COOKIE_OR_DEFAULT == "strict"          \* a login is required
OPTIONAL == "optional"                 \* a login is used where there is one

\* R: a GET for everybody.
R(method, path) ==
    [method |-> method, path |-> path, verb |-> "GET", auth |-> NONE, ttl |-> NoCache]

Cached(ttl, route) == [route EXCEPT !.ttl = ttl]
Auth(auth, route) == [route EXCEPT !.auth = auth]
Verb(verb, route) == [route EXCEPT !.verb = verb]
Mine(method, path) == Auth(COOKIE_OR_DEFAULT, R(method, path))

-----------------------------------------------------------------------------

AlbumRoutes ==
    {Cached(PUBLIC_300, R(album_get_detail, "/album/{value}/detail")),
     Cached(PUBLIC_300, R(album_get_song, "/album/{value}/songs"))}

CommentRoutes ==
    {Cached(PUBLIC_60, R(comment_get_comment_count, "/song/{biz_id}/comments/count")),
     Cached(PUBLIC_60, R(comment_get_hot_comments, "/song/{biz_id}/comments/hot")),
     Cached(PUBLIC_60, R(comment_get_moment_comments, "/song/{biz_id}/comments/moments")),
     Cached(PUBLIC_60, R(comment_get_new_comments, "/song/{biz_id}/comments/new")),
     Cached(PUBLIC_60, R(comment_get_recommend_comments, "/song/{biz_id}/comments/recommended")),
     Verb("POST", Mine(comment_add_comment, "/song/{biz_id}/comments")),
     Verb("DELETE", Mine(comment_delete_comment, "/comment/{cm_id}"))}

LoginRoutes ==
    {Auth(OPTIONAL, R(login_check_expired, "/login/check_expired")),
     Mine(login_refresh_credential, "/login/refresh_credential"),
     R(login_get_qrcode, "/login/qrcode/{login_type}"),
     R(login_check_qrcode, "/login/qrcode/{login_type}/status"),
     Verb("POST", R(login_send_authcode, "/login/phone/authcode")),
     Verb("POST", R(login_phone_authorize, "/login/phone/authorize"))}

LyricRoutes ==
    {Cached(PUBLIC_300, R(lyric_get_lyric, "/song/{value}/lyric")),
     Cached(PUBLIC_300, R(lyric_get_multi_style_trans_lyric, "/song/{songid}/lyric/multi_style_trans")),
     Cached(PUBLIC_300, R(lyric_get_singing_annotations_info, "/song/{songid}/lyric/annotations_info")),
     Cached(PUBLIC_300, R(lyric_is_ai_dict_exists, "/song/{songid}/lyric/ai_dict/exists")),
     Cached(PUBLIC_300, R(lyric_get_ai_dict, "/song/{songid}/lyric/ai_dict"))}

MvRoutes ==
    {Cached(PUBLIC_300, R(mv_get_detail, "/mv/get_detail")),
     Cached(PUBLIC_300, R(mv_get_mv_urls, "/mv/get_mv_urls")),
     R(mv_get_mv_urls, "/mv/{vid}/url")}

RecommendRoutes ==
    {Auth(OPTIONAL, R(recommend_get_guess_recommend, "/recommend/get_guess_recommend")),
     Cached(PUBLIC_60, R(recommend_get_home_feed, "/recommend/get_home_feed")),
     Cached(PUBLIC_60, R(recommend_get_radar_recommend, "/recommend/get_radar_recommend")),
     Cached(PUBLIC_60, R(recommend_get_recommend_newsong, "/recommend/get_recommend_newsong")),
     Cached(PUBLIC_60, R(recommend_get_recommend_songlist, "/recommend/get_recommend_songlist"))}

SearchRoutes ==
    {Cached(PUBLIC_60, R(search_complete, "/search/complete")),
     Cached(PUBLIC_60, R(search_general_search, "/search/general_search")),
     Cached(PUBLIC_600, R(search_get_hotkey, "/search/get_hotkey")),
     Cached(PUBLIC_60, R(search_quick_search, "/search/quick_search")),
     Cached(PUBLIC_60, R(search_search_by_type, "/search/search_by_type"))}

SingerRoutes ==
    {Cached(PUBLIC_300, R(singer_get_album_list, "/singer/{mid}/albums")),
     Cached(PUBLIC_300, R(singer_get_desc, "/singer/get_desc")),
     Cached(PUBLIC_300, R(singer_get_desc, "/singer/{mid}/desc")),
     Cached(PUBLIC_300, R(singer_get_info, "/singer/{mid}/info")),
     Cached(PUBLIC_600, R(singer_get_mv_list, "/singer/{mid}/mvs")),
     Cached(PUBLIC_600, R(singer_get_similar, "/singer/{mid}/similar")),
     Cached(PUBLIC_300, R(singer_get_singer_list, "/singer/get_singer_list")),
     Cached(PUBLIC_300, R(singer_get_singer_list_index, "/singer/get_singer_list_index")),
     Cached(PUBLIC_300, R(singer_get_songs_list, "/singer/{mid}/songs")),
     Cached(PUBLIC_600, R(singer_get_tab_detail, "/singer/{mid}/tabs/{tab_type}"))}

SongRoutes ==
    {R(song_get_cdn_dispatch, "/song/get_cdn_dispatch"),
     Cached(PUBLIC_300, R(song_get_detail, "/song/{value}/detail")),
     Cached(PUBLIC_60, R(song_get_fav_num, "/song/get_fav_num")),
     Cached(PUBLIC_60, R(song_get_fav_num, "/song/{id}/fav_num")),
     Cached(PUBLIC_300, R(song_get_labels, "/song/{songid}/labels")),
     Cached(PUBLIC_600, R(song_get_other_version, "/song/{value}/other_versions")),
     Cached(PUBLIC_300, R(song_get_producer, "/song/{value}/producer")),
     Cached(PUBLIC_600, R(song_get_related_mv, "/song/{songid}/related_mv")),
     Cached(PUBLIC_600, R(song_get_related_songlist, "/song/{songid}/related_songlists")),
     Cached(PUBLIC_300, R(song_has_sheet, "/song/{mid}/has_sheet")),
     Cached(PUBLIC_300, R(song_get_sheet, "/song/{mid}/sheet")),
     Cached(PUBLIC_600, R(song_get_similar_song, "/song/{songid}/similar")),
     Verb("POST", Auth(OPTIONAL, R(song_get_song_urls, "/song/get_song_urls"))),
     Auth(OPTIONAL, R(song_get_song_urls, "/song/{mid}/url")),
     R(song_query_song, "/song/query_song"),
     Verb("POST", R(song_query_song, "/song/query_song"))}

SonglistRoutes ==
    {Verb("POST", Mine(songlist_add_songs, "/songlist/add_songs")),
     Verb("POST", Mine(songlist_create, "/songlist/create")),
     Verb("POST", Mine(songlist_del_songs, "/songlist/del_songs")),
     Verb("DELETE", Mine(songlist_delete, "/songlist/delete")),
     R(songlist_get_detail, "/songlist/{songlist_id}/detail")}

SoundPowerRoutes ==
    {Mine(sound_power_get_detail, "/sound_power/detail"),
     Mine(sound_power_get_hugevip_rule, "/sound_power/hugevip_rule"),
     Mine(sound_power_get_friend_rank, "/sound_power/friend_rank"),
     Verb("POST", Mine(sound_power_like_friend, "/sound_power/like")),
     Verb("POST", Mine(sound_power_set_rank_privacy, "/sound_power/privacy")),
     Mine(sound_power_get_medal_entry, "/sound_power/medal_entry"),
     Mine(sound_power_get_tasks, "/sound_power/tasks")}

TopRoutes ==
    {Cached(PUBLIC_300, R(top_get_category, "/top/get_category")),
     Cached(PUBLIC_60, R(top_get_detail, "/top/{top_id}/detail"))}

UserRoutes ==
    {Auth(OPTIONAL, R(user_get_created_songlist, "/user/{uin}/created_songlists")),
     Mine(user_get_fans, "/user/{euin}/fans"),
     Auth(OPTIONAL, R(user_get_fav_album, "/user/{euin}/fav/albums")),
     Mine(user_get_fav_mv, "/user/{euin}/fav/mvs"),
     Auth(OPTIONAL, R(user_get_fav_song, "/user/{euin}/fav/songs")),
     Auth(OPTIONAL, R(user_get_fav_songlist, "/user/{euin}/fav/songlists")),
     Mine(user_get_follow_singers, "/user/{euin}/follow/singers"),
     Mine(user_get_follow_user, "/user/{euin}/follow/users"),
     Mine(user_get_friend, "/user/get_friend"),
     Auth(OPTIONAL, R(user_get_homepage, "/user/{euin}/homepage")),
     Auth(OPTIONAL, R(user_get_music_gene, "/user/{euin}/music_gene")),
     Mine(user_get_vip_info, "/user/get_vip_info"),
     Verb("POST", Mine(user_fav_songlist, "/user/fav/songlists")),
     Verb("DELETE", Mine(user_unfav_songlist, "/user/fav/songlists/{songlist_id}")),
     Mine(user_get_dislike_list, "/user/dislikes"),
     Verb("POST", Mine(user_add_dislike, "/user/dislikes")),
     Verb("DELETE", Mine(user_cancel_dislike, "/user/dislikes")),
     Verb("DELETE", Mine(user_cancel_all_dislike_song, "/user/dislikes/songs"))}

ROUTES ==
    LoginRoutes \cup AlbumRoutes \cup CommentRoutes \cup LyricRoutes \cup MvRoutes
    \cup RecommendRoutes \cup SearchRoutes \cup SingerRoutes \cup SongRoutes
    \cup SonglistRoutes \cup SoundPowerRoutes \cup TopRoutes \cup UserRoutes

-----------------------------------------------------------------------------

\* Faulty: a cache is accepted on any route.
ValidTtlOnly(route) == route.ttl >= NoCache

\* _validate_route of one route: what is shared under a public cache must not depend on who asks.
ValidRoute(route) == route.ttl # NoCache => route.ttl > 0 /\ route.auth = NONE

\* validate_routes: a path and verb leads to one route only.
ValidRoutes(routes) ==
    /\ \A route \in routes : ValidRoute(route)
    /\ Cardinality({<<route.path, route.verb>> : route \in routes}) = Cardinality(routes)
=============================================================================
