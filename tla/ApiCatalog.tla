------------------------------ MODULE ApiCatalog ------------------------------
(***************************************************************************)
(* The request methods of qqmusic_api/modules, by what the executors and   *)
(* the gateway tell apart: how a method travels, whether it needs a login, *)
(* which identity it shows and what it makes of the server's codes.        *)
(***************************************************************************)
EXTENDS Naturals

\* A request of ApiModule._build_cgi: the platform of the scope, its comm from build_comm.
Public ==
    [via |-> "cgi", platform |-> "scope", login |-> FALSE, own |-> FALSE, comm |-> "none",
     sign |-> FALSE, placeholder |-> FALSE, codes |-> "raise"]

\* require_login, for the credential given or else the scope's.
Personal == [Public EXCEPT !.login = TRUE]

On(platform, method) == [method EXCEPT !.platform = platform]
Signed(method) == [method EXCEPT !.sign = TRUE]
Codes(codes, method) == [method EXCEPT !.codes = codes]

\* A comm that the method adds to the one of the platform, by a name.
Comm(comm, method) == [method EXCEPT !.comm = comm]

\* override_comm: the method's own comm, that of the sheets, replaces the platform's.
OwnComm == [Comm("sheet", Public) EXCEPT !.own = TRUE]

\* ApiModule._build_http.
Http == [Public EXCEPT !.via = "http"]

\* Where the scope has no login a placeholder credential goes out.
Placeholder == [Public EXCEPT !.placeholder = TRUE]

-----------------------------------------------------------------------------
(* What reaches the server of the scope's credential: comm of Android       *)
(* carries musicid and musickey, cookies of HTTP too; comm of the desktop   *)
(* and the web only the uin; a comm of one's own carries nothing.           *)

PlatformOf(method, scope) == IF method.platform = "scope" THEN scope ELSE method.platform

Shows(method, scope) ==
    IF method.via = "http" THEN "credential"
    ELSE IF method.own THEN "nothing"
    ELSE IF PlatformOf(method, scope) = "android" THEN "credential" ELSE "uin"

\* CgiExecutor.execute_many refuses a login method without a valid credential.
NeedsLogin(method, valid) == method.login /\ ~valid

\* CgiBatchKey.from_call.
BatchKey(method, scope, credential) ==
    [platform |-> PlatformOf(method, scope), credential |-> credential, comm |-> method.comm,
     own |-> method.own, sign |-> method.sign]

-----------------------------------------------------------------------------

\* What the server and the network do to a request; misshapen is data that does not fit the
\* response model.
Outcomes ==
    {"payload", "expired", "limited", "unsigned", "refused", "outer", "http4xx", "http5xx",
     "malformed", "misshapen", "network", "timeout"}

\* LoginApi._validate_result.
ValidateResult(outcome) ==
    CASE outcome = "expired" -> {"login"}
      [] outcome = "refused" -> {"login", "refused"}
      [] OTHER -> {outcome}

\* parse_cgi_item with the codes a method allows, and what the method does with them: the
\* results it may return ("payload") or the exceptions it may raise.
ResultOf(method, outcome) ==
    CASE method.codes \in {"tells", "ignores"} /\ outcome = "expired" -> {"payload"}
      [] method.codes \in {"partial", "false", "ignores"} /\ outcome = "refused" -> {"payload", "refused"}
      [] method.codes = "any" /\ outcome \in {"expired", "limited", "unsigned", "refused"} ->
            {"payload", "login"}
      [] method.codes = "login" -> ValidateResult(outcome)
      [] method.codes = "refresh" ->
            {IF result = "login" THEN "refresh" ELSE result : result \in ValidateResult(outcome)}
      [] method.codes = "qr" ->
            CASE outcome = "timeout" -> {"payload", "timeout"}
              [] outcome \in {"http4xx", "http5xx"} -> {"malformed", outcome}
              [] OTHER -> ValidateResult(outcome)
      [] OTHER -> {outcome}

-----------------------------------------------------------------------------
(* The methods. *)

album_get_detail == Public
album_get_song == Public
album_get_new_album == Public
album_fav_album == Personal
album_del_fav_album == Personal

comment_get_comment_count == Public
comment_get_hot_comments == Public
comment_get_new_comments == Public
comment_get_recommend_comments == Public
comment_get_moment_comments == Public
comment_add_comment == Personal
comment_delete_comment == Personal

helper_init_upload == Signed(Personal)
helper_finish_upload == Signed(Personal)

\* The code for an expired credential is check_expired's answer.
login_check_expired == Codes("tells", Public)
login_refresh_credential == Comm("loginType", Codes("refresh", Public))
login_logout == Codes("ignores", Personal)
login_get_qrcode == Http
login_check_qrcode == Codes("qr", Http)
login_send_authcode == Comm("byPhone", On("android", Codes("any", Public)))
login_phone_authorize == Comm("phoneLogin", On("android", Codes("login", Public)))

lyric_get_lyric == Public
lyric_get_singing_annotations_info == Public
lyric_get_multi_style_trans_lyric == Public
lyric_is_ai_dict_exists == Public
lyric_get_ai_dict == Public

mv_get_detail == Public
mv_get_mv_urls == Public
mv_get_mv_list == Public

PrivateMessage == On("android", Personal)
private_message_get_sessions == PrivateMessage
private_message_delete_session == PrivateMessage
private_message_get_messages == PrivateMessage
private_message_send_message == PrivateMessage
private_message_delete_message == PrivateMessage
private_message_clear_session == PrivateMessage
private_message_set_config == PrivateMessage
private_message_get_config == PrivateMessage
private_message_get_musician_message_card == PrivateMessage
private_message_report_card_message_action == PrivateMessage
private_message_get_chat_entries == PrivateMessage
private_message_get_media_message_details == PrivateMessage
private_message_mark_all_messages_read == PrivateMessage
private_message_get_safety_hint == PrivateMessage
private_message_get_friendship_badge == PrivateMessage

recommend_get_home_feed == Public
recommend_get_guess_recommend == Public
recommend_get_radar_recommend == Public
recommend_get_recommend_songlist == Public
recommend_get_recommend_newsong == Public

search_get_hotkey == Public
search_complete == Public
search_quick_search == Http
search_general_search == Public
search_search_by_type == On("android", Public)

singer_get_singer_list == Public
singer_get_singer_list_index == Public
singer_get_info == On("android", Public)
singer_get_tab_detail == Public
singer_get_desc == Public
singer_get_similar == Public
singer_get_songs_list == Public
singer_get_album_list == Public
singer_get_mv_tag == Public
singer_get_mv_list == Public

song_query_song == Public
song_get_cdn_dispatch == Public
song_get_song_urls == Public
song_get_detail == On("web", Public)
song_get_similar_song == Public
song_get_labels == Public
song_get_related_songlist == Public
song_get_related_mv == Public
song_get_other_version == Public
song_get_producer == Public
\* Both metas allow 10007 and parse what comes with it; the one of Chongchong is signed.
song_get_sheet == Codes("partial", OwnComm)
song_get_chongchong_sheet == Signed(song_get_sheet)
song_has_sheet == OwnComm
song_get_fav_num == Public

songlist_get_detail == Public
songlist_create == Personal
songlist_delete == Personal
\* The code 80092 is an answer: False.
songlist_add_songs == Codes("false", Personal)
songlist_del_songs == Codes("false", Personal)
songlist_like_song == songlist_add_songs
songlist_unlike_song == songlist_del_songs

sound_power_get_detail == Personal
sound_power_get_hugevip_rule == Personal
sound_power_get_friend_rank == Personal
sound_power_like_friend == Personal
sound_power_set_rank_privacy == Personal
sound_power_get_medal_entry == Personal
sound_power_get_tasks == Personal

top_get_category == Public
top_get_detail == Public

user_get_homepage == Placeholder
user_get_vip_info == Personal
user_get_follow_singers == Personal
user_get_fans == Personal
user_get_friend == Personal
user_get_follow_user == Personal
user_get_created_songlist == Public
user_get_fav_song == Public
user_get_fav_songlist == Public
user_fav_songlist == Personal
user_unfav_songlist == Personal
user_get_fav_album == Public
user_get_fav_mv == Personal
user_get_music_gene == Public
user_get_dislike_list == Signed(Personal)
user_add_dislike == Personal
user_cancel_dislike == Personal
user_cancel_all_dislike_song == Personal

\* Every method of the SDK.
Catalog ==
    {album_get_detail, album_get_song, album_get_new_album, album_fav_album,
     album_del_fav_album, comment_get_comment_count, comment_get_hot_comments,
     comment_get_new_comments, comment_get_recommend_comments, comment_get_moment_comments,
     comment_add_comment, comment_delete_comment, helper_init_upload, helper_finish_upload,
     login_check_expired, login_refresh_credential, login_logout, login_get_qrcode,
     login_check_qrcode, login_send_authcode, login_phone_authorize, lyric_get_lyric,
     lyric_get_singing_annotations_info, lyric_get_multi_style_trans_lyric,
     lyric_is_ai_dict_exists, lyric_get_ai_dict, mv_get_detail, mv_get_mv_urls, mv_get_mv_list,
     private_message_get_sessions, private_message_delete_session, private_message_get_messages,
     private_message_send_message, private_message_delete_message,
     private_message_clear_session, private_message_set_config, private_message_get_config,
     private_message_get_musician_message_card, private_message_report_card_message_action,
     private_message_get_chat_entries, private_message_get_media_message_details,
     private_message_mark_all_messages_read, private_message_get_safety_hint,
     private_message_get_friendship_badge, recommend_get_home_feed,
     recommend_get_guess_recommend, recommend_get_radar_recommend,
     recommend_get_recommend_songlist, recommend_get_recommend_newsong, search_get_hotkey,
     search_complete, search_quick_search, search_general_search, search_search_by_type,
     singer_get_singer_list, singer_get_singer_list_index, singer_get_info,
     singer_get_tab_detail, singer_get_desc, singer_get_similar, singer_get_songs_list,
     singer_get_album_list, singer_get_mv_tag, singer_get_mv_list, song_query_song,
     song_get_cdn_dispatch, song_get_song_urls, song_get_detail, song_get_similar_song,
     song_get_chongchong_sheet, song_get_labels, song_get_related_songlist, song_get_related_mv,
     song_get_other_version, song_get_producer, song_get_sheet, song_has_sheet,
     song_get_fav_num, songlist_get_detail, songlist_create, songlist_delete,
     songlist_add_songs, songlist_del_songs, songlist_like_song, songlist_unlike_song,
     sound_power_get_detail, sound_power_get_hugevip_rule, sound_power_get_friend_rank,
     sound_power_like_friend, sound_power_set_rank_privacy, sound_power_get_medal_entry,
     sound_power_get_tasks, top_get_category, top_get_detail, user_get_homepage,
     user_get_vip_info, user_get_follow_singers, user_get_fans, user_get_friend,
     user_get_follow_user, user_get_created_songlist, user_get_fav_song, user_get_fav_songlist,
     user_fav_songlist, user_unfav_songlist, user_get_fav_album, user_get_fav_mv,
     user_get_music_gene, user_get_dislike_list, user_add_dislike, user_cancel_dislike,
     user_cancel_all_dislike_song}
=============================================================================
