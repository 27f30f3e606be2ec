--------------------------- MODULE MCBatchExecution ---------------------------
(* BatchExecution with a public, a personal and an HTTP method, for TLC. *)
EXTENDS BatchExecution

MCMethods == {song_query_song, user_get_vip_info, search_quick_search}
=============================================================================
