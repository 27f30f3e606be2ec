----------------------------- MODULE MCPagination -----------------------------
(* Pagination over lists of a few items, for TLC. *)
EXTENDS Pagination
=============================================================================
