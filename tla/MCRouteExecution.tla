--------------------------- MODULE MCRouteExecution ---------------------------
(* RouteExecution on a few requests, for TLC. *)
EXTENDS RouteExecution
=============================================================================
