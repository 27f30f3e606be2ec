------------------------------- MODULE MCGateway -------------------------------
(* Gateway with every policy of the catalogue, for TLC. *)
EXTENDS Gateway
=============================================================================
