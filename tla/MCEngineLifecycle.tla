-------------------------- MODULE MCEngineLifecycle --------------------------
(* EngineLifecycle with a few operations and calls of close, for TLC. *)
EXTENDS EngineLifecycle
=============================================================================
