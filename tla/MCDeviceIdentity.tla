--------------------------- MODULE MCDeviceIdentity ---------------------------
(* DeviceIdentity with two tasks, a restart and two days, for TLC. *)
EXTENDS DeviceIdentity
=============================================================================
