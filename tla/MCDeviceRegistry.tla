------------------------- MODULE MCDeviceRegistry -------------------------
(* Small instances of DeviceRegistry for TLC. *)
EXTENDS DeviceRegistry
=============================================================================
