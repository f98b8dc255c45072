------------------------- MODULE MCRegistryThreads -------------------------
(* Small instances of RegistryThreads for TLC. *)
EXTENDS RegistryThreads

CONSTANT v1

(* A device of the driver, and an infrared one behind it. *)
RadioAndIr == <<v1, ZeroMac>>

(* Nothing is promised once offq is mixed up: such states are not explored *)
(* further.                                                                *)
Sound == ~mixed
=============================================================================
