---------------------------- MODULE MCHubDevices ----------------------------
(* Small instances of HubDevices for TLC. *)
EXTENDS HubDevices, TLC

(* Devices are interchangeable, and so are addresses. *)
Symmetry == Permutations(Mac) \cup Permutations(Addr)
=============================================================================
