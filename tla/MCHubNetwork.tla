---------------------------- MODULE MCHubNetwork ----------------------------
(* Small instances of HubNetwork for TLC. *)
EXTENDS HubNetwork
=============================================================================
