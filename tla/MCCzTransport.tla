--------------------------- MODULE MCCzTransport ---------------------------
(* Small instances of CzTransport for TLC. *)
EXTENDS CzTransport
=============================================================================
