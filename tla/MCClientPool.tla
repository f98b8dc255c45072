---------------------------- MODULE MCClientPool ----------------------------
(* Small instances of ClientPool for TLC. *)
EXTENDS ClientPool, TLC

(* Connections are interchangeable in the safety runs. *)
Symmetry == Permutations(Client)
=============================================================================
