---------------------------- MODULE MCConfigStore ----------------------------
(* Small instances of ConfigStore for TLC. *)
EXTENDS ConfigStore, TLC

(* At the start the file holds nothing, one scene, or a channel for each   *)
(* name, all with one number.                                              *)
SmallFiles ==
  {Empty} \cup {[Empty EXCEPT !["scene"] = <<e>>] : e \in Entry}
  \cup {[Empty EXCEPT !["channel"] = [i \in DOMAIN l |-> [name |-> l[i], val |-> v]]] :
          l \in SetToSeqs(Name), v \in Val}

(* Clients, names and values are interchangeable. *)
Symmetry == Permutations(Client) \cup Permutations(Name) \cup Permutations(Val)
=============================================================================
