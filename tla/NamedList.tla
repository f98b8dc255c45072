------------------------------ MODULE NamedList ------------------------------
(***************************************************************************)
(* Lists of named entries, as channel.c keeps the channels of a device and *)
(* scene.c the scenes.                                                     *)
(***************************************************************************)
EXTENDS Integers, Sequences, SequencesExt

Names(l) == {l[i].name : i \in DOMAIN l}

(* The loops that compare the names, and stop at the first that matches. *)
Position(l, n) == CHOOSE i \in DOMAIN l : l[i].name = n /\ \A j \in 1..(i - 1) : l[j].name # n

(* A new entry goes to the tail. *)
Add(l, n, v) == Append(l, [name |-> n, val |-> v])

(* A known name gets the value where it is. *)
Replace(l, n, v) == [l EXCEPT ![Position(l, n)] = [name |-> n, val |-> v]]

Put(l, n, v) == IF n \in Names(l) THEN Replace(l, n, v) ELSE Add(l, n, v)

(* Faulty: the entry at the tail goes. *)
DropLast(l, n) == IF n \in Names(l) THEN Front(l) ELSE l

Drop(l, n) == IF n \in Names(l) THEN RemoveAt(l, Position(l, n)) ELSE l

(* What a search for the name finds; none if it finds nothing. *)
Lookup(l, n, none) == IF n \in Names(l) THEN l[Position(l, n)].val ELSE none

Unique(l) == \A i, j \in DOMAIN l : l[i].name = l[j].name => i = j
=============================================================================
