------------------------------- MODULE NameMap -------------------------------
(***************************************************************************)
(* What the lists of named entries promise: a map from keys to values. A   *)
(* worker asks for something, and the request takes effect once, as a      *)
(* whole, at some moment after that: it sets or deletes its own key and    *)
(* touches no other. Only the start and the end of the program clear the   *)
(* map, and only the start enters keys that nobody asked for. A key is a   *)
(* name in one of some lists. The promise ends when two workers ask at     *)
(* once to set the same key, or when what one worker does in a list makes  *)
(* another miss a name there.                                              *)
(***************************************************************************)
CONSTANTS Worker, List, Name, Val, None

VARIABLES map, asked, broken

Key == List \X Name

(* To set a key, or to delete it: then it gets None. *)
Requests == [op : {"set"}, key : Key, val : Val] \cup [op : {"del"}, key : Key, val : {None}]

Init == map = [k \in Key |-> None] /\ asked = {} /\ broken = FALSE

Clash(r) == r.op = "set" /\ \E q \in asked : q[2].op = "set" /\ q[2].key = r.key

(* A worker asks for one thing at a time. *)
Ask ==
  \E p \in asked' \ asked :
    /\ p \in Worker \X Requests
    /\ \A q \in asked : q[1] # p[1]
    /\ asked' = asked \cup {p} /\ UNCHANGED map
    /\ broken' = (broken \/ Clash(p[2]))

Do(p) ==
  /\ map' = [map EXCEPT ![p[2].key] = p[2].val]
  /\ asked' = asked \ {p} /\ UNCHANGED broken

(* The request takes effect, and others in the list get lost. *)
Meet(p) ==
  /\ map' = [map EXCEPT ![p[2].key] = p[2].val]
  /\ p \notin asked' /\ asked' \subseteq asked
  /\ \E q \in asked : q[1] # p[1] /\ q[2].key[1] = p[2].key[1]
  /\ broken'

Load(k, v) == map' = [map EXCEPT ![k] = v] /\ UNCHANGED <<asked, broken>>

(* The end forgets the requests, too. *)
Clear == map' = [k \in Key |-> None] /\ asked' \in {asked, {}} /\ UNCHANGED broken

Next ==
  \/ Ask
  \/ \E p \in asked : Do(p) \/ Meet(p)
  \/ \E k \in Key, v \in Val : Load(k, v)
  \/ Clear
  \/ broken /\ broken'

Spec == Init /\ [][Next]_<<map, asked, broken>>
=============================================================================
