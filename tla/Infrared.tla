------------------------------- MODULE Infrared -------------------------------
(***************************************************************************)
(* What the infrared driver (driver_ir.c) makes of the values that an air  *)
(* conditioner (Gree) or a set-top box (CC9201) is to be set. Neither can  *)
(* answer: the hub sends infrared through another device, the remote, and  *)
(* remembers what it believes the appliance does.                          *)
(***************************************************************************)
EXTENDS Integers, Sequences

CONSTANTS
  Ac,       \* air conditioners
  Stb,      \* set-top boxes
  RemoteOf  \* the online remote in the room of each, as update_link finds it

Ir == Ac \cup Stb

(* GREE_STATUS_ID and HSB_TV_STATUS_CHANNEL. *)
WorkMode == 0
Power == 1
WindSpeed == 2
Temperature == 3
Light == 4
Channel == 0

(* A new or recovered appliance is believed to be in this state. *)
Default(d, i) ==
  IF d \in Ac /\ i = Temperature THEN 25 ELSE IF d \in Ac /\ i = Light THEN 1 ELSE 0

(* The values gree_set_status takes. *)
Sane(set) ==
  \/ set.id = WorkMode /\ set.val <= 4
  \/ set.id \in {Power, Light}
  \/ set.id = WindSpeed /\ set.val <= 3
  \/ set.id = Temperature /\ set.val \in 16..30

(* In automatic mode, if the request says so before, the temperature is 25.*)
TreatedVal(sets, i) ==
  CASE sets[i].id \in {Power, Light} /\ sets[i].val > 0 -> 1
    [] sets[i].id = Temperature /\ \E j \in 1..(i - 1) : sets[j].id = WorkMode /\ sets[j].val = 0 -> 25
    [] OTHER -> sets[i].val
Treated(sets) == [i \in DOMAIN sets |-> [id |-> sets[i].id, val |-> TreatedVal(sets, i)]]

(* What an appliance does that is sent value v: the frame has a bit for    *)
(* the power and for the light, and a channel is sent as three digits.     *)
Shown(d, i, v) ==
  CASE d \in Ac /\ i \in {Power, Light} -> IF v > 0 THEN 1 ELSE 0
    [] d \in Stb -> v % 1000
    [] OTHER -> v
=============================================================================
