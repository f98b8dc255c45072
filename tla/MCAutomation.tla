----------------------------- MODULE MCAutomation -----------------------------
(* A small instance of Automation for TLC. *)
EXTENDS Automation

CONSTANTS lamp, ac, stb

(* The lamp is a Wi-Fi device that can send infrared, too, for an air      *)
(* conditioner and a set-top box.                                          *)
SmallRemotes == [d \in Ir |-> lamp]
SmallValues ==
  [k \in {<<lamp, 1>>, <<ac, WorkMode>>, <<ac, Temperature>>, <<stb, Channel>>, <<stb, 1>>} |->
     CASE k[1] = lamp -> {0, 1}
       [] k = <<ac, WorkMode>> -> {0}
       [] k = <<ac, Temperature>> -> {20, 25}
       [] k = <<stb, Channel>> -> {0, 7}
       [] k = <<stb, 1>> -> {0}]

(* Value 1 of the hub is its work mode. The evening switches the lamp on   *)
(* and sets the air conditioner, and later the box to a channel if the     *)
(* lamp is still on; the guard changes the mode and the lamp if the lamp   *)
(* is on. When the lamp comes back it asks for a mode that is none, and    *)
(* a movement for a temperature and a value of the box that there are not. *)
On(d, i, v) == [dev |-> d, id |-> i, val |-> v]
If(d, i, e, v) == [dev |-> d, id |-> i, expr |-> e, val |-> v]
SmallActions == [s \in {"evening", "guard"} |->
  IF s = "evening"
  THEN <<[delay |-> 2, cond |-> NoCond,
          acts |-> <<On(ac, WorkMode, 0), On(lamp, 1, 1), On(ac, Temperature, 20)>>],
         [delay |-> 3, cond |-> If(lamp, 1, ">=", 1), acts |-> <<On(stb, Channel, 7)>>]>>
  ELSE <<[delay |-> 3, cond |-> If(lamp, 1, ">=", 1), acts |-> <<On(Box, 1, 1), On(lamp, 1, 0)>>]>>]

SmallLinks == [d \in Dev |->
  IF d = lamp THEN <<[event |-> "moved", modes |-> {1}, action |-> FALSE, act |-> On(ac, Temperature, 31)],
                     [event |-> "moved", modes |-> {1}, action |-> FALSE, act |-> On(stb, 1, 1)],
                     [event |-> "moved", modes |-> {0}, action |-> TRUE, act |-> On(stb, 0, 0)],
                     [event |-> "online", modes |-> {0, 1}, action |-> FALSE, act |-> On(Box, 1, 2)]>>
  ELSE <<>>]
(* A third run waits until one of the others has ended. *)
SmallWishes == <<{"evening"}, {"evening", "guard"}, {"guard"}>>

SmallModes == [d \in Dev |-> {0, 1}]
=============================================================================
