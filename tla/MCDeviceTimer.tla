---------------------------- MODULE MCDeviceTimer ----------------------------
(* Small instances of DeviceTimer for TLC. *)
EXTENDS DeviceTimer, TLC

Timer(at, days, dated, oneshot, modes) ==
  [at |-> at, days |-> days, dated |-> dated, oneshot |-> oneshot, modes |-> modes]

(* The timers of the queue differ in their owner only by its name. *)
Symmetry == Permutations(Dev)

(* A one-shot at midnight on every day, and a timer a second later on the  *)
(* second day, with its date, at home only.                                *)
Settings ==
  {Timer(0, 0..MaxDay, FALSE, TRUE, Mode),
   Timer(1, {1}, TRUE, FALSE, {Home})}
=============================================================================
