----------------------------- MODULE DeviceTimer -----------------------------
(***************************************************************************)
(* The timers of devices (device.c): set_dev_timer and del_dev_timer in    *)
(* the clients' threads, and check_timer_and_delay, which the main thread  *)
(* runs about once a second over the online devices. A timer that fired is *)
(* expired; at midnight the check is to arm it again. Midnight is noticed  *)
(* by the time of day having gone back since the last device was checked.  *)
(* Nothing is locked: a client's thread copies a timer, clears its status  *)
(* and saves, and the check may come in between, as it may itself be       *)
(* interrupted between what it does and the mark that it did it.           *)
(*                                                                         *)
(* Each device has one timer here; the timers of a device do not interact. *)
(* The clock goes forward only. What a timer does (a status or an action   *)
(* handed to the async thread) is left out.                                *)
(***************************************************************************)
EXTENDS Integers, Sequences, FiniteSets, SequencesExt

CONSTANTS
  Dev,       \* devices
  DayLen,    \* seconds in a day (86400)
  Window,    \* a timer fires up to so many seconds late (5)
  Midnight,  \* the day has to be noticed in so many seconds (10)
  Lag,       \* the longest time between two checks of an online device
  Mode,      \* work modes
  Home,      \* the work mode the daemon starts in
  Setting,   \* the timers that clients set
  Handler,   \* the threads of clients that set timers
  First,     \* the second of the day at which the daemon starts first
  MaxDay,    \* bound: the last day
  MaxChange  \* bound: timers set, saves, devices gone, changes of mode, restarts

ASSUME TimerAssumption ==
  /\ DayLen \in Nat \ {0} /\ Window \in Nat /\ Midnight \in Nat /\ Lag \in Nat
  /\ Lag <= Window /\ Lag < Midnight /\ Midnight < DayLen
  /\ First \in 0..(DayLen - 1) /\ MaxDay \in Nat /\ MaxChange \in Nat /\ Home \in Mode
  /\ Setting \subseteq [at : 0..(DayLen - 1), days : SUBSET (0..MaxDay),
                        dated : BOOLEAN, oneshot : BOOLEAN, modes : SUBSET Mode]

VARIABLES
  queue,     \* the online devices, in the order of gl_dev_cb.queue
  timer,     \* the timer of each device; None if it is not enabled
  active,    \* timer_status.active of each device: save_config writes it
  expired,   \* timer_status.expired of each device
  stored,    \* the timers in the configuration file
  sec_today, \* gl_dev_cb.sec_today
  mode,      \* gl_dev_cb.work_mode
  todo,      \* the devices that g_queue_foreach has still to visit
  mark,      \* the device whose timer just fired and is not marked yet
  setter,    \* how far each thread is that sets or deletes a timer
  day, sec,  \* the clock
  since,     \* seconds since each device was checked
  changes,   \* how often something of this happened
  fired,     \* history: how often each timer, since it was set, fired on
             \* each day (2: twice or more)
  restarted, \* history: the days on which the daemon was restarted
  undone,    \* history: where a client's thread cleared the mark of a timer
             \* that it had copied before, and that fired in between
  armed,     \* history: the day the midnight check armed the timer and
             \* nothing concerning it happened since
  seen,      \* history: the day a device was first checked since it is online
  noticed    \* history: the last day whose midnight a check noticed

clock == <<day, sec>>
rest == <<changes, restarted>>
setting == <<setter, undone>>
witness == <<seen, noticed>>
vars == <<queue, timer, active, expired, stored, sec_today, mode, todo, day, sec,
          since, changes, fired, restarted, armed, seen, noticed, mark, setter, undone>>

None == [at |-> 0, days |-> {}, dated |-> FALSE, oneshot |-> FALSE, modes |-> {}]
Never == -1
NoCommand == [step |-> "none"]
Unfired == [x \in 0..MaxDay |-> 0]

Counted == changes < MaxChange /\ changes' = changes + 1

-----------------------------------------------------------------------------
Init ==
  /\ queue = <<>>
  /\ timer = [d \in Dev |-> None] /\ active = [d \in Dev |-> FALSE]
  /\ expired = [d \in Dev |-> FALSE]
  /\ stored = timer
  /\ sec_today = 0
  /\ mode = Home
  /\ todo = <<>>
  /\ day = 0 /\ sec = First
  /\ since = [d \in Dev |-> 0]
  /\ changes = 0
  /\ fired = [d \in Dev |-> Unfired]
  /\ restarted = {}
  /\ armed = [d \in Dev |-> Never] /\ seen = armed /\ noticed = Never
  /\ mark = <<>> /\ setter = [h \in Handler |-> NoCommand] /\ undone = {}

-----------------------------------------------------------------------------
(* A second passes; the main thread comes round in time. *)
Tick ==
  /\ \A d \in ToSet(queue) : since[d] < Lag
  /\ \/ sec < DayLen - 1 /\ sec' = sec + 1 /\ UNCHANGED day
     \/ sec = DayLen - 1 /\ day < MaxDay /\ sec' = 0 /\ day' = day + 1
  /\ since' = [d \in Dev |-> IF d \in ToSet(queue) THEN since[d] + 1 ELSE 0]
  /\ UNCHANGED <<queue, timer, active, expired, stored, sec_today, mode, todo, fired,
                 rest, armed, witness, mark, setting>>

(* The main thread begins a round of check_timer_and_delay. *)
StartRound ==
  /\ todo = <<>> /\ mark = <<>> /\ queue # <<>>
  /\ todo' = queue
  /\ UNCHANGED <<queue, timer, active, expired, stored, sec_today, mode, clock, since,
                 fired, rest, armed, witness, mark, setting>>

-----------------------------------------------------------------------------
(* _check_dev_timer_and_delay for the next device. *)

(* compare_date and the weekday: does the timer concern this day? *)
Today(tm) == day \in tm.days

(* Faulty: the new day is noticed in its first second only. *)
NewDayAtZero == sec < sec_today /\ sec = 0

(* bnextday. *)
NewDay == sec < sec_today /\ sec < Midnight

(* Faulty: no timer is armed again. *)
NeverArmed(d) == expired[d]

(* The expired flag after the midnight part. *)
ExpiredAfterMidnight(d) ==
  IF NewDay /\ timer[d] # None THEN ~Today(timer[d]) ELSE expired[d]

(* Steps 1 to 4 of the check, with the flag as the midnight part left it. *)
Fires(d) ==
  /\ timer[d] # None /\ ~ExpiredAfterMidnight(d)
  /\ mode \in timer[d].modes
  /\ Today(timer[d])
  /\ timer[d].at <= sec /\ sec - timer[d].at <= Window

(* A timer with a date that is not today's is taken for expired. *)
Dismissed(d) ==
  /\ timer[d] # None /\ mode \in timer[d].modes
  /\ timer[d].dated /\ ~Today(timer[d])

(* The expired flag when the check is over, but for a timer that fired. *)
ExpiredAfter(d) == ExpiredAfterMidnight(d) \/ Dismissed(d)

(* The time of the day as the check computes it. *)
SecToday == sec

(* The check of one device, up to the request for the async thread. A      *)
(* one-shot timer becomes inactive, which only save_config looks at.       *)
(* sec_today is global: the first device that is checked after midnight    *)
(* takes the sign of it away from the others.                              *)
CheckDevice ==
  /\ todo # <<>> /\ mark = <<>>
  /\ LET d == Head(todo)
     IN /\ expired' = [expired EXCEPT ![d] = ExpiredAfter(d)]
        /\ active' = [active EXCEPT ![d] = @ /\ ~(Fires(d) /\ timer[d].oneshot)]
        /\ fired' = [fired EXCEPT ![d][day] =
                       IF Fires(d) THEN (IF @ = 0 THEN 1 ELSE 2) ELSE @]
        /\ mark' = IF Fires(d) THEN <<d>> ELSE <<>>
        /\ since' = [since EXCEPT ![d] = 0]
        /\ armed' = IF NewDay THEN [armed EXCEPT ![d] = day] ELSE armed
        /\ seen' = [seen EXCEPT ![d] = IF @ = Never THEN day ELSE @]
  /\ noticed' = IF NewDay THEN day ELSE noticed
  /\ sec_today' = SecToday
  /\ todo' = Tail(todo)
  /\ UNCHANGED <<queue, timer, stored, mode, clock, rest, setting>>

(* Faulty: a one-shot timer is made inactive only. *)
OneShotUnmarked(d) == ~timer[d].oneshot

Marked(d) == TRUE

(* What has fired is expired. *)
MarkExpired ==
  /\ mark # <<>> /\ mark' = <<>>
  /\ expired' = [expired EXCEPT ![mark[1]] = Marked(mark[1])]
  /\ UNCHANGED <<queue, timer, active, stored, sec_today, mode, todo, clock, since, fired,
                 rest, armed, witness, setting>>

-----------------------------------------------------------------------------
(* The other threads. *)

(* What save_config writes: the timers that are active. *)
Saved(tms, act) == [d \in Dev |-> IF act[d] THEN tms[d] ELSE None]

(* set_dev_timer, and del_dev_timer for tm = None: the timer is copied, *)
SetTimer(h, d, tm) ==
  /\ Counted /\ setter[h] = NoCommand /\ d \in ToSet(queue)
  /\ timer' = [timer EXCEPT ![d] = tm]
  /\ setter' = [setter EXCEPT ![h] = [step |-> "clear", dev |-> d, on |-> tm # None]]
  /\ fired' = [fired EXCEPT ![d] = Unfired]
  /\ armed' = [armed EXCEPT ![d] = Never]
  /\ undone' = {u \in undone : u[1] # d}
  /\ UNCHANGED <<queue, active, expired, stored, sec_today, mode, todo, clock, since,
                 restarted, witness, mark>>

(* then its status is cleared, which may still be that of the old one, or  *)
(* already that of the new one,                                            *)
ClearStatus(h) ==
  /\ setter[h].step = "clear"
  /\ setter' = [setter EXCEPT ![h].step = "save"]
  /\ LET d == setter[h].dev IN
     /\ active' = [active EXCEPT ![d] = setter[h].on]
     /\ expired' = [expired EXCEPT ![d] = FALSE]
     /\ armed' = [armed EXCEPT ![d] = Never]
     /\ undone' = IF fired[d][day] > 0 /\ mark # <<d>> THEN undone \cup {<<d, day>>} ELSE undone
  /\ UNCHANGED <<queue, timer, stored, sec_today, mode, todo, clock, since, fired, rest,
                 witness, mark>>

(* and then the configuration is saved. *)
SaveTimer(h) ==
  /\ setter[h].step = "save"
  /\ setter' = [setter EXCEPT ![h] = NoCommand]
  /\ stored' = Saved(timer, active)
  /\ UNCHANGED <<queue, timer, active, expired, sec_today, mode, todo, clock, since,
                 fired, rest, armed, witness, mark, undone>>

(* Another command of a client, or a new device, saves the configuration. *)
OtherSave ==
  /\ Counted
  /\ stored' = Saved(timer, active)
  /\ UNCHANGED <<queue, timer, active, expired, sec_today, mode, todo, clock, since,
                 fired, restarted, armed, witness, mark, setting>>

(* _remove_timeout_dev and dev_offline: the timers of a device that is     *)
(* offline are not looked at.                                              *)
GoOffline(d) ==
  /\ Counted /\ d \in ToSet(queue)
  /\ queue' = RemoveFirst(queue, d)
  /\ todo' = RemoveFirst(todo, d)
  /\ since' = [since EXCEPT ![d] = 0]
  /\ armed' = [armed EXCEPT ![d] = Never] /\ seen' = [seen EXCEPT ![d] = Never]
  /\ UNCHANGED <<timer, active, expired, stored, sec_today, mode, clock, fired,
                 restarted, noticed, mark, setting>>

(* dev_online: the device is the last of the queue now; a round that is    *)
(* under way may or may not come to it.                                    *)
ComeOnline(d) ==
  /\ d \notin ToSet(queue)
  /\ queue' = Append(queue, d)
  /\ todo' \in {todo} \cup (IF todo = <<>> THEN {} ELSE {Append(todo, d)})
  /\ UNCHANGED <<timer, active, expired, stored, sec_today, mode, clock, since, fired,
                 rest, armed, witness, mark, setting>>

(* set_box_work_mode. *)
ChangeMode(m) ==
  /\ Counted /\ m # mode
  /\ mode' = m
  /\ armed' = [d \in Dev |-> Never]
  /\ UNCHANGED <<queue, timer, active, expired, stored, sec_today, todo, clock, since,
                 fired, restarted, witness, mark, setting>>

(* The daemon starts again: the file has the timers, and not whether they  *)
(* have fired; the devices come online later.                              *)
Restart ==
  /\ Counted
  /\ queue' = <<>> /\ todo' = <<>> /\ mark' = <<>>
  /\ setter' = [h \in Handler |-> NoCommand]
  /\ timer' = stored
  /\ active' = [d \in Dev |-> stored[d] # None]
  /\ expired' = [d \in Dev |-> FALSE]
  /\ sec_today' = 0
  /\ mode' = Home
  /\ since' = [d \in Dev |-> 0]
  /\ restarted' = restarted \cup {day}
  /\ armed' = [d \in Dev |-> Never] /\ seen' = armed'
  /\ UNCHANGED <<stored, clock, fired, noticed, undone>>

-----------------------------------------------------------------------------
Next ==
  \/ Tick
  \/ StartRound
  \/ CheckDevice \/ MarkExpired
  \/ \E h \in Handler : \/ \E d \in Dev, tm \in Setting \cup {None} : SetTimer(h, d, tm)
                        \/ ClearStatus(h) \/ SaveTimer(h)
  \/ OtherSave
  \/ \E d \in Dev : GoOffline(d) \/ ComeOnline(d)
  \/ \E m \in Mode : ChangeMode(m)
  \/ Restart

Spec == Init /\ [][Next]_vars

-----------------------------------------------------------------------------
(* Properties. *)

(* A timer fires once a day at most, though the check comes by several     *)
(* times in its window, at midnight too, and clients set it meanwhile;     *)
(* only a restart in the window, which forgets that the timer has fired,   *)
(* and a client's thread that had copied the timer before it fired and     *)
(* clears its status after that, make it fire again.                       *)
AtMostOncePerDay ==
  \A d \in Dev, x \in 0..MaxDay : fired[d][x] = 2 => x \in restarted \/ <<d, x>> \in undone

(* A timer that was armed at midnight, and of which no client, no change   *)
(* of mode, no loss of its device and no restart took notice since, has    *)
(* fired on this day, if it concerns the day, as soon as its time is past: *)
(* at any second of the day, the first ones included. (A device that comes *)
(* after midnight may be too late for these. Nothing is asked of a one-shot*)
(* that was used up on a day before and is no longer active.)              *)
ArmedFires ==
  \A d \in Dev :
    (/\ armed[d] = day /\ seen[d] < day
     /\ timer[d] # None /\ active[d] /\ Today(timer[d]) /\ mode \in timer[d].modes
     /\ sec > timer[d].at + Lag)
    => fired[d][day] > 0

(* The day is noticed: when a device has been online, and checked, since   *)
(* an earlier day, some check of the first seconds of a day sees that the  *)
(* time of day went back, though no thread wakes at midnight, devices come *)
(* and go, and each check overwrites the time that the next one compares.  *)
MidnightNoticed ==
  \A d \in Dev :
    (seen[d] # Never /\ seen[d] < day /\ sec > Lag) => noticed = day

=============================================================================
