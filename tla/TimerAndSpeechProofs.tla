------------------------- MODULE TimerAndSpeechProofs -------------------------
(***************************************************************************)
(* For any devices, timers and days, any length of the day and any window: *)
(* a timer fires at most once a day unless the daemon is restarted on that *)
(* day or a client is just setting it; a day that begins while a device is *)
(* online is noticed; and the timers that are then armed fire.             *)
(*                                                                         *)
(* For either speech daemon, sockets of any length and any number of       *)
(* commands: nothing is left of a listening when it is over, a daemon that *)
(* works hears, and nothing is written to a session that has ended, but    *)
(* for the faults that are named.                                          *)
(***************************************************************************)
EXTENDS DeviceTimer, Speech, QueueFacts

Day == 0..MaxDay
Types ==
  /\ queue \in Seq(Dev) /\ todo \in Seq(Dev)
  /\ timer \in [Dev -> Setting \cup {None}] /\ stored \in [Dev -> Setting \cup {None}]
  /\ expired \in [Dev -> BOOLEAN]
  /\ day \in Day /\ sec \in 0..(DayLen - 1) /\ sec_today \in 0..(DayLen - 1)
  /\ since \in [Dev -> Nat]
  /\ fired \in [Dev -> [Day -> 0..2]]
  /\ armed \in [Dev -> Day \cup {Never}] /\ seen \in [Dev -> Day \cup {Never}]
  /\ noticed \in Day \cup {Never}
  /\ mark = <<>> \/ \E d \in Dev : mark = <<d>>
  /\ setter \in [Handler -> {NoCommand} \cup [step : {"clear", "save"}, dev : Dev, on : BOOLEAN]]

(* What has fired today is expired, or about to be marked so, and will     *)
(* stay so: midnight is not noticed any more, as every check puts the time *)
(* of the day down.                                                        *)
Excused(d, x) == x \in restarted \/ <<d, x>> \in undone
Spent(d) == (expired[d] \/ mark = <<d>>) /\ sec_today <= sec
FiredOnce(d) ==
  /\ \A x \in Day : fired[d][x] = 2 => Excused(d, x)
  /\ \A x \in Day : x > day => fired[d][x] = 0
  /\ ~Excused(d, day) /\ fired[d][day] # 0 => Spent(d)

(* A device that has been checked is checked often: the last check of any  *)
(* device was not long ago, or, if midnight has passed and has not been    *)
(* noticed, before midnight.                                               *)
CheckedOften(d) ==
  seen[d] # Never =>
    /\ d \in ToSet(queue) /\ since[d] <= Lag /\ seen[d] <= day
    /\ IF seen[d] = day \/ noticed = day
       THEN sec - since[d] <= sec_today
       ELSE DayLen + sec - since[d] <= sec_today

(* A timer that was armed today is not expired, and its time has not come  *)
(* by the last check, unless it has fired, as it did if it is to be marked.*)
ArmedWaits(d) ==
  /\ armed[d] <= day /\ (armed[d] = day => noticed = day)
  /\ (/\ armed[d] = day /\ seen[d] < day
      /\ timer[d] # None /\ Today(timer[d]) /\ mode \in timer[d].modes
      /\ fired[d][day] = 0)
     => seen[d] # Never /\ ~expired[d] /\ timer[d].at > sec - since[d]
  /\ mark = <<d>> /\ armed[d] = day => fired[d][day] # 0

(* Once midnight is noticed it is not noticed again. *)
Noticed == noticed <= day /\ (noticed = day => sec_today <= sec)

(* A round comes to devices of the queue, to each once. *)
Rounds == IsInjective(queue) /\ IsInjective(todo) /\ ToSet(todo) \subseteq ToSet(queue)

TimerInv ==
  /\ Types /\ Rounds /\ Noticed
  /\ \A d \in Dev : FiredOnce(d) /\ CheckedOften(d) /\ ArmedWaits(d)

-----------------------------------------------------------------------------
(* What has to be known of the bounds. *)
LEMMA Bounds ==
  /\ DayLen \in Nat /\ DayLen > 0 /\ Lag \in Nat /\ Window \in Nat /\ Midnight \in Nat
  /\ Lag <= Window /\ Lag < Midnight /\ Midnight < DayLen /\ MaxDay \in Nat
  /\ Never = -1 /\ Day \subseteq Nat /\ 0 \in Day
  /\ \A tm \in Setting \cup {None} : tm.at \in 0..(DayLen - 1)
<1>1. \A tm \in Setting : tm.at \in 0..(DayLen - 1)
  BY TimerAssumption
<1>2. None.at \in 0..(DayLen - 1)
  BY TimerAssumption DEF None
<1> QED BY <1>1, <1>2, TimerAssumption DEF Never, Day

(* g_queue_remove takes one device from the queue. *)
LEMMA RemoveFirstProps ==
  ASSUME NEW S, NEW q \in Seq(S), NEW e, IsInjective(q)
  PROVE  /\ RemoveFirst(q, e) \in Seq(S) /\ IsInjective(RemoveFirst(q, e))
         /\ ToSet(RemoveFirst(q, e)) = ToSet(q) \ {e}
<1>1. Len(q) \in Nat /\ \A x \in ToSet(q) : \E i \in 1..Len(q) : q[i] = x
  BY ToSetProps
<1> DEFINE I == {i \in 1..Len(q) : q[i] = e}
           r == RemoveFirst(q, e)
<1>2. CASE I = {}
  <2>1. e \notin ToSet(q) /\ r = q
    BY <1>1, <1>2 DEF RemoveFirst
  <2> QED BY <2>1
<1>3. CASE I # {}
  <2>0. I \in SUBSET Nat
    OBVIOUS
  <2>1. PICK k \in I : \A j \in I : k <= j
    BY <2>0, <1>3, LeastNat
  <2>2. PICK i \in 1..Len(q) : q[i] = e /\ r = RemoveAt(q, i)
    <3>1. r = RemoveAt(q, Min(I))
      BY <1>3 DEF RemoveFirst, SelectInSeq
    <3>2. Min(I) \in I
      BY <2>1 DEF Min
    <3> QED BY <3>1, <3>2
  <2> HIDE DEF r, I
  <2>3. r \in Seq(S) /\ ToSet(r) = ToSet(q) \ {q[i]} /\ IsInjective(r)
    BY <2>2, RemoveNth
  <2> QED BY <2>2, <2>3 DEF r
<1> QED BY <1>2, <1>3

LEMMA EmptyQueue == ToSet(<<>>) = {} /\ IsInjective(<<>>)
<1>1. ToSet(<<>>) = {}
  BY EmptySeq DEF ToSet
<1>2. IsInjective(<<>>)
  BY EmptySeq DEF IsInjective
<1> QED BY <1>1, <1>2

LEMMA TimerInit == Init => TimerInv
<1> SUFFICES ASSUME Init PROVE TimerInv
  OBVIOUS
<1> USE DEF Init
<1>1. Types
  <2>1. queue \in Seq(Dev) /\ todo \in Seq(Dev)
    BY EmptySeq
  <2> QED BY <2>1, Bounds, TimerAssumption DEF Types, Unfired, Day
<1>2. Noticed
  BY Bounds DEF Noticed
<1>3. \A d \in Dev : FiredOnce(d) /\ CheckedOften(d) /\ ArmedWaits(d)
  BY Bounds DEF FiredOnce, Spent, CheckedOften, ArmedWaits, Unfired, Day
<1>4. Rounds
  BY EmptyQueue DEF Rounds
<1> QED BY <1>1, <1>2, <1>3, <1>4 DEF TimerInv

LEMMA TypesOfNumbers ==
  ASSUME Types
  PROVE  /\ sec \in Nat /\ sec_today \in Nat /\ day \in Nat /\ noticed \in Int
         /\ \A d \in Dev : since[d] \in Nat /\ seen[d] \in Int /\ armed[d] \in Int
<1>1. Day \subseteq Int /\ Never \in Int
  BY Bounds
<1>2. \A d \in Dev : seen[d] \in Day \cup {Never} /\ armed[d] \in Day \cup {Never}
  BY DEF Types
<1>3. sec \in Nat /\ sec_today \in Nat /\ \A d \in Dev : since[d] \in Nat
  BY DEF Types
<1>4. day \in Nat /\ noticed \in Int
  BY <1>1, Bounds DEF Types
<1> QED BY <1>1, <1>2, <1>3, <1>4

-----------------------------------------------------------------------------
(* A second passes. *)
LEMMA TickStep ==
  ASSUME TimerInv, Tick PROVE TimerInv'
<1> USE Bounds
<1>1. /\ \A d \in ToSet(queue) : since[d] < Lag
      /\ UNCHANGED <<queue, timer, expired, stored, sec_today, mode, todo, fired,
                     restarted, armed, seen, noticed, mark, setter, undone>>
      /\ \/ sec < DayLen - 1 /\ sec' = sec + 1 /\ day' = day
         \/ sec = DayLen - 1 /\ day < MaxDay /\ sec' = 0 /\ day' = day + 1
  BY DEF Tick, rest, witness, setting
<1>2. Types
  BY DEF TimerInv
<1>3. /\ sec \in Nat /\ sec_today \in Nat /\ day \in Nat /\ noticed \in Int
      /\ \A d \in Dev : since[d] \in Nat /\ seen[d] \in Int /\ armed[d] \in Int
  BY <1>2, TypesOfNumbers
<1>4. \A d \in Dev : since'[d] = IF d \in ToSet(queue) THEN since[d] + 1 ELSE 0
  BY DEF Tick
<1>5. Types'
  <2>1. since' \in [Dev -> Nat]
    BY <1>3 DEF Tick
  <2>2. day' \in Day /\ sec' \in 0..(DayLen - 1)
    BY <1>1, <1>2 DEF Types, Day
  <2> QED BY <1>1, <1>2, <2>1, <2>2 DEF Types
<1>6. Noticed'
  BY <1>1, <1>3 DEF TimerInv, Noticed
<1>7. ASSUME NEW d \in Dev PROVE FiredOnce(d)'
  <2>1. FiredOnce(d)
    BY DEF TimerInv
  <2>2. CASE day' = day
    BY <1>1, <1>3, <2>1, <2>2 DEF FiredOnce, Excused, Spent
  <2>3. CASE day' = day + 1
    <3>1. \A x \in Day : x > day' => x > day
      BY <1>2, <1>3, <2>3 DEF Day
    <3>2. day' \in Day /\ day' > day
      BY <1>3, <1>5, <2>3 DEF Types
    <3> QED BY <1>1, <2>1, <3>1, <3>2 DEF FiredOnce, Excused
  <2> QED BY <1>1, <2>2, <2>3
<1>8. ASSUME NEW d \in Dev PROVE CheckedOften(d)'
  <2> SUFFICES ASSUME seen[d] # Never PROVE CheckedOften(d)'
    BY <1>1 DEF CheckedOften
  <2>1. /\ d \in ToSet(queue) /\ since[d] < Lag /\ seen[d] <= day /\ noticed <= day
        /\ IF seen[d] = day \/ noticed = day
           THEN sec - since[d] <= sec_today
           ELSE DayLen + sec - since[d] <= sec_today
    BY <1>1 DEF TimerInv, CheckedOften, Noticed
  <2>2. since'[d] = since[d] + 1 /\ sec_today <= DayLen - 1
    BY <1>2, <1>4, <2>1 DEF Types
  <2>3. CASE day' = day
    BY <1>1, <1>3, <2>1, <2>2, <2>3 DEF CheckedOften
  <2>4. CASE day' = day + 1 /\ sec = DayLen - 1 /\ sec' = 0
    <3>1. seen'[d] < day' /\ noticed' < day'
      BY <1>1, <1>3, <2>1, <2>4
    <3>2. sec - since[d] <= sec_today
      BY <1>3, <2>1, <2>2
    <3>3. DayLen + sec' - since'[d] <= sec_today'
      BY <1>1, <1>3, <2>2, <2>4, <3>2
    <3>4. d \in ToSet(queue') /\ since'[d] <= Lag
      BY <1>1, <1>3, <2>1, <2>2
    <3> QED BY <1>1, <1>3, <3>1, <3>3, <3>4 DEF CheckedOften
  <2> QED BY <1>1, <2>3, <2>4
<1>9. ASSUME NEW d \in Dev PROVE ArmedWaits(d)'
  <2>1. ArmedWaits(d) /\ CheckedOften(d)
    BY DEF TimerInv
  <2>2. CASE day' = day
    <3>1. seen[d] # Never => since'[d] = since[d] + 1
      BY <1>4, <2>1 DEF CheckedOften
    <3> QED BY <1>1, <1>3, <2>1, <2>2, <3>1 DEF ArmedWaits, Today
  <2>3. CASE day' = day + 1
    <3>1. armed'[d] < day'
      BY <1>1, <1>3, <2>1, <2>3 DEF ArmedWaits
    <3> QED BY <1>3, <3>1, <1>1 DEF ArmedWaits
  <2> QED BY <1>1, <2>2, <2>3
<1>10. Rounds'
  BY <1>1 DEF TimerInv, Rounds
<1> QED BY <1>5, <1>6, <1>7, <1>8, <1>9, <1>10 DEF TimerInv

-----------------------------------------------------------------------------
(* The check of a device. *)

(* If midnight has passed unnoticed, the device that has been online since *)
(* before is looked at so soon that it is noticed now.                     *)
LEMMA MidnightSeen ==
  ASSUME TimerInv, NEW d \in Dev, seen[d] # Never, seen[d] # day, noticed # day
  PROVE  NewDay /\ sec < Lag
<1>1. Types /\ CheckedOften(d)
  BY DEF TimerInv
<1>2. DayLen + sec - since[d] <= sec_today /\ since[d] <= Lag
  BY <1>1 DEF CheckedOften
<1>3. sec \in Nat /\ sec_today \in Nat /\ since[d] \in Nat /\ sec_today <= DayLen - 1
  BY <1>1, Bounds DEF Types
<1> QED BY <1>2, <1>3, Bounds DEF NewDay

LEMMA CheckStep ==
  ASSUME TimerInv, CheckDevice PROVE TimerInv'
<1> USE Bounds
<1> DEFINE c == Head(todo)
<1>0. Types
  BY DEF TimerInv
<1>1. /\ todo # <<>> /\ mark = <<>> /\ sec_today' = sec /\ todo' = Tail(todo)
      /\ UNCHANGED <<queue, timer, stored, mode, day, sec, restarted, setter, undone>>
      /\ noticed' = IF NewDay THEN day ELSE noticed
  BY DEF CheckDevice, SecToday, clock, rest, setting
<1>2. /\ c \in Dev /\ Tail(todo) \in Seq(Dev)
      /\ ToSet(todo) = {c} \cup ToSet(Tail(todo))
      /\ IsInjective(todo) => IsInjective(Tail(todo))
  BY <1>0, <1>1, PopHead DEF Types
<1>3. /\ sec \in Nat /\ sec_today \in Nat /\ day \in Nat /\ noticed \in Int
      /\ \A d \in Dev : since[d] \in Nat /\ seen[d] \in Int /\ armed[d] \in Int
  BY <1>0, TypesOfNumbers
<1>4. day \in Day /\ \A d \in Dev : fired[d] \in [Day -> 0..2] /\ expired[d] \in BOOLEAN
  BY <1>0 DEF Types
<1> DEFINE old == fired[c][day]
           count == IF Fires(c) THEN (IF old = 0 THEN 1 ELSE 2) ELSE old
<1>5. /\ expired' = [expired EXCEPT ![c] = ExpiredAfter(c)]
      /\ fired' = [fired EXCEPT ![c][day] = count]
      /\ since' = [since EXCEPT ![c] = 0]
      /\ armed' = IF NewDay THEN [armed EXCEPT ![c] = day] ELSE armed
      /\ seen' = [seen EXCEPT ![c] = IF seen[c] = Never THEN day ELSE seen[c]]
      /\ mark' = IF Fires(c) THEN <<c>> ELSE <<>>
  BY DEF CheckDevice
<1>6. count \in 0..2 /\ ExpiredAfter(c) \in BOOLEAN
  BY <1>2, <1>4 DEF ExpiredAfter, ExpiredAfterMidnight, Dismissed, Today
<1> HIDE DEF c, count
<1>7. /\ \A d \in Dev \ {c} : /\ expired'[d] = expired[d] /\ fired'[d] = fired[d]
                              /\ since'[d] = since[d] /\ armed'[d] = armed[d]
                              /\ seen'[d] = seen[d]
      /\ expired'[c] = ExpiredAfter(c) /\ since'[c] = 0
      /\ fired'[c][day] = count /\ \A x \in Day \ {day} : fired'[c][x] = fired[c][x]
      /\ armed'[c] = IF NewDay THEN day ELSE armed[c]
      /\ seen'[c] = IF seen[c] = Never THEN day ELSE seen[c]
      /\ \A d \in Dev : mark' = <<d>> => d = c /\ Fires(c)
  <2>1. \A d \in Dev : <<d>> # <<>> /\ (<<c>> = <<d>> => d = c)
    OBVIOUS
  <2> QED BY <1>0, <1>2, <1>4, <1>5, <2>1 DEF Types
<1>8. Types'
  <2>1. fired' \in [Dev -> [Day -> 0..2]]
    BY <1>0, <1>2, <1>4, <1>5, <1>6 DEF Types
  <2>2. since' \in [Dev -> Nat] /\ expired' \in [Dev -> BOOLEAN]
    BY <1>0, <1>5, <1>6 DEF Types
  <2>3. /\ armed' \in [Dev -> Day \cup {Never}] /\ seen' \in [Dev -> Day \cup {Never}]
        /\ noticed' \in Day \cup {Never}
    BY <1>0, <1>1, <1>2, <1>4, <1>5 DEF Types
  <2> QED BY <1>0, <1>1, <1>2, <1>5, <2>1, <2>2, <2>3 DEF Types
<1>9. Noticed'
  BY <1>1, <1>3 DEF TimerInv, Noticed
<1>10. \A d \in Dev : ~Excused(d, day) /\ fired[d][day] # 0 => ~NewDay /\ expired[d]
  BY <1>1, <1>3 DEF TimerInv, FiredOnce, Spent, NewDay
<1>11. ASSUME NEW d \in Dev PROVE FiredOnce(d)'
  <2>1. FiredOnce(d)
    BY DEF TimerInv
  <2>2. CASE d # c
    BY <1>1, <1>3, <1>7, <2>1, <2>2 DEF FiredOnce, Excused, Spent
  <2>3. CASE d = c
    <3>1. ~Excused(c, day) /\ fired[c][day] # 0
            => expired'[c] /\ count = fired[c][day]
      BY <1>2, <1>4, <1>7, <1>10 DEF ExpiredAfter, ExpiredAfterMidnight, Fires, count
    <3>2. fired[c][day] = 0 => count # 2 /\ (count # 0 => mark' = <<c>>)
      <4>1. fired[c][day] = 0 => count = IF Fires(c) THEN 1 ELSE 0
        BY DEF count
      <4>2. Fires(c) => mark' = <<c>>
        BY <1>5
      <4> QED BY <4>1, <4>2
    <3>3. ASSUME NEW x \in Day, fired'[c][x] = 2 PROVE Excused(d, x)'
      <4>1. CASE x # day
        BY <1>1, <1>7, <2>1, <2>3, <3>3, <4>1 DEF FiredOnce, Excused
      <4>2. CASE x = day
        <5>1. count = 2
          BY <1>7, <3>3, <4>2
        <5>2. ~Excused(d, day) => fired[c][day] = 2
          BY <2>3, <3>1, <3>2, <5>1
        <5> QED BY <1>1, <1>4, <2>1, <2>3, <4>2, <5>2 DEF FiredOnce, Excused
      <4> QED BY <4>1, <4>2
    <3>4. ASSUME NEW x \in Day, x > day' PROVE fired'[c][x] = 0
      <4>1. x # day /\ x > day
        BY <1>1, <1>3, <3>4
      <4> QED BY <1>7, <2>1, <2>3, <4>1 DEF FiredOnce
    <3>5. ~Excused(d, day)' /\ fired'[d][day'] # 0 => Spent(d)'
      BY <1>1, <1>3, <1>7, <2>3, <3>1, <3>2 DEF Excused, Spent
    <3> QED BY <2>3, <3>3, <3>4, <3>5 DEF FiredOnce
  <2> QED BY <2>2, <2>3
<1>12. ASSUME NEW d \in Dev PROVE CheckedOften(d)'
  <2>1. CheckedOften(d)
    BY DEF TimerInv
  <2>2. since'[d] \in Nat /\ since'[d] <= since[d] /\ sec - since'[d] <= sec_today'
    BY <1>1, <1>3, <1>7
  <2>3. CASE seen[d] = Never
    <3>1. CASE d = c
      <4>1. c \in ToSet(queue)
        BY <1>2 DEF TimerInv, Rounds
      <4> QED BY <1>1, <1>3, <1>7, <2>2, <2>3, <3>1, <4>1 DEF CheckedOften
    <3>2. CASE d # c
      BY <1>7, <2>3, <3>2 DEF CheckedOften
    <3> QED BY <3>1, <3>2
  <2>4. CASE seen[d] # Never
    <3>1. seen'[d] = seen[d]
      BY <1>7, <2>4
    <3>2. seen[d] = day \/ noticed' = day
      BY <1>1, <2>4, MidnightSeen
    <3> QED BY <1>1, <1>3, <2>1, <2>2, <2>4, <3>1, <3>2 DEF CheckedOften
  <2> QED BY <2>3, <2>4
<1>13. Rounds'
  BY <1>1, <1>2 DEF TimerInv, Rounds
<1>14. ASSUME NEW d \in Dev PROVE ArmedWaits(d)'
  <2>1. ArmedWaits(d) /\ CheckedOften(d) /\ Noticed /\ timer[d].at \in 0..(DayLen - 1)
    BY <1>0 DEF TimerInv, Types
  <2>2. armed'[d] <= day' /\ (armed'[d] = day' => noticed' = day')
    BY <1>1, <1>3, <1>7, <2>1 DEF ArmedWaits
  <2>5. mark' = <<d>> => fired'[d][day'] # 0
    BY <1>1, <1>2, <1>4, <1>7 DEF count
  <2>3. CASE d # c
    BY <1>1, <1>3, <1>7, <2>1, <2>2, <2>3, <2>5 DEF ArmedWaits, Today
  <2>4. CASE d = c
    <3> SUFFICES ASSUME armed'[c] = day, seen'[c] < day, timer[c] # None, Today(timer[c]),
                        mode \in timer[c].modes, fired'[c][day] = 0
                 PROVE  seen'[c] # Never /\ ~expired'[c] /\ timer[c].at > sec - since'[c]
      BY <1>1, <2>2, <2>4, <2>5 DEF ArmedWaits, Today
    <3>1. seen[c] # Never /\ seen[c] < day /\ seen'[c] = seen[c]
      <4>1. seen[c] = Never => seen'[c] = day
        BY <1>7
      <4>2. ~(day < day)
        BY <1>3
      <4>3. seen[c] # Never
        BY <4>1, <4>2
      <4> QED BY <1>7, <4>3
    <3>2. ~Fires(c) /\ fired[c][day] = 0
      BY <1>7 DEF count
    <3>3. ~Dismissed(c)
      BY DEF Dismissed
    <3>4. ~ExpiredAfterMidnight(c) /\ sec - timer[c].at <= Window
      <4>1. CASE NewDay
        <5>1. noticed # day
          BY <1>3, <2>1, <4>1 DEF Noticed, NewDay
        <5>2. sec < Lag
          BY <1>2, <1>3, <3>1, <5>1, MidnightSeen
        <5> QED BY <1>3, <2>1, <2>4, <4>1, <5>2 DEF ExpiredAfterMidnight
      <4>2. CASE ~NewDay
        <5>1. armed[c] = day
          BY <1>7, <4>2
        <5>2. ~expired[c] /\ timer[c].at > sec - since[c] /\ since[c] <= Lag
          BY <2>1, <2>4, <3>1, <3>2, <5>1 DEF ArmedWaits, CheckedOften
        <5> QED BY <1>2, <1>3, <2>1, <2>4, <4>2, <5>2 DEF ExpiredAfterMidnight
      <4> QED BY <4>1, <4>2
    <3>5. timer[c].at > sec
      BY <1>3, <2>1, <2>4, <3>2, <3>4 DEF Fires
    <3>6. ~expired'[c]
      BY <1>7, <3>3, <3>4 DEF ExpiredAfter
    <3> QED BY <1>3, <1>7, <2>1, <2>4, <3>1, <3>5, <3>6
  <2> QED BY <2>3, <2>4
<1> QED BY <1>8, <1>9, <1>11, <1>12, <1>13, <1>14 DEF TimerInv

-----------------------------------------------------------------------------
(* The other threads. *)

LEMMA RoundStep ==
  ASSUME TimerInv, StartRound PROVE TimerInv'
<1>1. /\ todo' = queue
      /\ UNCHANGED <<queue, timer, expired, stored, sec_today, mode, day, sec, since,
                     fired, restarted, armed, seen, noticed, mark, setter, undone>>
  BY DEF StartRound, clock, rest, witness, setting
<1>2. Types' /\ Rounds' /\ Noticed'
  BY <1>1 DEF TimerInv, Types, Rounds, Noticed
<1>3. ASSUME NEW d \in Dev PROVE FiredOnce(d)' /\ CheckedOften(d)' /\ ArmedWaits(d)'
  BY <1>1 DEF TimerInv, FiredOnce, Excused, Spent, CheckedOften, ArmedWaits, Today
<1> QED BY <1>2, <1>3 DEF TimerInv

LEMMA MarkStep ==
  ASSUME TimerInv, MarkExpired PROVE TimerInv'
<1>0. Types
  BY DEF TimerInv
<1>1. PICK c \in Dev : mark = <<c>>
  BY <1>0 DEF MarkExpired, Types
<1>2. /\ mark' = <<>> /\ expired' = [expired EXCEPT ![c] = TRUE]
      /\ UNCHANGED <<queue, timer, stored, sec_today, mode, todo, day, sec, since, fired,
                     restarted, armed, seen, noticed, setter, undone>>
  BY <1>1 DEF MarkExpired, Marked, clock, rest, witness, setting
<1>3. expired'[c] /\ \A d \in Dev \ {c} : expired'[d] = expired[d] /\ mark # <<d>>
  BY <1>0, <1>1, <1>2 DEF Types
<1>4. Types' /\ Rounds' /\ Noticed'
  BY <1>2 DEF TimerInv, Types, Rounds, Noticed
<1>5. ASSUME NEW d \in Dev PROVE FiredOnce(d)' /\ CheckedOften(d)' /\ ArmedWaits(d)'
  <2>1. FiredOnce(d) /\ CheckedOften(d) /\ ArmedWaits(d)
    BY DEF TimerInv
  <2>2. CheckedOften(d)'
    BY <1>2, <2>1 DEF CheckedOften
  <2>3. mark' # <<d>>
    BY <1>2
  <2>4. CASE d # c
    BY <1>2, <1>3, <2>1, <2>2, <2>3, <2>4 DEF FiredOnce, Excused, Spent, ArmedWaits, Today
  <2>5. CASE d = c
    BY <1>1, <1>2, <1>3, <2>1, <2>2, <2>3, <2>5 DEF FiredOnce, Excused, Spent, ArmedWaits, Today
  <2> QED BY <2>4, <2>5
<1> QED BY <1>4, <1>5 DEF TimerInv

(* What save_config writes are timers. *)
LEMMA SavedTimers ==
  ASSUME Types PROVE Saved(timer, active) \in [Dev -> Setting \cup {None}]
BY DEF Types, Saved

LEMMA SaveStep ==
  ASSUME TimerInv, OtherSave \/ \E h \in Handler : SaveTimer(h) PROVE TimerInv'
<1>0. Types
  BY DEF TimerInv
<1>1. /\ stored' = Saved(timer, active)
      /\ UNCHANGED <<queue, timer, expired, sec_today, mode, todo, day, sec, since,
                     fired, restarted, armed, seen, noticed, mark, undone>>
      /\ setter' = setter \/ \E h \in Handler : setter' = [setter EXCEPT ![h] = NoCommand]
  BY DEF OtherSave, SaveTimer, clock, rest, witness, setting
<1>2. Types' /\ Rounds' /\ Noticed'
  BY <1>0, <1>1, SavedTimers DEF TimerInv, Types, Rounds, Noticed
<1>3. ASSUME NEW d \in Dev PROVE FiredOnce(d)' /\ CheckedOften(d)' /\ ArmedWaits(d)'
  BY <1>1 DEF TimerInv, FiredOnce, Excused, Spent, CheckedOften, ArmedWaits, Today
<1> QED BY <1>2, <1>3 DEF TimerInv

LEMMA SetStep ==
  ASSUME TimerInv, NEW h \in Handler, NEW d \in Dev, NEW tm \in Setting \cup {None},
         SetTimer(h, d, tm)
  PROVE  TimerInv'
<1> USE Bounds
<1>0. Types
  BY DEF TimerInv
<1>1. /\ timer' = [timer EXCEPT ![d] = tm]
      /\ fired' = [fired EXCEPT ![d] = Unfired] /\ armed' = [armed EXCEPT ![d] = Never]
      /\ setter' = [setter EXCEPT ![h] = [step |-> "clear", dev |-> d, on |-> tm # None]]
      /\ undone' = {u \in undone : u[1] # d}
      /\ UNCHANGED <<queue, expired, stored, sec_today, mode, todo, day, sec, since, restarted,
                     seen, noticed, mark>>
  BY DEF SetTimer, clock, rest, witness
<1>2. timer' \in [Dev -> Setting \cup {None}] /\ fired' \in [Dev -> [Day -> 0..2]]
  BY <1>0, <1>1 DEF Types, Unfired, Day
<1>3. armed' \in [Dev -> Day \cup {Never}]
  BY <1>0, <1>1 DEF Types
<1>4. setter' \in [Handler -> {NoCommand} \cup [step : {"clear", "save"}, dev : Dev, on : BOOLEAN]]
  BY <1>0, <1>1 DEF Types
<1>5. Types'
  BY <1>0, <1>1, <1>2, <1>3, <1>4 DEF Types
<1>6. Rounds' /\ Noticed'
  BY <1>1 DEF TimerInv, Rounds, Noticed
<1>7. day \in Day /\ day \in Nat
  BY <1>0, TypesOfNumbers DEF Types
<1>8. ASSUME NEW e \in Dev PROVE FiredOnce(e)' /\ CheckedOften(e)' /\ ArmedWaits(e)'
  <2>1. FiredOnce(e) /\ CheckedOften(e) /\ ArmedWaits(e)
    BY DEF TimerInv
  <2>2. CheckedOften(e)'
    BY <1>1, <2>1 DEF CheckedOften
  <2>3. CASE e # d
    <3>1. /\ timer'[e] = timer[e] /\ fired'[e] = fired[e] /\ armed'[e] = armed[e]
      BY <1>0, <1>1, <2>3 DEF Types
    <3>2. \A x \in Day : <<e, x>> \in undone => <<e, x>> \in undone'
      BY <1>1, <2>3
    <3>3. \A x \in Day : Excused(e, x) => Excused(e, x)'
      BY <1>1, <3>2 DEF Excused
    <3>4. FiredOnce(e)'
      BY <1>1, <1>7, <2>1, <3>1, <3>3 DEF FiredOnce, Spent
    <3>5. ArmedWaits(e)'
      BY <1>1, <2>1, <3>1 DEF ArmedWaits, Today
    <3> QED BY <2>2, <3>4, <3>5
  <2>4. CASE e = d
    <3>1. armed'[d] = Never /\ \A x \in Day : fired'[d][x] = 0
      BY <1>0, <1>1 DEF Types, Unfired, Day
    <3> QED BY <1>1, <1>7, <2>2, <2>4, <3>1 DEF FiredOnce, ArmedWaits
  <2> QED BY <2>3, <2>4
<1> QED BY <1>5, <1>6, <1>8 DEF TimerInv

(* The status is cleared: a timer that fired since it was copied is noted. *)
LEMMA ClearStep ==
  ASSUME TimerInv, NEW h \in Handler, ClearStatus(h) PROVE TimerInv'
<1> USE Bounds
<1>0. Types
  BY DEF TimerInv
<1>1. setter[h] \in [step : {"clear", "save"}, dev : Dev, on : BOOLEAN]
  BY <1>0 DEF Types, ClearStatus, NoCommand
<1>2. PICK d \in Dev : d = setter[h].dev
  BY <1>1
<1>3. /\ expired' = [expired EXCEPT ![d] = FALSE] /\ armed' = [armed EXCEPT ![d] = Never]
      /\ setter' = [setter EXCEPT ![h].step = "save"]
      /\ undone' = IF fired[d][day] > 0 /\ mark # <<d>> THEN undone \cup {<<d, day>>} ELSE undone
      /\ UNCHANGED <<queue, timer, stored, sec_today, mode, todo, day, sec, since, fired,
                     restarted, seen, noticed, mark>>
  BY <1>2 DEF ClearStatus, clock, rest, witness
<1>4. Types'
  <2>1. setter' \in [Handler -> {NoCommand} \cup [step : {"clear", "save"}, dev : Dev, on : BOOLEAN]]
    BY <1>0, <1>1, <1>3 DEF Types
  <2>2. expired' \in [Dev -> BOOLEAN] /\ armed' \in [Dev -> Day \cup {Never}]
    BY <1>0, <1>3 DEF Types
  <2> QED BY <1>0, <1>3, <2>1, <2>2 DEF Types
<1>5. Rounds' /\ Noticed'
  BY <1>3 DEF TimerInv, Rounds, Noticed
<1>6. day \in Day /\ day \in Nat /\ fired[d][day] \in 0..2
  BY <1>0, TypesOfNumbers DEF Types
<1>7. ASSUME NEW e \in Dev PROVE FiredOnce(e)' /\ CheckedOften(e)' /\ ArmedWaits(e)'
  <2>1. FiredOnce(e) /\ CheckedOften(e) /\ ArmedWaits(e)
    BY DEF TimerInv
  <2>2. CheckedOften(e)'
    BY <1>3, <2>1 DEF CheckedOften
  <2>3. \A x \in Day : Excused(e, x) => Excused(e, x)'
    BY <1>3 DEF Excused
  <2>4. CASE e # d
    <3>1. expired'[e] = expired[e] /\ armed'[e] = armed[e]
      BY <1>0, <1>3, <2>4 DEF Types
    <3>2. FiredOnce(e)'
      BY <1>3, <1>6, <2>1, <2>3, <3>1 DEF FiredOnce, Spent
    <3>3. ArmedWaits(e)'
      BY <1>3, <2>1, <3>1 DEF ArmedWaits, Today
    <3> QED BY <2>2, <3>2, <3>3
  <2>5. CASE e = d
    <3>1. armed'[d] = Never
      BY <1>0, <1>3 DEF Types
    <3>2. fired[d][day] # 0 => mark = <<d>> \/ Excused(d, day)'
      BY <1>3, <1>6 DEF Excused
    <3>3. FiredOnce(d)'
      BY <1>3, <1>6, <2>1, <2>3, <2>5, <3>2 DEF FiredOnce, Spent
    <3> QED BY <1>3, <1>6, <2>2, <2>5, <3>1, <3>3 DEF ArmedWaits
  <2> QED BY <2>4, <2>5
<1> QED BY <1>4, <1>5, <1>7 DEF TimerInv

LEMMA OfflineStep ==
  ASSUME TimerInv, NEW d \in Dev, GoOffline(d) PROVE TimerInv'
<1> USE Bounds
<1>0. Types /\ Rounds
  BY DEF TimerInv
<1>1. /\ queue' = RemoveFirst(queue, d) /\ todo' = RemoveFirst(todo, d)
      /\ since' = [since EXCEPT ![d] = 0]
      /\ armed' = [armed EXCEPT ![d] = Never] /\ seen' = [seen EXCEPT ![d] = Never]
      /\ UNCHANGED <<timer, expired, stored, sec_today, mode, day, sec, fired, restarted,
                     noticed, mark, setter, undone>>
  BY DEF GoOffline, clock, setting
<1>2. /\ queue' \in Seq(Dev) /\ IsInjective(queue') /\ ToSet(queue') = ToSet(queue) \ {d}
      /\ todo' \in Seq(Dev) /\ IsInjective(todo') /\ ToSet(todo') = ToSet(todo) \ {d}
  BY <1>0, <1>1, RemoveFirstProps DEF Types, Rounds
<1>3. Types'
  BY <1>0, <1>1, <1>2 DEF Types
<1>4. Rounds' /\ Noticed'
  BY <1>0, <1>1, <1>2 DEF TimerInv, Rounds, Noticed
<1>5. ASSUME NEW e \in Dev PROVE FiredOnce(e)' /\ CheckedOften(e)' /\ ArmedWaits(e)'
  <2>1. FiredOnce(e) /\ CheckedOften(e) /\ ArmedWaits(e)
    BY DEF TimerInv
  <2>2. FiredOnce(e)'
    BY <1>1, <2>1 DEF FiredOnce, Excused, Spent
  <2>3. CASE e # d
    <3>1. since'[e] = since[e] /\ armed'[e] = armed[e] /\ seen'[e] = seen[e]
      BY <1>0, <1>1, <2>3 DEF Types
    <3> QED BY <1>1, <1>2, <2>1, <2>2, <2>3, <3>1 DEF CheckedOften, ArmedWaits, Today
  <2>4. CASE e = d
    <3>1. armed'[d] = Never /\ seen'[d] = Never /\ day \in Nat
      BY <1>0, <1>1, TypesOfNumbers DEF Types
    <3> QED BY <1>1, <2>2, <2>4, <3>1 DEF CheckedOften, ArmedWaits
  <2> QED BY <2>3, <2>4
<1> QED BY <1>3, <1>4, <1>5 DEF TimerInv

LEMMA OnlineStep ==
  ASSUME TimerInv, NEW d \in Dev, ComeOnline(d) PROVE TimerInv'
<1>0. Types /\ Rounds
  BY DEF TimerInv
<1>1. /\ d \notin ToSet(queue) /\ queue' = Append(queue, d)
      /\ todo' = todo \/ todo' = Append(todo, d)
      /\ UNCHANGED <<timer, expired, stored, sec_today, mode, day, sec, since, fired,
                     restarted, armed, seen, noticed, mark, setter, undone>>
  BY DEF ComeOnline, clock, rest, witness, setting
<1>2. queue' \in Seq(Dev) /\ IsInjective(queue') /\ ToSet(queue') = ToSet(queue) \cup {d}
  BY <1>0, <1>1, PushTail DEF Types, Rounds
<1>3. /\ todo' \in Seq(Dev) /\ IsInjective(todo')
      /\ ToSet(todo') \subseteq ToSet(todo) \cup {d}
  <2>1. d \notin ToSet(todo)
    BY <1>0, <1>1 DEF Rounds
  <2>2. IsInjective(todo) /\ todo \in Seq(Dev)
    BY <1>0 DEF Types, Rounds
  <2>3. /\ Append(todo, d) \in Seq(Dev) /\ IsInjective(Append(todo, d))
        /\ ToSet(Append(todo, d)) = ToSet(todo) \cup {d}
    BY <2>1, <2>2, PushTail
  <2>4. CASE todo' = todo
    BY <2>2, <2>4
  <2>5. CASE todo' = Append(todo, d)
    BY <2>3, <2>5
  <2> QED BY <1>1, <2>4, <2>5
<1>4. Types' /\ Rounds' /\ Noticed'
  BY <1>0, <1>1, <1>2, <1>3 DEF TimerInv, Types, Rounds, Noticed
<1>5. ASSUME NEW e \in Dev PROVE FiredOnce(e)' /\ CheckedOften(e)' /\ ArmedWaits(e)'
  BY <1>1, <1>2 DEF TimerInv, FiredOnce, Excused, Spent, CheckedOften, ArmedWaits, Today
<1> QED BY <1>4, <1>5 DEF TimerInv

LEMMA ModeStep ==
  ASSUME TimerInv, NEW m \in Mode, ChangeMode(m) PROVE TimerInv'
<1> USE Bounds
<1>0. Types
  BY DEF TimerInv
<1>1. /\ armed' = [d \in Dev |-> Never]
      /\ UNCHANGED <<queue, timer, expired, stored, sec_today, todo, day, sec, since,
                     fired, restarted, seen, noticed, mark, setter, undone>>
  BY DEF ChangeMode, clock, witness, setting
<1>2. Types' /\ Rounds' /\ Noticed'
  BY <1>1 DEF TimerInv, Types, Rounds, Noticed
<1>3. day \in Nat
  BY <1>0, TypesOfNumbers
<1>4. ASSUME NEW d \in Dev PROVE FiredOnce(d)' /\ CheckedOften(d)' /\ ArmedWaits(d)'
  BY <1>1, <1>3 DEF TimerInv, FiredOnce, Excused, Spent, CheckedOften, ArmedWaits
<1> QED BY <1>2, <1>4 DEF TimerInv

LEMMA RestartStep ==
  ASSUME TimerInv, Restart PROVE TimerInv'
<1> USE Bounds
<1>0. Types
  BY DEF TimerInv
<1>1. /\ queue' = <<>> /\ todo' = <<>> /\ timer' = stored
      /\ expired' = [d \in Dev |-> FALSE] /\ sec_today' = 0
      /\ since' = [d \in Dev |-> 0] /\ restarted' = restarted \cup {day}
      /\ armed' = [d \in Dev |-> Never] /\ seen' = [d \in Dev |-> Never]
      /\ mark' = <<>> /\ setter' = [h \in Handler |-> NoCommand]
      /\ UNCHANGED <<stored, day, sec, fired, noticed, undone>>
  BY DEF Restart, clock
<1>2. Types'
  <2>1. queue' \in Seq(Dev) /\ todo' \in Seq(Dev)
    BY <1>1, EmptySeq
  <2> QED BY <1>0, <1>1, <2>1 DEF Types
<1>3. Rounds'
  BY <1>1, EmptyQueue DEF Rounds
<1>4. day \in Nat /\ sec \in Nat
  BY <1>0, TypesOfNumbers
<1>5. Noticed'
  BY <1>1, <1>4 DEF TimerInv, Noticed
<1>6. ASSUME NEW d \in Dev PROVE FiredOnce(d)' /\ CheckedOften(d)' /\ ArmedWaits(d)'
  <2>1. FiredOnce(d)' /\ CheckedOften(d)'
    BY <1>1, <1>4 DEF TimerInv, FiredOnce, Excused, CheckedOften
  <2>2. ArmedWaits(d)'
    BY <1>1, <1>4 DEF TimerInv, ArmedWaits
  <2> QED BY <2>1, <2>2
<1> QED BY <1>2, <1>3, <1>5, <1>6 DEF TimerInv

LEMMA IdleStep ==
  ASSUME TimerInv, UNCHANGED vars PROVE TimerInv'
<1>1. UNCHANGED <<queue, timer, expired, stored, sec_today, mode, todo, day, sec, since,
                  fired, restarted, armed, seen, noticed, mark, setter, undone>>
  BY DEF vars
<1>2. Types' /\ Rounds' /\ Noticed'
  BY <1>1 DEF TimerInv, Types, Rounds, Noticed
<1>3. ASSUME NEW d \in Dev PROVE FiredOnce(d)' /\ CheckedOften(d)' /\ ArmedWaits(d)'
  BY <1>1 DEF TimerInv, FiredOnce, Excused, Spent, CheckedOften, ArmedWaits, Today
<1> QED BY <1>2, <1>3 DEF TimerInv

-----------------------------------------------------------------------------
(* The invariant that the three theorems need. *)
THEOREM TimersInvariant == Spec => []TimerInv
<1>1. ASSUME TimerInv, [Next]_vars PROVE TimerInv'
  <2>1. CASE Tick
    BY <1>1, <2>1, TickStep
  <2>2. CASE StartRound
    BY <1>1, <2>2, RoundStep
  <2>3. CASE CheckDevice \/ MarkExpired
    BY <1>1, <2>3, CheckStep, MarkStep
  <2>4. ASSUME NEW h \in Handler,
               \/ \E d \in Dev, tm \in Setting \cup {None} : SetTimer(h, d, tm)
               \/ ClearStatus(h)
        PROVE  TimerInv'
    BY <1>1, <2>4, SetStep, ClearStep
  <2>5. CASE OtherSave \/ \E h \in Handler : SaveTimer(h)
    BY <1>1, <2>5, SaveStep
  <2>6. CASE \E d \in Dev : GoOffline(d) \/ ComeOnline(d)
    BY <1>1, <2>6, OfflineStep, OnlineStep
  <2>7. CASE \E m \in Mode : ChangeMode(m)
    BY <1>1, <2>7, ModeStep
  <2>8. CASE Restart
    BY <1>1, <2>8, RestartStep
  <2>9. CASE UNCHANGED vars
    BY <1>1, <2>9, IdleStep
  <2> QED BY <1>1, <2>1, <2>2, <2>3, <2>4, <2>5, <2>6, <2>7, <2>8, <2>9 DEF Next
<1> QED BY TimerInit, <1>1, PTL DEF Spec

(* check_timer_and_delay: a timer fires on a day once at most, at midnight *)
(* too, unless the daemon is restarted on that day and forgets it, or      *)
(* set_dev_timer clears the status of a timer that it copied before it     *)
(* fired.                                                                  *)
THEOREM FiresOnceADay == Spec => []AtMostOncePerDay
<1>1. TimerInv => AtMostOncePerDay
  BY DEF TimerInv, FiredOnce, Excused, AtMostOncePerDay, Day
<1> QED BY <1>1, TimersInvariant, PTL

(* bnextday: if a device is online since before midnight, a check notices  *)
(* the new day, though sec_today is shared by all devices.                 *)
THEOREM MidnightIsNoticed == Spec => []MidnightNoticed
<1>1. ASSUME TimerInv, NEW d \in Dev, seen[d] # Never, seen[d] < day, sec > Lag
      PROVE  noticed = day
  <2>1. sec \in Nat /\ seen[d] \in Int /\ day \in Nat
    BY <1>1, TypesOfNumbers DEF TimerInv
  <2> QED BY <1>1, <2>1, Bounds, MidnightSeen
<1>2. TimerInv => MidnightNoticed
  BY <1>1 DEF MidnightNoticed
<1> QED BY <1>2, TimersInvariant, PTL

(* A timer armed at midnight, on a device that is online since before, has *)
(* fired as soon as its time and the longest gap between checks are past.  *)
THEOREM ArmedTimersFire == Spec => []ArmedFires
<1>1. ASSUME TimerInv, NEW d \in Dev, armed[d] = day, seen[d] < day, timer[d] # None,
             Today(timer[d]), mode \in timer[d].modes, sec > timer[d].at + Lag
      PROVE  fired[d][day] > 0
  <2>1. Types /\ ArmedWaits(d) /\ CheckedOften(d)
    BY <1>1 DEF TimerInv
  <2>2. sec \in Nat /\ since[d] \in Nat /\ timer[d].at \in Nat /\ fired[d][day] \in 0..2
    BY <2>1, Bounds DEF Types
  <2>3. ASSUME fired[d][day] = 0 PROVE FALSE
    <3>1. seen[d] # Never /\ timer[d].at > sec - since[d]
      BY <1>1, <2>1, <2>3 DEF ArmedWaits
    <3>2. since[d] <= Lag
      BY <2>1, <3>1 DEF CheckedOften
    <3> QED BY <1>1, <2>2, <3>1, <3>2, Bounds
  <2> QED BY <2>2, <2>3
<1>2. TimerInv => ArmedFires
  BY <1>1 DEF ArmedFires
<1> QED BY <1>2, TimersInvariant, PTL

-----------------------------------------------------------------------------
(***************************************************************************)
(* Speech: the invariant. It has one part for each thing that a thread     *)
(* takes for granted of the others, and says nothing of a dead process.    *)
(***************************************************************************)
(* Where each thread may be. *)
MainAt == {"idle", "begin", "record", "mark", "work"} \cup Undoing
RecAt == {"none", "loop", "read", "blocked", "cb", "write", "result", "report",
          "selfstop", "fail", "ends", "tell", "check"} \cup Undoing
LibAt == {"none", "tell", "check"} \cup Undoing
Place == MainAt \cup RecAt

Command == {"start", "stop", "other"}
Told == {"asr_result", "failure", "word"}
Fault == {"read", "drop", "self", "early", "open", "twice"}

(* Types; those of pc apart, as most steps move one thread only. *)
Recs == Opened \cup {"none", "CREATED", "CLOSING", "freed"}
Places ==
  /\ pc \in [Thread -> Place]
  /\ pc["main"] \in MainAt /\ pc["rec"] \in RecAt /\ pc["lib"] \in LibAt

SpeechTypes ==
  /\ kind \in {"asr", "awaken"}
  /\ mail \in Seq(Command) /\ cmds \in Nat
  /\ working \in BOOLEAN /\ state \in {"INIT", "STARTED"}
  /\ session \in {"null", "open", "ended"}
  /\ recorder \in BOOLEAN /\ rec \in Opened \cup {"none", "CREATED", "CLOSING", "freed"}
  /\ hdl \in BOOLEAN /\ again \in BOOLEAN /\ cancel \in BOOLEAN /\ dead \in BOOLEAN
  /\ hub \in {"on", "dead"} /\ fb \in Seq(Told)
  /\ faults \in SUBSET Fault

(* Who does what: the library's thread undoes a listening only in the      *)
(* awaken daemon, and the main thread is not at work then; what the main   *)
(* thread has not finished to start is not marked as working; a recorder   *)
(* is there while the daemon works or the main thread is busy.             *)
Joining == pc["main"] = "join" \/ pc["lib"] = "join"
Roles ==
  /\ pc["lib"] # "none" => kind = "awaken"
  /\ pc["lib"] \in Undoing => working /\ pc["main"] = "idle"
  /\ pc["main"] \in {"begin", "record", "mark", "work"} => ~working
  /\ pc["main"] \in {"halt", "quiet", "last"} => working /\ kind = "asr"
  /\ pc["main"] \in {"close", "join", "free"} => ~working \/ kind = "asr"
  /\ pc["rec"] \in Undoing => working
  /\ recorder <=> working \/ pc["main"] # "idle"

(* The record thread runs only for an opened recorder, or while another    *)
(* thread waits for it to end; it is cancelled only by one that then waits,*)
(* or by itself; and who frees the recorder has waited.                    *)
Threads ==
  /\ pc["rec"] # "none" => recorder
  /\ pc["rec"] \notin {"none", "join"} => rec \in Opened \/ Joining
  /\ pc["rec"] = "free" => Joining
  /\ Joining \/ pc["rec"] = "join" => rec = "CLOSING"
  /\ ~(Joining /\ pc["rec"] = "join")
  /\ cancel /\ pc["rec"] # "none" => Joining \/ pc["rec"] = "join"
  /\ pc["main"] = "free" \/ pc["lib"] = "free" =>
       pc["rec"] \in {"none", "join"} /\ rec \notin Opened
  /\ pc["main"] \in {"begin", "record"} =>
       (rec = "READY" /\ pc["rec"] = "loop") \/ (rec = "CREATED" /\ pc["rec"] = "none")

(* An open PCM belongs to a recorder that somebody is still to close. *)
Pcm ==
  /\ hdl => (recorder /\ rec \in Opened \cup {"CLOSING"}) \/ "self" \in faults
  /\ recorder /\ hdl /\ rec = "CLOSING" => Joining \/ pc["rec"] = "join" \/ "self" \in faults

(* While it records there is a session, and audio may be written to it; a  *)
(* thread that waits for the recording to stop has stopped it.             *)
At(l) == pc["main"] = l \/ pc["rec"] = l \/ pc["lib"] = l
Recording ==
  /\ rec = "RECORDING" => session = "open" /\ (state = "STARTED" \/ pc["main"] = "mark")
  /\ At("quiet") \/ pc["rec"] = "ends" => rec # "RECORDING"
  /\ At("last") => state = "INIT"
  /\ pc["main"] \in {"begin", "record", "mark"} => state = "INIT"
  /\ pc["main"] = "record" => session = "open"

(* An open session has somebody who will end it: the daemon works, or is   *)
(* about to, or a thread is just ending it.                                *)
Sessions ==
  session = "open" /\ "drop" \notin faults =>
    /\ \/ pc["main"] \in {"record", "mark"}
       \/ (working \/ pc["main"] = "work") /\ state = "STARTED"
       \/ At("last")
    /\ pc["main"] \in {"close", "join", "free"} \/ pc["lib"] \in {"close", "join", "free"} =>
       pc["rec"] = "last"

(* Once the record thread has looked at its state, the session stays open  *)
(* until another thread waits for it.                                      *)
Writing ==
  pc["rec"] \in {"read", "cb", "write"} =>
    /\ session # "open" => pc["main"] \in {"close", "join"} \/ pc["lib"] \in {"close", "join"}
    /\ state = "STARTED" => session = "open"

(* A daemon that works, or is about to, hears. *)
Hearing ==
  (\/ pc["main"] \in {"mark", "work"}
   \/ working /\ pc["main"] = "idle" /\ pc["lib"] \notin Undoing) =>
    \/ faults \cap {"read", "self", "early"} # {}
    \/ pc["rec"] \in Undoing \cup {"ends", "tell", "check"}
    \/ rec = "RECORDING" /\ pc["rec"] \notin {"none", "blocked"}

(* The inductive invariant. *)
SpeechInv ==
  /\ Places /\ SpeechTypes
  /\ ~dead => Roles /\ Threads /\ Pcm /\ Recording /\ Sessions /\ Writing /\ Hearing

-----------------------------------------------------------------------------
(* What a step of one thread does to the places of the threads. *)
LEMMA GotoMain ==
  ASSUME Places, NEW l \in MainAt, Goto("main", l)
  PROVE /\ Places'
        /\ pc'["main"] = l /\ pc'["rec"] = pc["rec"] /\ pc'["lib"] = pc["lib"]
BY DEF Places, Place, Goto, Thread, MainAt, RecAt, LibAt

(* Likewise for the record thread, *)
LEMMA GotoRec ==
  ASSUME Places, NEW l \in RecAt, Goto("rec", l)
  PROVE /\ Places'
        /\ pc'["rec"] = l /\ pc'["main"] = pc["main"] /\ pc'["lib"] = pc["lib"]
BY DEF Places, Place, Goto, Thread, MainAt, RecAt, LibAt

(* and for the library's. *)
LEMMA GotoLib ==
  ASSUME Places, NEW l \in LibAt, Goto("lib", l)
  PROVE /\ Places'
        /\ pc'["lib"] = l /\ pc'["main"] = pc["main"] /\ pc'["rec"] = pc["rec"]
BY DEF Places, Place, Goto, Thread, MainAt, RecAt, LibAt

(* A thread that begins to undo a listening notes if another is at it, and *)
(* nothing else.                                                           *)
LEMMA UndoesEffect ==
  ASSUME SpeechTypes, NEW p, Undoes(p)
  PROVE /\ Goto(p, "halt") /\ faults' \in SUBSET Fault
        /\ \A f \in {"read", "drop", "self", "early"} : f \in faults' <=> f \in faults
BY DEF Undoes, SpeechTypes, Fault

(* After stop_record nothing is recorded; what failed is noted. *)
LEMMA StopRecordEffect ==
  ASSUME SpeechTypes, StopRecord
  PROVE /\ rec' \in Recs /\ faults' \in SUBSET Fault
        /\ rec' # "RECORDING"
        /\ rec' = rec \/ (rec = "RECORDING" /\ rec' \in {"READY", "STOPPING"})
        /\ (rec = "RECORDING" /\ rec' = "STOPPING" => "drop" \in faults')
        /\ (faults' = faults \/ faults' = faults \cup {"drop"})
<1>1. CASE rec # "RECORDING"
  <2>1. UNCHANGED <<rec, faults>>
    BY <1>1 DEF StopRecord
  <2>2. rec' = rec /\ faults' = faults
    BY <2>1
  <2> QED BY <1>1, <2>2 DEF SpeechTypes, Recs
<1>2. CASE rec = "RECORDING" /\ rec' = "READY" /\ UNCHANGED faults
  BY <1>2 DEF SpeechTypes, Recs, Opened
<1>3. CASE rec = "RECORDING" /\ rec' = "STOPPING" /\ faults' = faults \cup {"drop"}
  BY <1>3 DEF SpeechTypes, Recs, Opened, Fault
<1> QED BY <1>1, <1>2, <1>3 DEF StopRecord

-----------------------------------------------------------------------------
(* Each action moves one thread at most: the first step of its lemma says  *)
(* which and where to, the others need no more than that.                  *)

(* The invariant survives record_thread_proc at the top of its loop. *)
LEMMA RecLoopKeeps == ASSUME SpeechInv, RecLoop PROVE SpeechInv'
<1> USE DEF asrv, recv, hubv, mailv
<1>1. /\ Places'
      /\ \/ pc'["rec"] = "none" /\ pc'["main"] = pc["main"] /\ pc'["lib"] = pc["lib"]
            /\ rec = "CLOSING"
         \/ pc'["rec"] = "read" /\ pc'["main"] = pc["main"] /\ pc'["lib"] = pc["lib"]
            /\ rec = "RECORDING"
  <2>1. CASE Goto("rec", "none") /\ rec = "CLOSING"
    BY <2>1, GotoRec DEF SpeechInv, RecAt
  <2>2. CASE Goto("rec", "read") /\ rec = "RECORDING"
    BY <2>2, GotoRec DEF SpeechInv, RecAt
  <2> QED BY <2>1, <2>2 DEF RecLoop
<1>2. SpeechTypes'
  BY DEF SpeechInv, SpeechTypes, RecLoop
<1>3. ~dead
  BY DEF RecLoop
<1>4. ASSUME ~dead' PROVE Roles'
  BY <1>1, <1>3, <1>4 DEF SpeechInv, Undoing, Roles, RecLoop
<1>5. ASSUME ~dead' PROVE Threads'
  BY <1>1, <1>3, <1>5 DEF SpeechInv, Threads, Joining, RecLoop
<1>6. ASSUME ~dead' PROVE Pcm'
  BY <1>1, <1>3, <1>6 DEF SpeechInv, Pcm, Joining, RecLoop
<1>7. ASSUME ~dead' PROVE Recording'
  BY <1>1, <1>3, <1>7 DEF SpeechInv, Recording, At, RecLoop
<1>8. ASSUME ~dead' PROVE Sessions'
  BY <1>1, <1>3, <1>8 DEF SpeechInv, Sessions, At, RecLoop
<1>9. ASSUME ~dead' PROVE Writing'
  BY <1>1, <1>3, <1>9 DEF SpeechInv, Recording, Writing, RecLoop
<1>10. ASSUME ~dead' PROVE Hearing'
  BY <1>1, <1>3, <1>10 DEF SpeechInv, Undoing, Hearing, RecLoop
<1> QED BY <1>1, <1>2, <1>4, <1>5, <1>6, <1>7, <1>8, <1>9, <1>10 DEF SpeechInv

(* The invariant survives pcm_read. *)
LEMMA PcmReadKeeps == ASSUME SpeechInv, PcmRead PROVE SpeechInv'
<1> USE DEF asrv, recv, hubv, mailv
<1>1. /\ Places'
      /\ \/ pc'["rec"] = "cb" /\ pc'["main"] = pc["main"] /\ pc'["lib"] = pc["lib"]
            /\ faults' = faults
         \/ pc'["rec"] = "none" /\ pc'["main"] = pc["main"] /\ pc'["lib"] = pc["lib"]
            /\ faults' = faults \cup {"read"}
         \/ pc'["rec"] = "blocked" /\ pc'["main"] = pc["main"] /\ pc'["lib"] = pc["lib"]
            /\ faults' = faults \cup {"read"}
  <2>1. CASE Goto("rec", "cb") /\ faults' = faults
    BY <2>1, GotoRec DEF SpeechInv, RecAt
  <2>2. CASE Goto("rec", "none") /\ faults' = faults \cup {"read"}
    BY <2>2, GotoRec DEF SpeechInv, RecAt
  <2>3. CASE Goto("rec", "blocked") /\ faults' = faults \cup {"read"}
    BY <2>3, GotoRec DEF SpeechInv, RecAt
  <2> QED BY <2>1, <2>2, <2>3 DEF PcmRead
<1>2. SpeechTypes'
  <2>1. CASE faults' = faults
    BY <2>1 DEF SpeechInv, SpeechTypes, PcmRead
  <2>2. CASE faults' = faults \cup {"read"}
    BY <2>2 DEF SpeechInv, SpeechTypes, Fault, PcmRead
  <2> QED BY <2>1, <2>2 DEF PcmRead
<1>3. ~dead
  BY DEF PcmRead
<1>4. ASSUME ~dead' PROVE Roles'
  BY <1>1, <1>3, <1>4 DEF SpeechInv, Undoing, Roles, PcmRead
<1>5. ASSUME ~dead' PROVE Threads'
  BY <1>1, <1>3, <1>5 DEF SpeechInv, Threads, Joining, PcmRead
<1>6. ASSUME ~dead' PROVE Pcm'
  BY <1>1, <1>3, <1>6 DEF SpeechInv, Pcm, Joining, PcmRead
<1>7. ASSUME ~dead' PROVE Recording'
  BY <1>1, <1>3, <1>7 DEF SpeechInv, Recording, At, PcmRead
<1>8. ASSUME ~dead' PROVE Sessions'
  BY <1>1, <1>3, <1>8 DEF SpeechInv, Sessions, At, PcmRead
<1>9. ASSUME ~dead' PROVE Writing'
  BY <1>1, <1>3, <1>9 DEF SpeechInv, Writing, PcmRead
<1>10. ASSUME ~dead' PROVE Hearing'
  BY <1>1, <1>3, <1>10 DEF SpeechInv, Undoing, Hearing, PcmRead
<1> QED BY <1>1, <1>2, <1>4, <1>5, <1>6, <1>7, <1>8, <1>9, <1>10 DEF SpeechInv

(* The invariant survives the cancelled record thread. *)
LEMMA CancelledKeeps == ASSUME SpeechInv, Cancelled PROVE SpeechInv'
<1> USE DEF asrv, recv, hubv, mailv
<1>1. /\ Places'
      /\ \/ pc'["rec"] = "none" /\ pc'["main"] = pc["main"] /\ pc'["lib"] = pc["lib"]
  <2>1. CASE Goto("rec", "none")
    BY <2>1, GotoRec DEF SpeechInv, RecAt
  <2> QED BY <2>1 DEF Cancelled
<1>2. SpeechTypes'
  BY DEF SpeechInv, SpeechTypes, Cancelled
<1>3. ~dead
  BY DEF Cancelled
<1>4. ASSUME ~dead' PROVE Roles'
  BY <1>1, <1>3, <1>4 DEF SpeechInv, Undoing, Roles, Cancelled
<1>5. ASSUME ~dead' PROVE Threads'
  BY <1>1, <1>3, <1>5 DEF SpeechInv, Threads, Cancelled
<1>6. ASSUME ~dead' PROVE Pcm'
  BY <1>1, <1>3, <1>6 DEF SpeechInv, Pcm, Joining, Cancelled
<1>7. ASSUME ~dead' PROVE Recording'
  BY <1>1, <1>3, <1>7 DEF SpeechInv, Recording, At, Cancelled
<1>8. ASSUME ~dead' PROVE Sessions'
  BY <1>1, <1>3, <1>8 DEF SpeechInv, Sessions, At, Cancelled
<1>9. ASSUME ~dead' PROVE Writing'
  BY <1>1, <1>3, <1>9 DEF Writing
<1>10. ASSUME ~dead' PROVE Hearing'
  BY <1>1, <1>3, <1>10 DEF SpeechInv, Undoing, Roles, Threads, Hearing, Joining, Cancelled
<1> QED BY <1>1, <1>2, <1>4, <1>5, <1>6, <1>7, <1>8, <1>9, <1>10 DEF SpeechInv

(* The invariant survives asr_cb and ivw_cb. *)
LEMMA CallbackKeeps == ASSUME SpeechInv, Callback PROVE SpeechInv'
<1> USE DEF asrv, recv, hubv, mailv
<1>1. /\ Places'
      /\ \/ pc'["rec"] = "write" /\ pc'["main"] = pc["main"] /\ pc'["lib"] = pc["lib"]
            /\ state = "STARTED"
         \/ pc'["rec"] = "loop" /\ pc'["main"] = pc["main"] /\ pc'["lib"] = pc["lib"]
            /\ state # "STARTED"
  <2>1. CASE Goto("rec", "write") /\ state = "STARTED"
    BY <2>1, GotoRec DEF SpeechInv, RecAt
  <2>2. CASE Goto("rec", "loop") /\ state # "STARTED"
    BY <2>2, GotoRec DEF SpeechInv, RecAt
  <2> QED BY <2>1, <2>2 DEF Callback
<1>2. SpeechTypes'
  BY DEF SpeechInv, SpeechTypes, Callback
<1>3. ~dead
  BY DEF Callback
<1>4. ASSUME ~dead' PROVE Roles'
  BY <1>1, <1>3, <1>4 DEF SpeechInv, Undoing, Roles, Callback
<1>5. ASSUME ~dead' PROVE Threads'
  BY <1>1, <1>3, <1>5 DEF SpeechInv, Threads, Joining, Callback
<1>6. ASSUME ~dead' PROVE Pcm'
  BY <1>1, <1>3, <1>6 DEF SpeechInv, Pcm, Joining, Callback
<1>7. ASSUME ~dead' PROVE Recording'
  BY <1>1, <1>3, <1>7 DEF SpeechInv, Recording, At, Callback
<1>8. ASSUME ~dead' PROVE Sessions'
  BY <1>1, <1>3, <1>8 DEF SpeechInv, Sessions, At, Callback
<1>9. ASSUME ~dead' PROVE Writing'
  BY <1>1, <1>3, <1>9 DEF SpeechInv, Writing, Callback
<1>10. ASSUME ~dead' PROVE Hearing'
  BY <1>1, <1>3, <1>10 DEF SpeechInv, Undoing, Hearing, Callback
<1> QED BY <1>1, <1>2, <1>4, <1>5, <1>6, <1>7, <1>8, <1>9, <1>10 DEF SpeechInv

(* The invariant survives asr_write_audio_data. *)
LEMMA AsrWriteKeeps == ASSUME SpeechInv, AsrWrite PROVE SpeechInv'
<1> USE DEF asrv, recv, hubv, mailv
<1>1. /\ Places'
      /\ \/ pc'["rec"] = "loop" /\ pc'["main"] = pc["main"] /\ pc'["lib"] = pc["lib"]
         \/ pc'["rec"] = "fail" /\ pc'["main"] = pc["main"] /\ pc'["lib"] = pc["lib"]
         \/ pc'["rec"] = "result" /\ pc'["main"] = pc["main"] /\ pc'["lib"] = pc["lib"]
  <2>1. CASE Goto("rec", "loop")
    BY <2>1, GotoRec DEF SpeechInv, RecAt
  <2>2. CASE Goto("rec", "fail")
    BY <2>2, GotoRec DEF SpeechInv, RecAt
  <2>3. CASE Goto("rec", "result")
    BY <2>3, GotoRec DEF SpeechInv, RecAt
  <2> QED BY <2>1, <2>2, <2>3 DEF AsrWrite
<1>2. SpeechTypes'
  <2>1. again' = FALSE \/ again' \in BOOLEAN
    BY Zenon DEF AsrWrite
  <2>2. again' \in BOOLEAN
    BY <2>1, Zenon
  <2> QED BY <2>2 DEF SpeechInv, SpeechTypes, AsrWrite
<1>3. ~dead
  BY DEF AsrWrite
<1>4. ASSUME ~dead' PROVE Roles'
  BY <1>1, <1>3, <1>4 DEF SpeechInv, Undoing, Roles, AsrWrite
<1>5. ASSUME ~dead' PROVE Threads'
  BY <1>1, <1>3, <1>5 DEF SpeechInv, Threads, Joining, AsrWrite
<1>6. ASSUME ~dead' PROVE Pcm'
  BY <1>1, <1>3, <1>6 DEF SpeechInv, Pcm, Joining, AsrWrite
<1>7. ASSUME ~dead' PROVE Recording'
  BY <1>1, <1>3, <1>7 DEF SpeechInv, Recording, At, AsrWrite
<1>8. ASSUME ~dead' PROVE Sessions'
  BY <1>1, <1>3, <1>8 DEF SpeechInv, Sessions, At, AsrWrite
<1>9. ASSUME ~dead' PROVE Writing'
  BY <1>1, <1>3, <1>9 DEF Writing
<1>10. ASSUME ~dead' PROVE Hearing'
  BY <1>1, <1>3, <1>10 DEF SpeechInv, Undoing, Hearing, AsrWrite
<1> QED BY <1>1, <1>2, <1>4, <1>5, <1>6, <1>7, <1>8, <1>9, <1>10 DEF SpeechInv

(* The invariant survives ivw_write_audio_data. *)
LEMMA IvwWriteKeeps == ASSUME SpeechInv, IvwWrite PROVE SpeechInv'
<1> USE DEF asrv, recv, hubv, mailv
<1>1. /\ Places'
      /\ \/ pc'["rec"] = "loop" /\ pc'["main"] = pc["main"] /\ pc'["lib"] = pc["lib"]
         \/ pc'["rec"] = "fail" /\ pc'["main"] = pc["main"] /\ pc'["lib"] = pc["lib"]
         \/ pc'["rec"] = "tell" /\ pc'["main"] = pc["main"] /\ pc'["lib"] = pc["lib"]
  <2>1. CASE Goto("rec", "loop")
    BY <2>1, GotoRec DEF SpeechInv, RecAt
  <2>2. CASE Goto("rec", "fail")
    BY <2>2, GotoRec DEF SpeechInv, RecAt
  <2>3. CASE Goto("rec", "tell")
    BY <2>3, GotoRec DEF SpeechInv, RecAt
  <2> QED BY <2>1, <2>2, <2>3 DEF IvwWrite
<1>2. SpeechTypes'
  <2>1. again' = FALSE \/ again' = TRUE
    BY Zenon DEF IvwWrite
  <2>2. again' \in BOOLEAN
    BY <2>1, Zenon
  <2> QED BY <2>2 DEF SpeechInv, SpeechTypes, IvwWrite
<1>3. ~dead
  BY DEF IvwWrite
<1>4. ASSUME ~dead' PROVE Roles'
  BY <1>1, <1>3, <1>4 DEF SpeechInv, Undoing, Roles, IvwWrite
<1>5. ASSUME ~dead' PROVE Threads'
  BY <1>1, <1>3, <1>5 DEF SpeechInv, Threads, Joining, IvwWrite
<1>6. ASSUME ~dead' PROVE Pcm'
  BY <1>1, <1>3, <1>6 DEF SpeechInv, Pcm, Joining, IvwWrite
<1>7. ASSUME ~dead' PROVE Recording'
  BY <1>1, <1>3, <1>7 DEF SpeechInv, Recording, At, IvwWrite
<1>8. ASSUME ~dead' PROVE Sessions'
  BY <1>1, <1>3, <1>8 DEF SpeechInv, Sessions, At, IvwWrite
<1>9. ASSUME ~dead' PROVE Writing'
  BY <1>1, <1>3, <1>9 DEF Writing
<1>10. ASSUME ~dead' PROVE Hearing'
  BY <1>1, <1>3, <1>10 DEF SpeechInv, Undoing, Hearing, IvwWrite
<1> QED BY <1>1, <1>2, <1>4, <1>5, <1>6, <1>7, <1>8, <1>9, <1>10 DEF SpeechInv

(* The invariant survives the wait for the result. *)
LEMMA GetResultKeeps == ASSUME SpeechInv, GetResult PROVE SpeechInv'
<1> USE DEF asrv, recv, hubv, mailv
<1>1. /\ Places'
      /\ \/ pc'["rec"] = "report" /\ pc'["main"] = pc["main"] /\ pc'["lib"] = pc["lib"]
         \/ pc'["rec"] = "fail" /\ pc'["main"] = pc["main"] /\ pc'["lib"] = pc["lib"]
  <2>1. CASE Goto("rec", "report")
    BY <2>1, GotoRec DEF SpeechInv, RecAt
  <2>2. CASE Goto("rec", "fail")
    BY <2>2, GotoRec DEF SpeechInv, RecAt
  <2> QED BY <2>1, <2>2 DEF GetResult
<1>2. SpeechTypes'
  <2>1. again' = FALSE
    BY Zenon DEF GetResult
  <2>2. again' \in BOOLEAN
    BY <2>1, Zenon
  <2> QED BY <2>2 DEF SpeechInv, SpeechTypes, GetResult
<1>3. ~dead
  BY DEF GetResult
<1>4. ASSUME ~dead' PROVE Roles'
  BY <1>1, <1>3, <1>4 DEF SpeechInv, Undoing, Roles, GetResult
<1>5. ASSUME ~dead' PROVE Threads'
  BY <1>1, <1>3, <1>5 DEF SpeechInv, Threads, Joining, GetResult
<1>6. ASSUME ~dead' PROVE Pcm'
  BY <1>1, <1>3, <1>6 DEF SpeechInv, Pcm, Joining, GetResult
<1>7. ASSUME ~dead' PROVE Recording'
  BY <1>1, <1>3, <1>7 DEF SpeechInv, Recording, At, GetResult
<1>8. ASSUME ~dead' PROVE Sessions'
  BY <1>1, <1>3, <1>8 DEF SpeechInv, Sessions, At, GetResult
<1>9. ASSUME ~dead' PROVE Writing'
  BY <1>1, <1>3, <1>9 DEF Writing
<1>10. ASSUME ~dead' PROVE Hearing'
  BY <1>1, <1>3, <1>10 DEF SpeechInv, Undoing, Hearing, GetResult
<1> QED BY <1>1, <1>2, <1>4, <1>5, <1>6, <1>7, <1>8, <1>9, <1>10 DEF SpeechInv

(* The invariant survives end_asr_on_error. *)
LEMMA EndOnErrorKeeps == ASSUME SpeechInv, EndOnError PROVE SpeechInv'
<1> USE DEF asrv, recv, hubv, mailv
<1>1. /\ Places'
      /\ \/ pc'["rec"] = "ends" /\ pc'["main"] = pc["main"] /\ pc'["lib"] = pc["lib"]
  <2>1. CASE Goto("rec", "ends")
    BY <2>1, GotoRec DEF SpeechInv, RecAt
  <2> QED BY <2>1, StopRecordEffect DEF EndOnError
<1>2. SpeechTypes'
  <2>1. UNCHANGED <<rec, faults>> \/ StopRecord
    BY DEF EndOnError
  <2>2. rec' \in Recs /\ faults' \in SUBSET Fault
    <3>1. CASE UNCHANGED <<rec, faults>>
      BY <3>1 DEF SpeechInv, SpeechTypes, Recs
    <3> QED BY <2>1, <3>1, StopRecordEffect DEF SpeechInv
  <2> QED BY <2>2 DEF SpeechInv, SpeechTypes, Recs, EndOnError
<1>3. ~dead
  BY DEF EndOnError
<1>4. ASSUME ~dead' PROVE Roles'
  BY <1>1, <1>3, <1>4 DEF SpeechInv, Undoing, Roles, EndOnError
<1>5. ASSUME ~dead' PROVE Threads'
  BY <1>1, <1>3, <1>5 DEF SpeechInv, Opened, Threads, Joining, EndOnError, StopRecord
<1>6. ASSUME ~dead' PROVE Pcm'
  BY <1>1, <1>3, <1>6 DEF SpeechInv, Opened, Pcm, Joining, EndOnError, StopRecord
<1>7. ASSUME ~dead' PROVE Recording'
  BY <1>1, <1>3, <1>7 DEF SpeechInv, Threads, Recording, At, EndOnError, StopRecord
<1>8. ASSUME ~dead' PROVE Sessions'
  BY <1>1, <1>3, <1>8 DEF SpeechInv, Sessions, At, EndOnError, StopRecord
<1>9. ASSUME ~dead' PROVE Writing'
  BY <1>1, <1>3, <1>9 DEF Writing
<1>10. ASSUME ~dead' PROVE Hearing'
  BY <1>1, <1>3, <1>10 DEF Hearing
<1> QED BY <1>1, <1>2, <1>4, <1>5, <1>6, <1>7, <1>8, <1>9, <1>10 DEF SpeechInv

(* The invariant survives the end of a session after an error. *)
LEMMA EndSessionKeeps == ASSUME SpeechInv, EndSession PROVE SpeechInv'
<1> USE DEF asrv, recv, hubv, mailv
<1>1. /\ Places'
      /\ \/ pc'["rec"] = "tell" /\ pc'["main"] = pc["main"] /\ pc'["lib"] = pc["lib"]
  <2>1. CASE Goto("rec", "tell")
    BY <2>1, GotoRec DEF SpeechInv, RecAt
  <2> QED BY <2>1 DEF EndSession
<1>2. SpeechTypes'
  BY DEF SpeechInv, SpeechTypes, EndSession
<1>3. ~dead
  BY DEF EndSession
<1>4. ASSUME ~dead' PROVE Roles'
  BY <1>1, <1>3, <1>4 DEF SpeechInv, Undoing, Roles, EndSession
<1>5. ASSUME ~dead' PROVE Threads'
  BY <1>1, <1>3, <1>5 DEF SpeechInv, Threads, Joining, EndSession
<1>6. ASSUME ~dead' PROVE Pcm'
  BY <1>1, <1>3, <1>6 DEF SpeechInv, Pcm, Joining, EndSession
<1>7. ASSUME ~dead' PROVE Recording'
  BY <1>1, <1>3, <1>7 DEF SpeechInv, Threads, Recording, EndSession
<1>8. ASSUME ~dead' PROVE Sessions'
  BY <1>1, <1>3, <1>8 DEF Sessions, EndSession
<1>9. ASSUME ~dead' PROVE Writing'
  BY <1>1, <1>3, <1>9 DEF Writing
<1>10. ASSUME ~dead' PROVE Hearing'
  BY <1>1, <1>3, <1>10 DEF Hearing
<1> QED BY <1>1, <1>2, <1>4, <1>5, <1>6, <1>7, <1>8, <1>9, <1>10 DEF SpeechInv

(* The invariant survives a message of the library. *)
LEMMA IvwMessageKeeps == ASSUME SpeechInv, IvwMessage PROVE SpeechInv'
<1> USE DEF asrv, recv, hubv, mailv
<1>1. /\ Places'
      /\ \/ pc'["lib"] = "tell" /\ pc'["main"] = pc["main"] /\ pc'["rec"] = pc["rec"]
  <2>1. CASE Goto("lib", "tell")
    BY <2>1, GotoLib DEF SpeechInv, LibAt
  <2> QED BY <2>1 DEF IvwMessage
<1>2. SpeechTypes'
  BY DEF SpeechInv, SpeechTypes, IvwMessage
<1>3. ~dead
  BY DEF IvwMessage
<1>4. ASSUME ~dead' PROVE Roles'
  BY <1>1, <1>3, <1>4 DEF SpeechInv, Undoing, Roles, IvwMessage
<1>5. ASSUME ~dead' PROVE Threads'
  BY <1>1, <1>3, <1>5 DEF SpeechInv, Threads, Joining, IvwMessage
<1>6. ASSUME ~dead' PROVE Pcm'
  BY <1>1, <1>3, <1>6 DEF SpeechInv, Pcm, Joining, IvwMessage
<1>7. ASSUME ~dead' PROVE Recording'
  BY <1>1, <1>3, <1>7 DEF SpeechInv, Recording, At, IvwMessage
<1>8. ASSUME ~dead' PROVE Sessions'
  BY <1>1, <1>3, <1>8 DEF SpeechInv, Sessions, At, IvwMessage
<1>9. ASSUME ~dead' PROVE Writing'
  BY <1>1, <1>3, <1>9 DEF Writing, IvwMessage
<1>10. ASSUME ~dead' PROVE Hearing'
  BY <1>1, <1>3, <1>10 DEF SpeechInv, Undoing, Hearing, IvwMessage
<1> QED BY <1>1, <1>2, <1>4, <1>5, <1>6, <1>7, <1>8, <1>9, <1>10 DEF SpeechInv

(* The invariant survives on_asr_result. *)
LEMMA ReportKeeps == ASSUME SpeechInv, Report PROVE SpeechInv'
<1> USE DEF asrv, recv, hubv, mailv
<1>1. /\ Places'
      /\ \/ pc'["rec"] = "selfstop" /\ pc'["main"] = pc["main"] /\ pc'["lib"] = pc["lib"]
  <2>1. CASE Goto("rec", "selfstop")
    BY <2>1, GotoRec DEF SpeechInv, RecAt
  <2> QED BY <2>1 DEF Report
<1>2. SpeechTypes'
  BY DEF SpeechInv, SpeechTypes, Told, Report, Feedback
<1>3. ~dead
  BY DEF Report, Feedback
<1>4. ASSUME ~dead' PROVE Roles'
  BY <1>1, <1>3, <1>4 DEF SpeechInv, Undoing, Roles, Report
<1>5. ASSUME ~dead' PROVE Threads'
  BY <1>1, <1>3, <1>5 DEF SpeechInv, Threads, Joining, Report, Feedback
<1>6. ASSUME ~dead' PROVE Pcm'
  BY <1>1, <1>3, <1>6 DEF SpeechInv, Pcm, Joining, Report, Feedback
<1>7. ASSUME ~dead' PROVE Recording'
  BY <1>1, <1>3, <1>7 DEF SpeechInv, Recording, At, Report
<1>8. ASSUME ~dead' PROVE Sessions'
  BY <1>1, <1>3, <1>8 DEF SpeechInv, Sessions, At, Report, Feedback
<1>9. ASSUME ~dead' PROVE Writing'
  BY <1>1, <1>3, <1>9 DEF Writing
<1>10. ASSUME ~dead' PROVE Hearing'
  BY <1>1, <1>3, <1>10 DEF SpeechInv, Undoing, Hearing, Report, Feedback
<1> QED BY <1>1, <1>2, <1>4, <1>5, <1>6, <1>7, <1>8, <1>9, <1>10 DEF SpeechInv

(* The invariant survives the stop that the daemon sends itself. *)
LEMMA SelfStopKeeps == ASSUME SpeechInv, SelfStop PROVE SpeechInv'
<1> USE DEF asrv, recv, hubv, mailv
<1>1. /\ Places'
      /\ \/ pc'["rec"] = "loop" /\ pc'["main"] = pc["main"] /\ pc'["lib"] = pc["lib"]
  <2>1. CASE Goto("rec", "loop")
    BY <2>1, GotoRec DEF SpeechInv, RecAt
  <2> QED BY <2>1 DEF SelfStop
<1>2. SpeechTypes'
  <2>1. mail' \in Seq(Command)
    BY DEF SpeechInv, SpeechTypes, Command, SelfStop
  <2> QED BY <2>1 DEF SpeechInv, SpeechTypes, SelfStop
<1>3. ~dead
  BY DEF SelfStop
<1>4. ASSUME ~dead' PROVE Roles'
  BY <1>1, <1>3, <1>4 DEF SpeechInv, Undoing, Roles, SelfStop
<1>5. ASSUME ~dead' PROVE Threads'
  BY <1>1, <1>3, <1>5 DEF SpeechInv, Threads, Joining, SelfStop
<1>6. ASSUME ~dead' PROVE Pcm'
  BY <1>1, <1>3, <1>6 DEF SpeechInv, Pcm, Joining, SelfStop
<1>7. ASSUME ~dead' PROVE Recording'
  BY <1>1, <1>3, <1>7 DEF SpeechInv, Recording, At, SelfStop
<1>8. ASSUME ~dead' PROVE Sessions'
  BY <1>1, <1>3, <1>8 DEF SpeechInv, Sessions, At, SelfStop
<1>9. ASSUME ~dead' PROVE Writing'
  BY <1>1, <1>3, <1>9 DEF Writing
<1>10. ASSUME ~dead' PROVE Hearing'
  BY <1>1, <1>3, <1>10 DEF SpeechInv, Undoing, Hearing, SelfStop
<1> QED BY <1>1, <1>2, <1>4, <1>5, <1>6, <1>7, <1>8, <1>9, <1>10 DEF SpeechInv

(* The invariant survives the record thread that waits for itself. *)
LEMMA SelfJoinKeeps == ASSUME SpeechInv, SelfJoin PROVE SpeechInv'
<1> USE DEF asrv, recv, hubv, mailv
<1>1. /\ Places'
      /\ \/ pc'["rec"] = "none" /\ pc'["main"] = pc["main"] /\ pc'["lib"] = pc["lib"]
  <2>1. CASE Goto("rec", "none")
    BY <2>1, GotoRec DEF SpeechInv, RecAt
  <2> QED BY <2>1 DEF SelfJoin
<1>2. SpeechTypes'
  BY DEF SpeechInv, SpeechTypes, Fault, SelfJoin
<1>3. ~dead
  BY DEF SelfJoin
<1>4. ASSUME ~dead' PROVE Roles'
  BY <1>1, <1>3, <1>4 DEF SpeechInv, Undoing, Roles, SelfJoin
<1>5. ASSUME ~dead' PROVE Threads'
  BY <1>1, <1>3, <1>5 DEF SpeechInv, Threads, SelfJoin
<1>6. ASSUME ~dead' PROVE Pcm'
  BY <1>1, <1>3, <1>6 DEF Pcm, SelfJoin
<1>7. ASSUME ~dead' PROVE Recording'
  BY <1>1, <1>3, <1>7 DEF SpeechInv, Recording, At, SelfJoin
<1>8. ASSUME ~dead' PROVE Sessions'
  BY <1>1, <1>3, <1>8 DEF SpeechInv, Sessions, At, SelfJoin
<1>9. ASSUME ~dead' PROVE Writing'
  BY <1>1, <1>3, <1>9 DEF Writing
<1>10. ASSUME ~dead' PROVE Hearing'
  BY <1>1, <1>3, <1>10 DEF Hearing, SelfJoin
<1> QED BY <1>1, <1>2, <1>4, <1>5, <1>6, <1>7, <1>8, <1>9, <1>10 DEF SpeechInv

(* The invariant survives a stop. *)
LEMMA TakeStopKeeps == ASSUME SpeechInv, TakeStop PROVE SpeechInv'
<1> USE DEF asrv, recv, hubv, mailv
<1>1. /\ Places'
      /\ \/ pc'["main"] = "halt" /\ pc'["rec"] = pc["rec"] /\ pc'["lib"] = pc["lib"]
            /\ working /\ kind = "asr"
         \/ UNCHANGED pc
  <2>1. CASE Goto("main", "halt") /\ working /\ kind = "asr"
    BY <2>1, GotoMain DEF SpeechInv, MainAt, Undoing
  <2>2. CASE UNCHANGED pc
    BY <2>2 DEF SpeechInv, Places
  <2> QED BY <2>1, <2>2, UndoesEffect DEF SpeechInv, TakeStop
<1>11. /\ faults' \in SUBSET Fault
       /\ \A f \in {"read", "drop", "self", "early"} : f \in faults' <=> f \in faults
  BY UndoesEffect DEF SpeechInv, SpeechTypes, TakeStop
<1>2. SpeechTypes'
  BY <1>11 DEF SpeechInv, SpeechTypes, TakeStop, Takes
<1>3. ~dead
  BY DEF TakeStop, Takes
<1>4. ASSUME ~dead' PROVE Roles'
  BY <1>1, <1>3, <1>4 DEF SpeechInv, Undoing, Roles, TakeStop
<1>5. ASSUME ~dead' PROVE Threads'
  BY <1>1, <1>3, <1>5 DEF SpeechInv, Threads, Joining, TakeStop, Takes
<1>6. ASSUME ~dead' PROVE Pcm'
  BY <1>1, <1>3, <1>6, <1>11 DEF SpeechInv, Pcm, Joining, TakeStop, Takes
<1>7. ASSUME ~dead' PROVE Recording'
  BY <1>1, <1>3, <1>7 DEF SpeechInv, Recording, At, TakeStop, Takes
<1>8. ASSUME ~dead' PROVE Sessions'
  BY <1>1, <1>3, <1>8, <1>11 DEF SpeechInv, Sessions, At, TakeStop, Takes
<1>9. ASSUME ~dead' PROVE Writing'
  BY <1>1, <1>3, <1>9 DEF SpeechInv, Writing, TakeStop, Takes
<1>10. ASSUME ~dead' PROVE Hearing'
  BY <1>1, <1>3, <1>10, <1>11 DEF SpeechInv, Hearing, TakeStop
<1> QED BY <1>1, <1>2, <1>4, <1>5, <1>6, <1>7, <1>8, <1>9, <1>10 DEF SpeechInv

(* The invariant survives asr_start_listening. *)
LEMMA BeginKeeps == ASSUME SpeechInv, Begin PROVE SpeechInv'
<1> USE DEF asrv, recv, hubv, mailv
<1>1. /\ Places'
      /\ \/ pc'["main"] = "record" /\ pc'["rec"] = pc["rec"] /\ pc'["lib"] = pc["lib"]
            /\ session' = "open"
         \/ pc'["main"] = "close" /\ pc'["rec"] = pc["rec"] /\ pc'["lib"] = pc["lib"]
            /\ session' = session
  <2>1. CASE Goto("main", "record") /\ session' = "open"
    BY <2>1, GotoMain DEF SpeechInv, MainAt
  <2>2. CASE Goto("main", "close") /\ session' = session
    BY <2>2, GotoMain DEF SpeechInv, MainAt, Undoing
  <2> QED BY <2>1, <2>2 DEF Begin, GiveUp
<1>2. SpeechTypes'
  BY DEF SpeechInv, SpeechTypes, Begin
<1>3. ~dead
  BY DEF Begin
<1>4. ASSUME ~dead' PROVE Roles'
  BY <1>1, <1>3, <1>4 DEF SpeechInv, Roles, Begin
<1>5. ASSUME ~dead' PROVE Threads'
  BY <1>1, <1>3, <1>5 DEF SpeechInv, Threads, Joining, Begin
<1>6. ASSUME ~dead' PROVE Pcm'
  BY <1>1, <1>3, <1>6 DEF SpeechInv, Pcm, Joining, Begin
<1>7. ASSUME ~dead' PROVE Recording'
  BY <1>1, <1>3, <1>7 DEF SpeechInv, Recording, Begin
<1>8. ASSUME ~dead' PROVE Sessions'
  BY <1>1, <1>3, <1>8 DEF SpeechInv, Roles, Sessions, At, Begin
<1>9. ASSUME ~dead' PROVE Writing'
  BY <1>1, <1>3, <1>9 DEF SpeechInv, Writing, Begin
<1>10. ASSUME ~dead' PROVE Hearing'
  BY <1>1, <1>3, <1>10 DEF Hearing
<1> QED BY <1>1, <1>2, <1>4, <1>5, <1>6, <1>7, <1>8, <1>9, <1>10 DEF SpeechInv

(* The invariant survives ivw_start_listening. *)
LEMMA BeginIvwKeeps == ASSUME SpeechInv, BeginIvw PROVE SpeechInv'
<1> USE DEF asrv, recv, hubv, mailv
<1>1. /\ Places'
      /\ \/ pc'["main"] = "record" /\ pc'["rec"] = pc["rec"] /\ pc'["lib"] = pc["lib"]
            /\ session' = "open"
         \/ pc'["main"] = "close" /\ pc'["rec"] = pc["rec"] /\ pc'["lib"] = pc["lib"]
            /\ session' = "null"
  <2>1. CASE Goto("main", "record") /\ session' = "open"
    BY <2>1, GotoMain DEF SpeechInv, MainAt
  <2>2. CASE Goto("main", "close") /\ session' = "null"
    BY <2>2, GotoMain DEF SpeechInv, MainAt, Undoing
  <2> QED BY <2>1, <2>2 DEF BeginIvw, GiveUp
<1>2. SpeechTypes'
  BY DEF SpeechInv, SpeechTypes, BeginIvw
<1>3. ~dead
  BY DEF BeginIvw
<1>4. ASSUME ~dead' PROVE Roles'
  BY <1>1, <1>3, <1>4 DEF SpeechInv, Roles, BeginIvw
<1>5. ASSUME ~dead' PROVE Threads'
  BY <1>1, <1>3, <1>5 DEF SpeechInv, Threads, Joining, BeginIvw
<1>6. ASSUME ~dead' PROVE Pcm'
  BY <1>1, <1>3, <1>6 DEF SpeechInv, Pcm, Joining, BeginIvw
<1>7. ASSUME ~dead' PROVE Recording'
  BY <1>1, <1>3, <1>7 DEF SpeechInv, Recording, BeginIvw
<1>8. ASSUME ~dead' PROVE Sessions'
  BY <1>1, <1>3, <1>8 DEF SpeechInv, Undoing, Roles, Sessions, BeginIvw
<1>9. ASSUME ~dead' PROVE Writing'
  BY <1>1, <1>3, <1>9 DEF SpeechInv, Recording, Writing, BeginIvw
<1>10. ASSUME ~dead' PROVE Hearing'
  BY <1>1, <1>3, <1>10 DEF Hearing
<1> QED BY <1>1, <1>2, <1>4, <1>5, <1>6, <1>7, <1>8, <1>9, <1>10 DEF SpeechInv

(* The invariant survives start_record. *)
LEMMA StartRecordKeeps == ASSUME SpeechInv, StartRecord PROVE SpeechInv'
<1> USE DEF asrv, recv, hubv, mailv
<1>1. /\ Places'
      /\ \/ pc'["main"] = "mark" /\ pc'["rec"] = pc["rec"] /\ pc'["lib"] = pc["lib"]
            /\ rec = "READY" /\ rec' = "RECORDING" /\ session' = session
         \/ pc'["main"] = "close" /\ pc'["rec"] = pc["rec"] /\ pc'["lib"] = pc["lib"]
            /\ session' = "null" /\ rec' = rec
  <2>1. CASE Goto("main", "mark") /\ rec = "READY" /\ rec' = "RECORDING" /\ session' = session
    BY <2>1, GotoMain DEF SpeechInv, MainAt
  <2>2. CASE Goto("main", "close") /\ session' = "null" /\ rec' = rec
    BY <2>2, GotoMain DEF SpeechInv, MainAt, Undoing
  <2> QED BY <2>1, <2>2 DEF StartRecord, GiveUp
<1>2. SpeechTypes'
  BY DEF SpeechInv, SpeechTypes, Opened, StartRecord
<1>3. ~dead
  BY DEF StartRecord
<1>4. ASSUME ~dead' PROVE Roles'
  BY <1>1, <1>3, <1>4 DEF SpeechInv, Roles, StartRecord
<1>5. ASSUME ~dead' PROVE Threads'
  BY <1>1, <1>3, <1>5 DEF SpeechInv, Opened, Threads, Joining, StartRecord
<1>6. ASSUME ~dead' PROVE Pcm'
  BY <1>1, <1>3, <1>6 DEF SpeechInv, Opened, Pcm, Joining, StartRecord
<1>7. ASSUME ~dead' PROVE Recording'
  BY <1>1, <1>3, <1>7 DEF SpeechInv, Undoing, Roles, Threads, Recording, At, StartRecord
<1>8. ASSUME ~dead' PROVE Sessions'
  BY <1>1, <1>3, <1>8 DEF SpeechInv, Sessions, StartRecord
<1>9. ASSUME ~dead' PROVE Writing'
  BY <1>1, <1>3, <1>9 DEF SpeechInv, Recording, Writing, StartRecord
<1>10. ASSUME ~dead' PROVE Hearing'
  BY <1>1, <1>3, <1>10 DEF SpeechInv, Threads, Hearing, StartRecord
<1> QED BY <1>1, <1>2, <1>4, <1>5, <1>6, <1>7, <1>8, <1>9, <1>10 DEF SpeechInv

(* The invariant survives state is set. *)
LEMMA MarkStartedKeeps == ASSUME SpeechInv, MarkStarted PROVE SpeechInv'
<1> USE DEF asrv, recv, hubv, mailv
<1>1. /\ Places'
      /\ \/ pc'["main"] = "work" /\ pc'["rec"] = pc["rec"] /\ pc'["lib"] = pc["lib"]
  <2>1. CASE Goto("main", "work")
    BY <2>1, GotoMain DEF SpeechInv, MainAt
  <2> QED BY <2>1 DEF MarkStarted
<1>2. SpeechTypes'
  BY DEF SpeechInv, SpeechTypes, MarkStarted
<1>3. ~dead
  BY DEF MarkStarted
<1>4. ASSUME ~dead' PROVE Roles'
  BY <1>1, <1>3, <1>4 DEF SpeechInv, Roles, MarkStarted
<1>5. ASSUME ~dead' PROVE Threads'
  BY <1>1, <1>3, <1>5 DEF SpeechInv, Threads, Joining, MarkStarted
<1>6. ASSUME ~dead' PROVE Pcm'
  BY <1>1, <1>3, <1>6 DEF SpeechInv, Pcm, Joining, MarkStarted
<1>7. ASSUME ~dead' PROVE Recording'
  BY <1>1, <1>3, <1>7 DEF SpeechInv, Undoing, Roles, Recording, At, MarkStarted
<1>8. ASSUME ~dead' PROVE Sessions'
  BY <1>1, <1>3, <1>8 DEF SpeechInv, Sessions, MarkStarted
<1>9. ASSUME ~dead' PROVE Writing'
  BY <1>1, <1>3, <1>9 DEF SpeechInv, Undoing, Roles, Writing, MarkStarted
<1>10. ASSUME ~dead' PROVE Hearing'
  BY <1>1, <1>3, <1>10 DEF SpeechInv, Hearing, MarkStarted
<1> QED BY <1>1, <1>2, <1>4, <1>5, <1>6, <1>7, <1>8, <1>9, <1>10 DEF SpeechInv

(* The invariant survives working is set. *)
LEMMA MarkWorkingKeeps == ASSUME SpeechInv, MarkWorking PROVE SpeechInv'
<1> USE DEF asrv, recv, hubv, mailv
<1>1. /\ Places'
      /\ \/ pc'["main"] = "idle" /\ pc'["rec"] = pc["rec"] /\ pc'["lib"] = pc["lib"]
  <2>1. CASE Goto("main", "idle")
    BY <2>1, GotoMain DEF SpeechInv, MainAt
  <2> QED BY <2>1 DEF MarkWorking
<1>2. SpeechTypes'
  BY DEF SpeechInv, SpeechTypes, MarkWorking
<1>3. ~dead
  BY DEF MarkWorking
<1>4. ASSUME ~dead' PROVE Roles'
  BY <1>1, <1>3, <1>4 DEF SpeechInv, Roles, MarkWorking
<1>5. ASSUME ~dead' PROVE Threads'
  BY <1>1, <1>3, <1>5 DEF SpeechInv, Threads, Joining, MarkWorking
<1>6. ASSUME ~dead' PROVE Pcm'
  BY <1>1, <1>3, <1>6 DEF SpeechInv, Pcm, Joining, MarkWorking
<1>7. ASSUME ~dead' PROVE Recording'
  BY <1>1, <1>3, <1>7 DEF SpeechInv, Recording, At, MarkWorking
<1>8. ASSUME ~dead' PROVE Sessions'
  BY <1>1, <1>3, <1>8 DEF SpeechInv, Sessions, At, MarkWorking
<1>9. ASSUME ~dead' PROVE Writing'
  BY <1>1, <1>3, <1>9 DEF SpeechInv, Writing, MarkWorking
<1>10. ASSUME ~dead' PROVE Hearing'
  BY <1>1, <1>3, <1>10 DEF SpeechInv, Hearing, MarkWorking
<1> QED BY <1>1, <1>2, <1>4, <1>5, <1>6, <1>7, <1>8, <1>9, <1>10 DEF SpeechInv

(* The invariant survives asr_stop_listening in the main thread. *)
LEMMA HaltMainKeeps == ASSUME SpeechInv, Halt("main") PROVE SpeechInv'
<1> USE DEF asrv, recv, hubv, mailv
<1>1. /\ Places'
      /\ \/ pc'["main"] = "close" /\ pc'["rec"] = pc["rec"] /\ pc'["lib"] = pc["lib"]
            /\ (state = "INIT" \/ ~recorder \/ "drop" \in faults')
         \/ pc'["main"] = "quiet" /\ pc'["rec"] = pc["rec"] /\ pc'["lib"] = pc["lib"]
            /\ rec' # "RECORDING"
  <2>1. CASE Goto("main", "close") /\ (state = "INIT" \/ ~recorder \/ "drop" \in faults')
    BY <2>1, GotoMain DEF SpeechInv, MainAt, Undoing
  <2>2. CASE Goto("main", "quiet") /\ rec' # "RECORDING"
    BY <2>2, GotoMain DEF SpeechInv, MainAt, Undoing
  <2> QED BY <2>1, <2>2, StopRecordEffect DEF SpeechInv, Halt
<1>2. SpeechTypes'
  <2>1. UNCHANGED <<rec, faults>> \/ StopRecord
    BY DEF Halt
  <2>2. rec' \in Recs /\ faults' \in SUBSET Fault
    <3>1. CASE UNCHANGED <<rec, faults>>
      BY <3>1 DEF SpeechInv, SpeechTypes, Recs
    <3> QED BY <2>1, <3>1, StopRecordEffect DEF SpeechInv
  <2> QED BY <2>2 DEF SpeechInv, SpeechTypes, Recs, Halt
<1>3. ~dead
  BY DEF Halt
<1>4. ASSUME ~dead' PROVE Roles'
  BY <1>1, <1>3, <1>4 DEF SpeechInv, Roles, Halt
<1>5. ASSUME ~dead' PROVE Threads'
  BY <1>1, <1>3, <1>5 DEF SpeechInv, Opened, Threads, Joining, Halt, StopRecord
<1>6. ASSUME ~dead' PROVE Pcm'
  BY <1>1, <1>3, <1>6 DEF SpeechInv, Opened, Pcm, Joining, Halt, StopRecord
<1>7. ASSUME ~dead' PROVE Recording'
  BY <1>1, <1>3, <1>7 DEF SpeechInv, Recording, At, Halt, StopRecord
<1>8. ASSUME ~dead' PROVE Sessions'
  BY <1>1, <1>3, <1>8 DEF SpeechInv, Roles, Sessions, At, Halt, StopRecord
<1>9. ASSUME ~dead' PROVE Writing'
  BY <1>1, <1>3, <1>9 DEF SpeechInv, Writing, Halt
<1>10. ASSUME ~dead' PROVE Hearing'
  BY <1>1, <1>3, <1>10 DEF Hearing
<1> QED BY <1>1, <1>2, <1>4, <1>5, <1>6, <1>7, <1>8, <1>9, <1>10 DEF SpeechInv

(* The invariant survives wait_for_rec_stop in the main thread. *)
LEMMA QuietMainKeeps == ASSUME SpeechInv, Quiet("main") PROVE SpeechInv'
<1> USE DEF asrv, recv, hubv, mailv
<1>1. /\ Places'
      /\ \/ pc'["main"] = "last" /\ pc'["rec"] = pc["rec"] /\ pc'["lib"] = pc["lib"]
         \/ UNCHANGED pc /\ dead'
  <2>1. CASE Goto("main", "last")
    BY <2>1, GotoMain DEF SpeechInv, MainAt, Undoing
  <2>2. CASE UNCHANGED pc /\ dead'
    BY <2>2 DEF SpeechInv, Places
  <2> QED BY <2>1, <2>2 DEF Quiet
<1>2. SpeechTypes'
  <2>1. CASE Answers
    BY <2>1 DEF SpeechInv, SpeechTypes, Quiet
  <2>2. CASE ~Answers
    BY <2>2 DEF SpeechInv, SpeechTypes, Quiet
  <2> QED BY <2>1, <2>2
<1>3. ~dead
  BY DEF Quiet
<1>4. ASSUME ~dead' PROVE Roles'
  BY <1>1, <1>3, <1>4 DEF SpeechInv, Roles, Quiet
<1>5. ASSUME ~dead' PROVE Threads'
  BY <1>1, <1>3, <1>5 DEF SpeechInv, Threads, Joining, Quiet
<1>6. ASSUME ~dead' PROVE Pcm'
  BY <1>1, <1>3, <1>6 DEF SpeechInv, Pcm, Joining, Quiet
<1>7. ASSUME ~dead' PROVE Recording'
  BY <1>1, <1>3, <1>7 DEF SpeechInv, Recording, At, Quiet
<1>8. ASSUME ~dead' PROVE Sessions'
  BY <1>1, <1>3, <1>8 DEF SpeechInv, Sessions, At, Quiet
<1>9. ASSUME ~dead' PROVE Writing'
  BY <1>1, <1>3, <1>9 DEF SpeechInv, Writing, Quiet
<1>10. ASSUME ~dead' PROVE Hearing'
  BY <1>1, <1>3, <1>10 DEF Hearing
<1> QED BY <1>1, <1>2, <1>4, <1>5, <1>6, <1>7, <1>8, <1>9, <1>10 DEF SpeechInv

(* The invariant survives the end of the session by the main thread. *)
LEMMA LastMainKeeps == ASSUME SpeechInv, LastSample("main") PROVE SpeechInv'
<1> USE DEF asrv, recv, hubv, mailv
<1>1. /\ Places'
      /\ \/ pc'["main"] = "close" /\ pc'["rec"] = pc["rec"] /\ pc'["lib"] = pc["lib"]
  <2>1. CASE Goto("main", "close")
    BY <2>1, GotoMain DEF SpeechInv, MainAt, Undoing
  <2> QED BY <2>1 DEF LastSample
<1>2. SpeechTypes'
  BY DEF SpeechInv, SpeechTypes, LastSample
<1>3. ~dead
  BY DEF LastSample
<1>4. ASSUME ~dead' PROVE Roles'
  BY <1>1, <1>3, <1>4 DEF SpeechInv, Roles, LastSample
<1>5. ASSUME ~dead' PROVE Threads'
  BY <1>1, <1>3, <1>5 DEF SpeechInv, Threads, Joining, LastSample
<1>6. ASSUME ~dead' PROVE Pcm'
  BY <1>1, <1>3, <1>6 DEF SpeechInv, Pcm, Joining, LastSample
<1>7. ASSUME ~dead' PROVE Recording'
  BY <1>1, <1>3, <1>7 DEF SpeechInv, Recording, At, LastSample
<1>8. ASSUME ~dead' PROVE Sessions'
  BY <1>1, <1>3, <1>8 DEF Sessions, LastSample
<1>9. ASSUME ~dead' PROVE Writing'
  BY <1>1, <1>3, <1>9 DEF SpeechInv, Recording, Writing, At, LastSample
<1>10. ASSUME ~dead' PROVE Hearing'
  BY <1>1, <1>3, <1>10 DEF Hearing
<1> QED BY <1>1, <1>2, <1>4, <1>5, <1>6, <1>7, <1>8, <1>9, <1>10 DEF SpeechInv

(* The invariant survives close_recorder in the main thread. *)
LEMMA CloseMainKeeps == ASSUME SpeechInv, Close("main") PROVE SpeechInv'
<1> USE DEF asrv, recv, hubv, mailv
<1>1. /\ Places'
      /\ \/ pc'["main"] = "join" /\ pc'["rec"] = pc["rec"] /\ pc'["lib"] = pc["lib"]
            /\ recorder /\ rec \in Opened
         \/ pc'["main"] = "free" /\ pc'["rec"] = pc["rec"] /\ pc'["lib"] = pc["lib"]
            /\ ~(recorder /\ rec \in Opened)
         \/ UNCHANGED pc /\ dead'
  <2>1. CASE Goto("main", "join") /\ recorder /\ rec \in Opened
    BY <2>1, GotoMain DEF SpeechInv, MainAt, Undoing
  <2>2. CASE Goto("main", "free") /\ ~(recorder /\ rec \in Opened)
    BY <2>2, GotoMain DEF SpeechInv, MainAt, Undoing
  <2>3. CASE UNCHANGED pc /\ dead'
    BY <2>3 DEF SpeechInv, Places
  <2> QED BY <2>1, <2>2, <2>3 DEF Close, Opened
<1>2. SpeechTypes'
  <2>1. rec' \in Recs /\ cancel' \in BOOLEAN /\ dead' \in BOOLEAN
    BY DEF SpeechInv, SpeechTypes, Recs, Close, Cancel
  <2> QED BY <2>1 DEF SpeechInv, SpeechTypes, Recs, Close
<1>3. ~dead
  BY DEF Close
<1>4. ASSUME ~dead' PROVE Roles'
  BY <1>1, <1>3, <1>4 DEF SpeechInv, Roles, Close
<1>5. ASSUME ~dead' PROVE Threads'
  BY <1>1, <1>3, <1>5 DEF SpeechInv, Undoing, Opened, Roles, Threads, Joining, Close
<1>6. ASSUME ~dead' PROVE Pcm'
  BY <1>1, <1>3, <1>6 DEF SpeechInv, Pcm, Joining, Close
<1>7. ASSUME ~dead' PROVE Recording'
  BY <1>1, <1>3, <1>7 DEF SpeechInv, Recording, At, Close
<1>8. ASSUME ~dead' PROVE Sessions'
  BY <1>1, <1>3, <1>8 DEF SpeechInv, Sessions, At, Close
<1>9. ASSUME ~dead' PROVE Writing'
  BY <1>1, <1>3, <1>9 DEF SpeechInv, Threads, Writing, Joining, Close
<1>10. ASSUME ~dead' PROVE Hearing'
  BY <1>1, <1>3, <1>10 DEF Hearing
<1> QED BY <1>1, <1>2, <1>4, <1>5, <1>6, <1>7, <1>8, <1>9, <1>10 DEF SpeechInv

(* The invariant survives close_recorder_internal in the main thread. *)
LEMMA JoinMainKeeps == ASSUME SpeechInv, Join("main") PROVE SpeechInv'
<1> USE DEF asrv, recv, hubv, mailv
<1>1. /\ Places'
      /\ \/ pc'["main"] = "free" /\ pc'["rec"] = pc["rec"] /\ pc'["lib"] = pc["lib"]
  <2>1. CASE Goto("main", "free")
    BY <2>1, GotoMain DEF SpeechInv, MainAt, Undoing
  <2> QED BY <2>1 DEF Join
<1>2. SpeechTypes'
  BY DEF SpeechInv, SpeechTypes, Join
<1>3. ~dead
  BY DEF Join
<1>4. ASSUME ~dead' PROVE Roles'
  BY <1>1, <1>3, <1>4 DEF SpeechInv, Roles, Join
<1>5. ASSUME ~dead' PROVE Threads'
  BY <1>1, <1>3, <1>5 DEF SpeechInv, Undoing, Opened, Roles, Threads, Joining, Join, Quit
<1>6. ASSUME ~dead' PROVE Pcm'
  BY <1>1, <1>3, <1>6 DEF Pcm, Join
<1>7. ASSUME ~dead' PROVE Recording'
  BY <1>1, <1>3, <1>7 DEF SpeechInv, Recording, At, Join
<1>8. ASSUME ~dead' PROVE Sessions'
  BY <1>1, <1>3, <1>8 DEF SpeechInv, Sessions, Join, Quit
<1>9. ASSUME ~dead' PROVE Writing'
  BY <1>1, <1>3, <1>9 DEF Writing, Join, Quit
<1>10. ASSUME ~dead' PROVE Hearing'
  BY <1>1, <1>3, <1>10 DEF Hearing
<1> QED BY <1>1, <1>2, <1>4, <1>5, <1>6, <1>7, <1>8, <1>9, <1>10 DEF SpeechInv

(* The invariant survives destroy_recorder in the main thread. *)
LEMMA FreeMainKeeps == ASSUME SpeechInv, Free("main") PROVE SpeechInv'
<1> USE DEF asrv, recv, hubv, mailv
<1>1. /\ Places'
      /\ \/ pc'["main"] = "idle" /\ pc'["rec"] = pc["rec"] /\ pc'["lib"] = pc["lib"]
            /\ (~dead' => pc["main"] # "join" /\ pc["lib"] # "join" /\ pc["rec"] # "join")
  <2>1. CASE Goto("main", "idle") /\ (~dead' => pc["main"] # "join" /\ pc["lib"] # "join"
     /\ pc["rec"] # "join")
    BY <2>1, GotoMain DEF SpeechInv, MainAt
  <2> QED BY <2>1 DEF Free, ReturnsTo, Thread
<1>2. SpeechTypes'
  BY DEF SpeechInv, SpeechTypes, Free, NotWorking
<1>3. ~dead
  BY DEF Free
<1>4. ASSUME ~dead' PROVE Roles'
  BY <1>1, <1>3, <1>4 DEF SpeechInv, Roles, Threads, Free, NotWorking
<1>5. ASSUME ~dead' PROVE Threads'
  BY <1>1, <1>3, <1>5 DEF SpeechInv, Opened, Threads, Joining, Free
<1>6. ASSUME ~dead' PROVE Pcm'
  BY <1>1, <1>3, <1>6 DEF SpeechInv, Threads, Pcm, Joining, Free
<1>7. ASSUME ~dead' PROVE Recording'
  BY <1>1, <1>3, <1>7 DEF SpeechInv, Recording, At, Free
<1>8. ASSUME ~dead' PROVE Sessions'
  BY <1>1, <1>3, <1>8 DEF SpeechInv, Sessions, At, Free
<1>9. ASSUME ~dead' PROVE Writing'
  BY <1>1, <1>3, <1>9 DEF SpeechInv, Writing, Free
<1>10. ASSUME ~dead' PROVE Hearing'
  BY <1>1, <1>3, <1>10 DEF Hearing, Free, NotWorking
<1> QED BY <1>1, <1>2, <1>4, <1>5, <1>6, <1>7, <1>8, <1>9, <1>10 DEF SpeechInv

(* The invariant survives asr_stop_listening in the record thread. *)
LEMMA HaltRecKeeps == ASSUME SpeechInv, Halt("rec") PROVE SpeechInv'
<1> USE DEF asrv, recv, hubv, mailv
<1>1. /\ Places'
      /\ \/ pc'["rec"] = "close" /\ pc'["main"] = pc["main"] /\ pc'["lib"] = pc["lib"]
            /\ (state = "INIT" \/ ~recorder \/ "drop" \in faults')
         \/ pc'["rec"] = "quiet" /\ pc'["main"] = pc["main"] /\ pc'["lib"] = pc["lib"]
            /\ rec' # "RECORDING"
  <2>1. CASE Goto("rec", "close") /\ (state = "INIT" \/ ~recorder \/ "drop" \in faults')
    BY <2>1, GotoRec DEF SpeechInv, RecAt, Undoing
  <2>2. CASE Goto("rec", "quiet") /\ rec' # "RECORDING"
    BY <2>2, GotoRec DEF SpeechInv, RecAt, Undoing
  <2> QED BY <2>1, <2>2, StopRecordEffect DEF SpeechInv, Halt
<1>2. SpeechTypes'
  <2>1. UNCHANGED <<rec, faults>> \/ StopRecord
    BY DEF Halt
  <2>2. rec' \in Recs /\ faults' \in SUBSET Fault
    <3>1. CASE UNCHANGED <<rec, faults>>
      BY <3>1 DEF SpeechInv, SpeechTypes, Recs
    <3> QED BY <2>1, <3>1, StopRecordEffect DEF SpeechInv
  <2> QED BY <2>2 DEF SpeechInv, SpeechTypes, Recs, Halt
<1>3. ~dead
  BY DEF Halt
<1>4. ASSUME ~dead' PROVE Roles'
  BY <1>1, <1>3, <1>4 DEF SpeechInv, Undoing, Roles, Halt
<1>5. ASSUME ~dead' PROVE Threads'
  BY <1>1, <1>3, <1>5 DEF SpeechInv, Opened, Threads, Joining, Halt, StopRecord
<1>6. ASSUME ~dead' PROVE Pcm'
  BY <1>1, <1>3, <1>6 DEF SpeechInv, Opened, Pcm, Joining, Halt, StopRecord
<1>7. ASSUME ~dead' PROVE Recording'
  BY <1>1, <1>3, <1>7 DEF SpeechInv, Recording, At, Halt, StopRecord
<1>8. ASSUME ~dead' PROVE Sessions'
  BY <1>1, <1>3, <1>8 DEF SpeechInv, Sessions, At, Halt, StopRecord
<1>9. ASSUME ~dead' PROVE Writing'
  BY <1>1, <1>3, <1>9 DEF Writing
<1>10. ASSUME ~dead' PROVE Hearing'
  BY <1>1, <1>3, <1>10 DEF Undoing, Hearing
<1> QED BY <1>1, <1>2, <1>4, <1>5, <1>6, <1>7, <1>8, <1>9, <1>10 DEF SpeechInv

(* The invariant survives wait_for_rec_stop in the record thread. *)
LEMMA QuietRecKeeps == ASSUME SpeechInv, Quiet("rec") PROVE SpeechInv'
<1> USE DEF asrv, recv, hubv, mailv
<1>1. /\ Places'
      /\ \/ pc'["rec"] = "last" /\ pc'["main"] = pc["main"] /\ pc'["lib"] = pc["lib"]
         \/ UNCHANGED pc /\ dead'
  <2>1. CASE Goto("rec", "last")
    BY <2>1, GotoRec DEF SpeechInv, RecAt, Undoing
  <2>2. CASE UNCHANGED pc /\ dead'
    BY <2>2 DEF SpeechInv, Places
  <2> QED BY <2>1, <2>2 DEF Quiet
<1>2. SpeechTypes'
  <2>1. CASE Answers
    BY <2>1 DEF SpeechInv, SpeechTypes, Quiet
  <2>2. CASE ~Answers
    BY <2>2 DEF SpeechInv, SpeechTypes, Quiet
  <2> QED BY <2>1, <2>2
<1>3. ~dead
  BY DEF Quiet
<1>4. ASSUME ~dead' PROVE Roles'
  BY <1>1, <1>3, <1>4 DEF SpeechInv, Undoing, Roles, Quiet
<1>5. ASSUME ~dead' PROVE Threads'
  BY <1>1, <1>3, <1>5 DEF SpeechInv, Threads, Joining, Quiet
<1>6. ASSUME ~dead' PROVE Pcm'
  BY <1>1, <1>3, <1>6 DEF SpeechInv, Pcm, Joining, Quiet
<1>7. ASSUME ~dead' PROVE Recording'
  BY <1>1, <1>3, <1>7 DEF SpeechInv, Recording, At, Quiet
<1>8. ASSUME ~dead' PROVE Sessions'
  BY <1>1, <1>3, <1>8 DEF Sessions, At
<1>9. ASSUME ~dead' PROVE Writing'
  BY <1>1, <1>3, <1>9 DEF Writing
<1>10. ASSUME ~dead' PROVE Hearing'
  BY <1>1, <1>3, <1>10 DEF Undoing, Hearing
<1> QED BY <1>1, <1>2, <1>4, <1>5, <1>6, <1>7, <1>8, <1>9, <1>10 DEF SpeechInv

(* The invariant survives the end of the session by the record thread. *)
LEMMA LastRecKeeps == ASSUME SpeechInv, LastSample("rec") PROVE SpeechInv'
<1> USE DEF asrv, recv, hubv, mailv
<1>1. /\ Places'
      /\ \/ pc'["rec"] = "close" /\ pc'["main"] = pc["main"] /\ pc'["lib"] = pc["lib"]
  <2>1. CASE Goto("rec", "close")
    BY <2>1, GotoRec DEF SpeechInv, RecAt, Undoing
  <2> QED BY <2>1 DEF LastSample
<1>2. SpeechTypes'
  BY DEF SpeechInv, SpeechTypes, LastSample
<1>3. ~dead
  BY DEF LastSample
<1>4. ASSUME ~dead' PROVE Roles'
  BY <1>1, <1>3, <1>4 DEF SpeechInv, Undoing, Roles, LastSample
<1>5. ASSUME ~dead' PROVE Threads'
  BY <1>1, <1>3, <1>5 DEF SpeechInv, Threads, Joining, LastSample
<1>6. ASSUME ~dead' PROVE Pcm'
  BY <1>1, <1>3, <1>6 DEF SpeechInv, Pcm, Joining, LastSample
<1>7. ASSUME ~dead' PROVE Recording'
  BY <1>1, <1>3, <1>7 DEF SpeechInv, Undoing, Roles, Recording, At, LastSample
<1>8. ASSUME ~dead' PROVE Sessions'
  BY <1>1, <1>3, <1>8 DEF Sessions, LastSample
<1>9. ASSUME ~dead' PROVE Writing'
  BY <1>1, <1>3, <1>9 DEF Writing
<1>10. ASSUME ~dead' PROVE Hearing'
  BY <1>1, <1>3, <1>10 DEF Undoing, Hearing
<1> QED BY <1>1, <1>2, <1>4, <1>5, <1>6, <1>7, <1>8, <1>9, <1>10 DEF SpeechInv

(* The invariant survives close_recorder in the record thread. *)
LEMMA CloseRecKeeps == ASSUME SpeechInv, Close("rec") PROVE SpeechInv'
<1> USE DEF asrv, recv, hubv, mailv
<1>1. /\ Places'
      /\ \/ pc'["rec"] = "join" /\ pc'["main"] = pc["main"] /\ pc'["lib"] = pc["lib"]
            /\ recorder /\ rec \in Opened
         \/ pc'["rec"] = "free" /\ pc'["main"] = pc["main"] /\ pc'["lib"] = pc["lib"]
            /\ ~(recorder /\ rec \in Opened)
         \/ UNCHANGED pc /\ dead'
  <2>1. CASE Goto("rec", "join") /\ recorder /\ rec \in Opened
    BY <2>1, GotoRec DEF SpeechInv, RecAt, Undoing
  <2>2. CASE Goto("rec", "free") /\ ~(recorder /\ rec \in Opened)
    BY <2>2, GotoRec DEF SpeechInv, RecAt, Undoing
  <2>3. CASE UNCHANGED pc /\ dead'
    BY <2>3 DEF SpeechInv, Places
  <2> QED BY <2>1, <2>2, <2>3 DEF Close, Opened
<1>2. SpeechTypes'
  <2>1. rec' \in Recs /\ cancel' \in BOOLEAN /\ dead' \in BOOLEAN
    BY DEF SpeechInv, SpeechTypes, Recs, Close, Cancel
  <2> QED BY <2>1 DEF SpeechInv, SpeechTypes, Recs, Close
<1>3. ~dead
  BY DEF Close
<1>4. ASSUME ~dead' PROVE Roles'
  BY <1>1, <1>3, <1>4 DEF SpeechInv, Undoing, Roles, Close
<1>5. ASSUME ~dead' PROVE Threads'
  BY <1>1, <1>3, <1>5 DEF SpeechInv, Opened, Threads, Joining, Close
<1>6. ASSUME ~dead' PROVE Pcm'
  BY <1>1, <1>3, <1>6 DEF SpeechInv, Pcm, Joining, Close
<1>7. ASSUME ~dead' PROVE Recording'
  BY <1>1, <1>3, <1>7 DEF SpeechInv, Recording, At, Close
<1>8. ASSUME ~dead' PROVE Sessions'
  BY <1>1, <1>3, <1>8 DEF SpeechInv, Sessions, At, Close
<1>9. ASSUME ~dead' PROVE Writing'
  BY <1>1, <1>3, <1>9 DEF Writing
<1>10. ASSUME ~dead' PROVE Hearing'
  BY <1>1, <1>3, <1>10 DEF Undoing, Hearing
<1> QED BY <1>1, <1>2, <1>4, <1>5, <1>6, <1>7, <1>8, <1>9, <1>10 DEF SpeechInv

(* The invariant survives destroy_recorder in the record thread. *)
LEMMA FreeRecKeeps == ASSUME SpeechInv, Free("rec") PROVE SpeechInv'
<1> USE DEF asrv, recv, hubv, mailv
<1>1. /\ Places'
      /\ \/ pc'["rec"] = "result" /\ pc'["main"] = pc["main"] /\ pc'["lib"] = pc["lib"]
            /\ (~dead' => pc["main"] # "join" /\ pc["lib"] # "join" /\ pc["rec"] # "join")
         \/ pc'["rec"] = "fail" /\ pc'["main"] = pc["main"] /\ pc'["lib"] = pc["lib"]
            /\ (~dead' => pc["main"] # "join" /\ pc["lib"] # "join" /\ pc["rec"] # "join")
         \/ pc'["rec"] = "loop" /\ pc'["main"] = pc["main"] /\ pc'["lib"] = pc["lib"]
            /\ (~dead' => pc["main"] # "join" /\ pc["lib"] # "join" /\ pc["rec"] # "join")
  <2>1. CASE Goto("rec", "result") /\ (~dead' => pc["main"] # "join" /\ pc["lib"] # "join"
     /\ pc["rec"] # "join")
    BY <2>1, GotoRec DEF SpeechInv, RecAt
  <2>2. CASE Goto("rec", "fail") /\ (~dead' => pc["main"] # "join" /\ pc["lib"] # "join"
     /\ pc["rec"] # "join")
    BY <2>2, GotoRec DEF SpeechInv, RecAt
  <2>3. CASE Goto("rec", "loop") /\ (~dead' => pc["main"] # "join" /\ pc["lib"] # "join"
     /\ pc["rec"] # "join")
    BY <2>3, GotoRec DEF SpeechInv, RecAt
  <2> QED BY <2>1, <2>2, <2>3 DEF Free, ReturnsTo, Thread
<1>2. SpeechTypes'
  BY DEF SpeechInv, SpeechTypes, Free, NotWorking
<1>3. ~dead
  BY DEF Free
<1>4. ASSUME ~dead' PROVE Roles'
  BY <1>1, <1>3, <1>4 DEF SpeechInv, Threads, Joining, Free
<1>5. ASSUME ~dead' PROVE Threads'
  BY <1>1, <1>3, <1>5 DEF SpeechInv, Threads, Joining, Free
<1>6. ASSUME ~dead' PROVE Pcm'
  BY <1>1, <1>3, <1>6 DEF SpeechInv, Threads, Joining, Free
<1>7. ASSUME ~dead' PROVE Recording'
  BY <1>1, <1>3, <1>7 DEF SpeechInv, Recording, At, Free
<1>8. ASSUME ~dead' PROVE Sessions'
  BY <1>1, <1>3, <1>8 DEF SpeechInv, Threads, Joining, Free
<1>9. ASSUME ~dead' PROVE Writing'
  BY <1>1, <1>3, <1>9 DEF Writing
<1>10. ASSUME ~dead' PROVE Hearing'
  BY <1>1, <1>3, <1>10 DEF SpeechInv, Threads, Joining, Free
<1> QED BY <1>1, <1>2, <1>4, <1>5, <1>6, <1>7, <1>8, <1>9, <1>10 DEF SpeechInv

(* The invariant survives feedback in the record thread. *)
LEMMA TellRecKeeps == ASSUME SpeechInv, Tell("rec") PROVE SpeechInv'
<1> USE DEF asrv, recv, hubv, mailv
<1>1. /\ Places'
      /\ \/ pc'["rec"] = "check" /\ pc'["main"] = pc["main"] /\ pc'["lib"] = pc["lib"]
  <2>1. CASE Goto("rec", "check")
    BY <2>1, GotoRec DEF SpeechInv, RecAt
  <2> QED BY <2>1 DEF Tell
<1>2. SpeechTypes'
  BY DEF SpeechInv, SpeechTypes, Told, Tell, Feedback
<1>3. ~dead
  BY DEF Tell, Feedback
<1>4. ASSUME ~dead' PROVE Roles'
  BY <1>1, <1>3, <1>4 DEF SpeechInv, Undoing, Roles, Tell
<1>5. ASSUME ~dead' PROVE Threads'
  BY <1>1, <1>3, <1>5 DEF SpeechInv, Threads, Joining, Tell, Feedback
<1>6. ASSUME ~dead' PROVE Pcm'
  BY <1>1, <1>3, <1>6 DEF SpeechInv, Pcm, Joining, Tell, Feedback
<1>7. ASSUME ~dead' PROVE Recording'
  BY <1>1, <1>3, <1>7 DEF SpeechInv, Recording, At, Tell
<1>8. ASSUME ~dead' PROVE Sessions'
  BY <1>1, <1>3, <1>8 DEF SpeechInv, Sessions, At, Tell, Feedback
<1>9. ASSUME ~dead' PROVE Writing'
  BY <1>1, <1>3, <1>9 DEF Writing
<1>10. ASSUME ~dead' PROVE Hearing'
  BY <1>1, <1>3, <1>10 DEF Hearing
<1> QED BY <1>1, <1>2, <1>4, <1>5, <1>6, <1>7, <1>8, <1>9, <1>10 DEF SpeechInv

(* The invariant survives on_asr_error, on_ivw_result in the record        *)
(* thread.                                                                 *)
LEMMA CheckRecKeeps == ASSUME SpeechInv, Check("rec") PROVE SpeechInv'
<1> USE DEF asrv, recv, hubv, mailv
<1>1. /\ Places'
      /\ \/ pc'["rec"] = "halt" /\ pc'["main"] = pc["main"] /\ pc'["lib"] = pc["lib"] /\ working
         \/ pc'["rec"] = "result" /\ pc'["main"] = pc["main"] /\ pc'["lib"] = pc["lib"]
            /\ ~working
         \/ pc'["rec"] = "fail" /\ pc'["main"] = pc["main"] /\ pc'["lib"] = pc["lib"] /\ ~working
         \/ pc'["rec"] = "loop" /\ pc'["main"] = pc["main"] /\ pc'["lib"] = pc["lib"] /\ ~working
  <2>1. CASE Goto("rec", "halt") /\ working
    BY <2>1, GotoRec DEF SpeechInv, RecAt, Undoing
  <2>2. CASE Goto("rec", "result") /\ ~working
    BY <2>2, GotoRec DEF SpeechInv, RecAt
  <2>3. CASE Goto("rec", "fail") /\ ~working
    BY <2>3, GotoRec DEF SpeechInv, RecAt
  <2>4. CASE Goto("rec", "loop") /\ ~working
    BY <2>4, GotoRec DEF SpeechInv, RecAt
  <2> QED BY <2>1, <2>2, <2>3, <2>4, UndoesEffect DEF SpeechInv, Check, ReturnsTo
<1>11. faults' \in SUBSET Fault /\ \A f \in {"drop", "self"} : f \in faults' <=> f \in faults
  BY UndoesEffect DEF SpeechInv, SpeechTypes, Fault, Check
<1>12. faults \cap {"read", "self", "early"} # {} => faults' \cap {"read", "self", "early"} # {}
  BY UndoesEffect DEF SpeechInv, SpeechTypes, Check
<1>2. SpeechTypes'
  <2>1. faults' \in SUBSET Fault
    BY <1>11
  <2>2. again' \in BOOLEAN
    <3>1. CASE working
      BY <3>1 DEF SpeechInv, SpeechTypes, Check
    <3>2. CASE ~working
      <4>1. again' = (again /\ "rec" # "rec")
        BY <3>2, Zenon DEF Check
      <4> QED BY <4>1, Zenon
    <3> QED BY <3>1, <3>2
  <2> QED BY <2>1, <2>2 DEF SpeechInv, SpeechTypes, Check
<1>3. ~dead
  BY DEF Check
<1>4. ASSUME ~dead' PROVE Roles'
  BY <1>1, <1>3, <1>4 DEF SpeechInv, Undoing, Roles, Check
<1>5. ASSUME ~dead' PROVE Threads'
  BY <1>1, <1>3, <1>5 DEF SpeechInv, Threads, Joining, Check
<1>6. ASSUME ~dead' PROVE Pcm'
  BY <1>1, <1>3, <1>6, <1>11 DEF SpeechInv, Pcm, Joining, Check
<1>7. ASSUME ~dead' PROVE Recording'
  BY <1>1, <1>3, <1>7 DEF SpeechInv, Recording, At, Check
<1>8. ASSUME ~dead' PROVE Sessions'
  BY <1>1, <1>3, <1>8, <1>11 DEF SpeechInv, Sessions, At, Check
<1>9. ASSUME ~dead' PROVE Writing'
  BY <1>1, <1>3, <1>9 DEF Writing
<1>10. ASSUME ~dead' PROVE Hearing'
  BY <1>1, <1>3, <1>10, <1>12 DEF Undoing, Hearing, Check
<1> QED BY <1>1, <1>2, <1>4, <1>5, <1>6, <1>7, <1>8, <1>9, <1>10 DEF SpeechInv

(* The invariant survives asr_stop_listening in the library's thread. *)
LEMMA HaltLibKeeps == ASSUME SpeechInv, Halt("lib") PROVE SpeechInv'
<1> USE DEF asrv, recv, hubv, mailv
<1>1. /\ Places'
      /\ \/ pc'["lib"] = "close" /\ pc'["main"] = pc["main"] /\ pc'["rec"] = pc["rec"]
            /\ (state = "INIT" \/ ~recorder \/ "drop" \in faults')
         \/ pc'["lib"] = "quiet" /\ pc'["main"] = pc["main"] /\ pc'["rec"] = pc["rec"]
            /\ rec' # "RECORDING"
  <2>1. CASE Goto("lib", "close") /\ (state = "INIT" \/ ~recorder \/ "drop" \in faults')
    BY <2>1, GotoLib DEF SpeechInv, LibAt, Undoing
  <2>2. CASE Goto("lib", "quiet") /\ rec' # "RECORDING"
    BY <2>2, GotoLib DEF SpeechInv, LibAt, Undoing
  <2> QED BY <2>1, <2>2, StopRecordEffect DEF SpeechInv, Halt
<1>2. SpeechTypes'
  <2>1. UNCHANGED <<rec, faults>> \/ StopRecord
    BY DEF Halt
  <2>2. rec' \in Recs /\ faults' \in SUBSET Fault
    <3>1. CASE UNCHANGED <<rec, faults>>
      BY <3>1 DEF SpeechInv, SpeechTypes, Recs
    <3> QED BY <2>1, <3>1, StopRecordEffect DEF SpeechInv
  <2> QED BY <2>2 DEF SpeechInv, SpeechTypes, Recs, Halt
<1>3. ~dead
  BY DEF Halt
<1>4. ASSUME ~dead' PROVE Roles'
  BY <1>1, <1>3, <1>4 DEF SpeechInv, Undoing, Roles, Halt
<1>5. ASSUME ~dead' PROVE Threads'
  BY <1>1, <1>3, <1>5 DEF SpeechInv, Opened, Threads, Joining, Halt, StopRecord
<1>6. ASSUME ~dead' PROVE Pcm'
  BY <1>1, <1>3, <1>6 DEF SpeechInv, Opened, Pcm, Joining, Halt, StopRecord
<1>7. ASSUME ~dead' PROVE Recording'
  BY <1>1, <1>3, <1>7 DEF SpeechInv, Recording, At, Halt, StopRecord
<1>8. ASSUME ~dead' PROVE Sessions'
  BY <1>1, <1>3, <1>8 DEF SpeechInv, Undoing, Roles, Sessions, At, Halt, StopRecord
<1>9. ASSUME ~dead' PROVE Writing'
  BY <1>1, <1>3, <1>9 DEF SpeechInv, Writing, Halt
<1>10. ASSUME ~dead' PROVE Hearing'
  BY <1>1, <1>3, <1>10 DEF SpeechInv, Undoing, Roles, Hearing, Halt
<1> QED BY <1>1, <1>2, <1>4, <1>5, <1>6, <1>7, <1>8, <1>9, <1>10 DEF SpeechInv

(* The invariant survives wait_for_rec_stop in the library's thread. *)
LEMMA QuietLibKeeps == ASSUME SpeechInv, Quiet("lib") PROVE SpeechInv'
<1> USE DEF asrv, recv, hubv, mailv
<1>1. /\ Places'
      /\ \/ pc'["lib"] = "last" /\ pc'["main"] = pc["main"] /\ pc'["rec"] = pc["rec"]
         \/ UNCHANGED pc /\ dead'
  <2>1. CASE Goto("lib", "last")
    BY <2>1, GotoLib DEF SpeechInv, LibAt, Undoing
  <2>2. CASE UNCHANGED pc /\ dead'
    BY <2>2 DEF SpeechInv, Places
  <2> QED BY <2>1, <2>2 DEF Quiet
<1>2. SpeechTypes'
  <2>1. CASE Answers
    BY <2>1 DEF SpeechInv, SpeechTypes, Quiet
  <2>2. CASE ~Answers
    BY <2>2 DEF SpeechInv, SpeechTypes, Quiet
  <2> QED BY <2>1, <2>2
<1>3. ~dead
  BY DEF Quiet
<1>4. ASSUME ~dead' PROVE Roles'
  BY <1>1, <1>3, <1>4 DEF SpeechInv, Undoing, Roles, Quiet
<1>5. ASSUME ~dead' PROVE Threads'
  BY <1>1, <1>3, <1>5 DEF SpeechInv, Threads, Joining, Quiet
<1>6. ASSUME ~dead' PROVE Pcm'
  BY <1>1, <1>3, <1>6 DEF SpeechInv, Pcm, Joining, Quiet
<1>7. ASSUME ~dead' PROVE Recording'
  BY <1>1, <1>3, <1>7 DEF SpeechInv, Recording, At, Quiet
<1>8. ASSUME ~dead' PROVE Sessions'
  BY <1>1, <1>3, <1>8 DEF SpeechInv, Sessions, At, Quiet
<1>9. ASSUME ~dead' PROVE Writing'
  BY <1>1, <1>3, <1>9 DEF SpeechInv, Writing, Quiet
<1>10. ASSUME ~dead' PROVE Hearing'
  BY <1>1, <1>3, <1>10 DEF SpeechInv, Undoing, Hearing, Quiet
<1> QED BY <1>1, <1>2, <1>4, <1>5, <1>6, <1>7, <1>8, <1>9, <1>10 DEF SpeechInv

(* The invariant survives the end of the session by the library's thread. *)
LEMMA LastLibKeeps == ASSUME SpeechInv, LastSample("lib") PROVE SpeechInv'
<1> USE DEF asrv, recv, hubv, mailv
<1>1. /\ Places'
      /\ \/ pc'["lib"] = "close" /\ pc'["main"] = pc["main"] /\ pc'["rec"] = pc["rec"]
  <2>1. CASE Goto("lib", "close")
    BY <2>1, GotoLib DEF SpeechInv, LibAt, Undoing
  <2> QED BY <2>1 DEF LastSample
<1>2. SpeechTypes'
  BY DEF SpeechInv, SpeechTypes, LastSample
<1>3. ~dead
  BY DEF LastSample
<1>4. ASSUME ~dead' PROVE Roles'
  BY <1>1, <1>3, <1>4 DEF SpeechInv, Undoing, Roles, LastSample
<1>5. ASSUME ~dead' PROVE Threads'
  BY <1>1, <1>3, <1>5 DEF SpeechInv, Threads, Joining, LastSample
<1>6. ASSUME ~dead' PROVE Pcm'
  BY <1>1, <1>3, <1>6 DEF SpeechInv, Pcm, Joining, LastSample
<1>7. ASSUME ~dead' PROVE Recording'
  BY <1>1, <1>3, <1>7 DEF SpeechInv, Undoing, Roles, Recording, At, LastSample
<1>8. ASSUME ~dead' PROVE Sessions'
  BY <1>1, <1>3, <1>8 DEF Sessions, LastSample
<1>9. ASSUME ~dead' PROVE Writing'
  BY <1>1, <1>3, <1>9 DEF SpeechInv, Recording, Writing, At, LastSample
<1>10. ASSUME ~dead' PROVE Hearing'
  BY <1>1, <1>3, <1>10 DEF SpeechInv, Undoing, Hearing, LastSample
<1> QED BY <1>1, <1>2, <1>4, <1>5, <1>6, <1>7, <1>8, <1>9, <1>10 DEF SpeechInv

(* The invariant survives close_recorder in the library's thread. *)
LEMMA CloseLibKeeps == ASSUME SpeechInv, Close("lib") PROVE SpeechInv'
<1> USE DEF asrv, recv, hubv, mailv
<1>1. /\ Places'
      /\ \/ pc'["lib"] = "join" /\ pc'["main"] = pc["main"] /\ pc'["rec"] = pc["rec"]
            /\ recorder /\ rec \in Opened
         \/ pc'["lib"] = "free" /\ pc'["main"] = pc["main"] /\ pc'["rec"] = pc["rec"]
            /\ ~(recorder /\ rec \in Opened)
         \/ UNCHANGED pc /\ dead'
  <2>1. CASE Goto("lib", "join") /\ recorder /\ rec \in Opened
    BY <2>1, GotoLib DEF SpeechInv, LibAt, Undoing
  <2>2. CASE Goto("lib", "free") /\ ~(recorder /\ rec \in Opened)
    BY <2>2, GotoLib DEF SpeechInv, LibAt, Undoing
  <2>3. CASE UNCHANGED pc /\ dead'
    BY <2>3 DEF SpeechInv, Places
  <2> QED BY <2>1, <2>2, <2>3 DEF Close, Opened
<1>2. SpeechTypes'
  <2>1. rec' \in Recs /\ cancel' \in BOOLEAN /\ dead' \in BOOLEAN
    BY DEF SpeechInv, SpeechTypes, Recs, Close, Cancel
  <2> QED BY <2>1 DEF SpeechInv, SpeechTypes, Recs, Close
<1>3. ~dead
  BY DEF Close
<1>4. ASSUME ~dead' PROVE Roles'
  BY <1>1, <1>3, <1>4 DEF SpeechInv, Undoing, Roles, Close
<1>5. ASSUME ~dead' PROVE Threads'
  BY <1>1, <1>3, <1>5 DEF SpeechInv, Undoing, Opened, Roles, Threads, Joining, Close
<1>6. ASSUME ~dead' PROVE Pcm'
  BY <1>1, <1>3, <1>6 DEF SpeechInv, Pcm, Joining, Close
<1>7. ASSUME ~dead' PROVE Recording'
  BY <1>1, <1>3, <1>7 DEF SpeechInv, Recording, At, Close
<1>8. ASSUME ~dead' PROVE Sessions'
  BY <1>1, <1>3, <1>8 DEF SpeechInv, Sessions, At, Close
<1>9. ASSUME ~dead' PROVE Writing'
  BY <1>1, <1>3, <1>9 DEF SpeechInv, Threads, Writing, Joining, Close
<1>10. ASSUME ~dead' PROVE Hearing'
  BY <1>1, <1>3, <1>10 DEF SpeechInv, Undoing, Roles, Hearing, Close
<1> QED BY <1>1, <1>2, <1>4, <1>5, <1>6, <1>7, <1>8, <1>9, <1>10 DEF SpeechInv

(* The invariant survives close_recorder_internal in the library's thread. *)
LEMMA JoinLibKeeps == ASSUME SpeechInv, Join("lib") PROVE SpeechInv'
<1> USE DEF asrv, recv, hubv, mailv
<1>1. /\ Places'
      /\ \/ pc'["lib"] = "free" /\ pc'["main"] = pc["main"] /\ pc'["rec"] = pc["rec"]
  <2>1. CASE Goto("lib", "free")
    BY <2>1, GotoLib DEF SpeechInv, LibAt, Undoing
  <2> QED BY <2>1 DEF Join
<1>2. SpeechTypes'
  BY DEF SpeechInv, SpeechTypes, Join
<1>3. ~dead
  BY DEF Join
<1>4. ASSUME ~dead' PROVE Roles'
  BY <1>1, <1>3, <1>4 DEF SpeechInv, Undoing, Roles, Join
<1>5. ASSUME ~dead' PROVE Threads'
  BY <1>1, <1>3, <1>5 DEF SpeechInv, Undoing, Opened, Roles, Threads, Joining, Join, Quit
<1>6. ASSUME ~dead' PROVE Pcm'
  BY <1>1, <1>3, <1>6 DEF Pcm, Join
<1>7. ASSUME ~dead' PROVE Recording'
  BY <1>1, <1>3, <1>7 DEF SpeechInv, Recording, At, Join
<1>8. ASSUME ~dead' PROVE Sessions'
  BY <1>1, <1>3, <1>8 DEF SpeechInv, Sessions, Join, Quit
<1>9. ASSUME ~dead' PROVE Writing'
  BY <1>1, <1>3, <1>9 DEF Writing, Join, Quit
<1>10. ASSUME ~dead' PROVE Hearing'
  BY <1>1, <1>3, <1>10 DEF SpeechInv, Undoing, Hearing, Join, Quit
<1> QED BY <1>1, <1>2, <1>4, <1>5, <1>6, <1>7, <1>8, <1>9, <1>10 DEF SpeechInv

(* The invariant survives destroy_recorder in the library's thread. *)
LEMMA FreeLibKeeps == ASSUME SpeechInv, Free("lib") PROVE SpeechInv'
<1> USE DEF asrv, recv, hubv, mailv
<1>1. /\ Places'
      /\ \/ pc'["lib"] = "none" /\ pc'["main"] = pc["main"] /\ pc'["rec"] = pc["rec"]
            /\ (~dead' => pc["main"] # "join" /\ pc["lib"] # "join" /\ pc["rec"] # "join")
  <2>1. CASE Goto("lib", "none") /\ (~dead' => pc["main"] # "join" /\ pc["lib"] # "join"
     /\ pc["rec"] # "join")
    BY <2>1, GotoLib DEF SpeechInv, LibAt
  <2> QED BY <2>1 DEF Free, ReturnsTo, Thread
<1>2. SpeechTypes'
  BY DEF SpeechInv, SpeechTypes, Free, NotWorking
<1>3. ~dead
  BY DEF Free
<1>4. ASSUME ~dead' PROVE Roles'
  BY <1>1, <1>3, <1>4 DEF SpeechInv, Undoing, Roles, Threads, Free, NotWorking
<1>5. ASSUME ~dead' PROVE Threads'
  BY <1>1, <1>3, <1>5 DEF SpeechInv, Undoing, Roles, Threads, Joining, Free
<1>6. ASSUME ~dead' PROVE Pcm'
  BY <1>1, <1>3, <1>6 DEF SpeechInv, Threads, Pcm, Joining, Free
<1>7. ASSUME ~dead' PROVE Recording'
  BY <1>1, <1>3, <1>7 DEF SpeechInv, Recording, At, Free
<1>8. ASSUME ~dead' PROVE Sessions'
  BY <1>1, <1>3, <1>8 DEF SpeechInv, Sessions, At, Free
<1>9. ASSUME ~dead' PROVE Writing'
  BY <1>1, <1>3, <1>9 DEF SpeechInv, Writing, Free
<1>10. ASSUME ~dead' PROVE Hearing'
  BY <1>1, <1>3, <1>10 DEF SpeechInv, Threads, Hearing, Free, NotWorking
<1> QED BY <1>1, <1>2, <1>4, <1>5, <1>6, <1>7, <1>8, <1>9, <1>10 DEF SpeechInv

(* The invariant survives feedback in the library's thread. *)
LEMMA TellLibKeeps == ASSUME SpeechInv, Tell("lib") PROVE SpeechInv'
<1> USE DEF asrv, recv, hubv, mailv
<1>1. /\ Places'
      /\ \/ pc'["lib"] = "check" /\ pc'["main"] = pc["main"] /\ pc'["rec"] = pc["rec"]
  <2>1. CASE Goto("lib", "check")
    BY <2>1, GotoLib DEF SpeechInv, LibAt
  <2> QED BY <2>1 DEF Tell
<1>2. SpeechTypes'
  BY DEF SpeechInv, SpeechTypes, Told, Tell, Feedback
<1>3. ~dead
  BY DEF Tell, Feedback
<1>4. ASSUME ~dead' PROVE Roles'
  BY <1>1, <1>3, <1>4 DEF SpeechInv, Undoing, Roles, Tell, Feedback
<1>5. ASSUME ~dead' PROVE Threads'
  BY <1>1, <1>3, <1>5 DEF SpeechInv, Threads, Joining, Tell, Feedback
<1>6. ASSUME ~dead' PROVE Pcm'
  BY <1>1, <1>3, <1>6 DEF SpeechInv, Pcm, Joining, Tell, Feedback
<1>7. ASSUME ~dead' PROVE Recording'
  BY <1>1, <1>3, <1>7 DEF SpeechInv, Recording, At, Tell
<1>8. ASSUME ~dead' PROVE Sessions'
  BY <1>1, <1>3, <1>8 DEF SpeechInv, Sessions, At, Tell, Feedback
<1>9. ASSUME ~dead' PROVE Writing'
  BY <1>1, <1>3, <1>9 DEF SpeechInv, Writing, Tell, Feedback
<1>10. ASSUME ~dead' PROVE Hearing'
  BY <1>1, <1>3, <1>10 DEF SpeechInv, Undoing, Hearing, Tell, Feedback
<1> QED BY <1>1, <1>2, <1>4, <1>5, <1>6, <1>7, <1>8, <1>9, <1>10 DEF SpeechInv

(* The invariant survives on_asr_error, on_ivw_result in the library's     *)
(* thread.                                                                 *)
LEMMA CheckLibKeeps == ASSUME SpeechInv, Check("lib") PROVE SpeechInv'
<1> USE DEF asrv, recv, hubv, mailv
<1>1. /\ Places'
      /\ \/ pc'["lib"] = "halt" /\ pc'["main"] = pc["main"] /\ pc'["rec"] = pc["rec"] /\ working
         \/ pc'["lib"] = "none" /\ pc'["main"] = pc["main"] /\ pc'["rec"] = pc["rec"] /\ ~working
  <2>1. CASE Goto("lib", "halt") /\ working
    BY <2>1, GotoLib DEF SpeechInv, LibAt, Undoing
  <2>2. CASE Goto("lib", "none") /\ ~working
    BY <2>2, GotoLib DEF SpeechInv, LibAt
  <2> QED BY <2>1, <2>2, UndoesEffect DEF SpeechInv, Check, ReturnsTo
<1>11. faults' \in SUBSET Fault /\ \A f \in {"drop", "self"} : f \in faults' <=> f \in faults
  BY UndoesEffect DEF SpeechInv, SpeechTypes, Fault, Check
<1>12. faults \cap {"read", "self", "early"} # {} => faults' \cap {"read", "self", "early"} # {}
  BY UndoesEffect DEF SpeechInv, SpeechTypes, Check
<1>2. SpeechTypes'
  <2>1. faults' \in SUBSET Fault
    BY <1>11
  <2>2. again' \in BOOLEAN
    <3>1. CASE working
      BY <3>1 DEF SpeechInv, SpeechTypes, Check
    <3>2. CASE ~working
      <4>1. again' = (again /\ "lib" # "rec")
        BY <3>2, Zenon DEF Check
      <4> QED BY <4>1, Zenon
    <3> QED BY <3>1, <3>2
  <2> QED BY <2>1, <2>2 DEF SpeechInv, SpeechTypes, Check
<1>3. ~dead
  BY DEF Check
<1>4. ASSUME ~dead' PROVE Roles'
  BY <1>1, <1>3, <1>4 DEF SpeechInv, Places, MainAt, Undoing, Roles, Check
<1>5. ASSUME ~dead' PROVE Threads'
  BY <1>1, <1>3, <1>5 DEF SpeechInv, Threads, Joining, Check
<1>6. ASSUME ~dead' PROVE Pcm'
  BY <1>1, <1>3, <1>6, <1>11 DEF SpeechInv, Pcm, Joining, Check
<1>7. ASSUME ~dead' PROVE Recording'
  BY <1>1, <1>3, <1>7 DEF SpeechInv, Recording, At, Check
<1>8. ASSUME ~dead' PROVE Sessions'
  BY <1>1, <1>3, <1>8, <1>11 DEF SpeechInv, Sessions, At, Check
<1>9. ASSUME ~dead' PROVE Writing'
  BY <1>1, <1>3, <1>9 DEF SpeechInv, Writing, Check
<1>10. ASSUME ~dead' PROVE Hearing'
  BY <1>1, <1>3, <1>10, <1>12 DEF SpeechInv, Undoing, Hearing, Check
<1> QED BY <1>1, <1>2, <1>4, <1>5, <1>6, <1>7, <1>8, <1>9, <1>10 DEF SpeechInv

(* The invariant survives a start, with asr_init or ivw_init. *)
LEMMA TakeStartKeeps == ASSUME SpeechInv, TakeStart PROVE SpeechInv'
<1> USE DEF asrv, recv, hubv, mailv
<1>1. /\ Places'
      /\ \/ UNCHANGED pc /\ UNCHANGED recorder
         \/ recorder' /\ pc'["main"] = "begin" /\ pc'["rec"] = "loop"
            /\ pc'["lib"] = pc["lib"] /\ rec' = "READY"
         \/ recorder' /\ pc'["main"] = "begin" /\ pc'["rec"] = "none"
            /\ pc'["lib"] = pc["lib"] /\ rec' = "CREATED"
  <2>1. CASE UNCHANGED <<pc, state, session, recorder, rec, hdl, cancel, faults>>
    BY <2>1 DEF SpeechInv, Places
  <2>2. CASE Initialised
    <3>1. PICK ok \in BOOLEAN :
            /\ rec' = IF ok THEN "READY" ELSE "CREATED"
            /\ pc' = [pc EXCEPT !["main"] = "begin", !["rec"] = IF ok THEN "loop" ELSE "none"]
      BY <2>2 DEF Initialised, OpenRecorder
    <3>0. recorder'
      BY <2>2, Zenon DEF Initialised
    <3>2. CASE ok
      <4>1. pc' = [pc EXCEPT !["main"] = "begin", !["rec"] = "loop"] /\ rec' = "READY"
        BY <3>1, <3>2
      <4> QED BY <3>0, <4>1 DEF SpeechInv, Places, Place, Thread, MainAt, RecAt
    <3>3. CASE ~ok
      <4>1. pc' = [pc EXCEPT !["main"] = "begin", !["rec"] = "none"] /\ rec' = "CREATED"
        BY <3>1, <3>3
      <4> QED BY <3>0, <4>1 DEF SpeechInv, Places, Place, Thread, MainAt, RecAt
    <3> QED BY <3>2, <3>3
  <2> QED BY <2>1, <2>2 DEF TakeStart
<1>2. SpeechTypes'
  <2>1. CASE UNCHANGED <<pc, state, session, recorder, rec, hdl, cancel, faults>>
    BY <2>1 DEF SpeechInv, SpeechTypes, TakeStart, Takes
  <2>2. CASE Initialised
    <3>1. rec' \in Recs /\ hdl' \in BOOLEAN /\ faults' \in SUBSET Fault
      BY <2>2 DEF Initialised, OpenRecorder, ParamsTaken, Recs, Opened, Fault
    <3>2. recorder' = TRUE /\ cancel' = FALSE /\ state' = "INIT" /\ session' = "null"
      BY <2>2, Zenon DEF Initialised
    <3>3. /\ mail \in Seq(Command) /\ mail # <<>> /\ mail' = Tail(mail)
          /\ UNCHANGED <<kind, cmds, working, again, hub, fb, dead>>
      BY DEF SpeechInv, SpeechTypes, TakeStart, Takes
    <3>4. mail' \in Seq(Command)
      BY <3>3
    <3> QED BY <3>1, <3>2, <3>3, <3>4 DEF SpeechInv, SpeechTypes, Recs
  <2> QED BY <2>1, <2>2 DEF TakeStart
<1>3. ~dead
  BY DEF TakeStart, Takes
<1>4. ASSUME ~dead' PROVE Roles'
  BY <1>1, <1>3, <1>4 DEF SpeechInv, Undoing, Roles, TakeStart
<1>5. ASSUME ~dead' PROVE Threads'
  BY <1>1, <1>3, <1>5 DEF SpeechInv, Undoing, Opened, Roles, Threads, Joining, TakeStart, Takes,
     Initialised
<1>6. ASSUME ~dead' PROVE Pcm'
  BY <1>1, <1>3, <1>6 DEF SpeechInv, Opened, Pcm, Joining, TakeStart, Initialised, OpenRecorder
<1>7. ASSUME ~dead' PROVE Recording'
  BY <1>1, <1>3, <1>7 DEF SpeechInv, Recording, At, TakeStart, Takes, Initialised, OpenRecorder
<1>8. ASSUME ~dead' PROVE Sessions'
  BY <1>1, <1>3, <1>8 DEF SpeechInv, Sessions, At, TakeStart, Initialised
<1>9. ASSUME ~dead' PROVE Writing'
  BY <1>1, <1>3, <1>9 DEF Writing, TakeStart
<1>10. ASSUME ~dead' PROVE Hearing'
  BY <1>1, <1>3, <1>10 DEF Hearing, TakeStart, Takes
<1> QED BY <1>1, <1>2, <1>4, <1>5, <1>6, <1>7, <1>8, <1>9, <1>10 DEF SpeechInv

(* The invariant survives commands that change nothing. *)
LEMMA TakeOtherKeeps == ASSUME SpeechInv, TakeOther PROVE SpeechInv'
<1> USE DEF asrv, recv, hubv, mailv
<1>1. /\ Places'
      /\ \/ UNCHANGED pc
  <2>1. CASE UNCHANGED pc
    BY <2>1 DEF SpeechInv, Places
  <2> QED BY <2>1 DEF TakeOther
<1>2. SpeechTypes'
  BY DEF SpeechInv, SpeechTypes, TakeOther, Takes
<1>3. ~dead
  BY DEF TakeOther, Takes
<1>4. ASSUME ~dead' PROVE Roles'
  BY <1>1, <1>3, <1>4 DEF SpeechInv, Roles, TakeOther
<1>5. ASSUME ~dead' PROVE Threads'
  BY <1>1, <1>3, <1>5 DEF SpeechInv, Threads, Joining, TakeOther
<1>6. ASSUME ~dead' PROVE Pcm'
  BY <1>1, <1>3, <1>6 DEF SpeechInv, Pcm, Joining, TakeOther
<1>7. ASSUME ~dead' PROVE Recording'
  BY <1>1, <1>3, <1>7 DEF SpeechInv, Recording, At, TakeOther
<1>8. ASSUME ~dead' PROVE Sessions'
  BY <1>1, <1>3, <1>8 DEF SpeechInv, Sessions, At, TakeOther
<1>9. ASSUME ~dead' PROVE Writing'
  BY <1>1, <1>3, <1>9 DEF SpeechInv, Writing, TakeOther
<1>10. ASSUME ~dead' PROVE Hearing'
  BY <1>1, <1>3, <1>10 DEF SpeechInv, Hearing, TakeOther
<1> QED BY <1>1, <1>2, <1>4, <1>5, <1>6, <1>7, <1>8, <1>9, <1>10 DEF SpeechInv

(* The invariant survives the hub's audio thread. *)
LEMMA HubReadKeeps == ASSUME SpeechInv, HubRead PROVE SpeechInv'
<1>1. /\ UNCHANGED <<kind, mail, cmds, pc, working, state, session, recorder, rec, hdl, cancel>>
      /\ UNCHANGED <<again, dead, faults>>
  BY DEF HubRead, mailv, asrv, recv
<1>2. hub' \in {"on", "dead"}
  BY Zenon DEF HubRead
<1>3. fb' \in Seq(Told)
  BY DEF SpeechInv, SpeechTypes, HubRead
<1>4. SpeechTypes'
  BY <1>1, <1>2, <1>3 DEF SpeechInv, SpeechTypes, Opened
<1>5. Places'
  BY <1>1 DEF SpeechInv, Places
<1>6. (~dead => Roles /\ Threads /\ Pcm /\ Recording /\ Sessions /\ Writing /\ Hearing)'
  BY <1>1 DEF SpeechInv, Roles, Threads, Pcm, Recording, Sessions, Writing, Hearing, Joining, At
<1> QED BY <1>4, <1>5, <1>6 DEF SpeechInv

(* The invariant survives a command of a client. *)
LEMMA SendKeeps == ASSUME SpeechInv, NEW k \in Command, Send(k) PROVE SpeechInv'
<1>1. /\ UNCHANGED <<kind, pc, working, state, session, recorder, rec, hdl, cancel>>
      /\ UNCHANGED <<again, hub, fb, dead, faults>>
  BY DEF Send, asrv, recv, hubv
<1>2. mail' \in Seq(Command) /\ cmds' \in Nat
  BY DEF SpeechInv, SpeechTypes, Send
<1>3. SpeechTypes'
  BY <1>1, <1>2 DEF SpeechInv, SpeechTypes, Opened
<1>4. Places'
  BY <1>1 DEF SpeechInv, Places
<1>5. (~dead => Roles /\ Threads /\ Pcm /\ Recording /\ Sessions /\ Writing /\ Hearing)'
  BY <1>1 DEF SpeechInv, Roles, Threads, Pcm, Recording, Sessions, Writing, Hearing, Joining, At
<1> QED BY <1>3, <1>4, <1>5 DEF SpeechInv

(* The invariant survives a step that changes nothing here. *)
LEMMA StutterKeeps == ASSUME SpeechInv, UNCHANGED spVars PROVE SpeechInv'
<1>1. /\ UNCHANGED <<kind, mail, cmds, pc, working, state, session, recorder, rec, hdl, cancel>>
      /\ UNCHANGED <<again, hub, fb, dead, faults>>
  BY DEF spVars, mailv, asrv, recv, hubv
<1>2. SpeechTypes'
  BY <1>1 DEF SpeechInv, SpeechTypes, Opened
<1>3. Places'
  BY <1>1 DEF SpeechInv, Places
<1>4. (~dead => Roles /\ Threads /\ Pcm /\ Recording /\ Sessions /\ Writing /\ Hearing)'
  BY <1>1 DEF SpeechInv, Roles, Threads, Pcm, Recording, Sessions, Writing, Hearing, Joining, At
<1> QED BY <1>2, <1>3, <1>4 DEF SpeechInv

(* The daemon starts in the invariant. *)
LEMMA SpeechStarts == SpInit => SpeechInv
<1> SUFFICES ASSUME SpInit PROVE SpeechInv
  OBVIOUS
<1>1. Places
  BY DEF SpInit, Places, Place, Thread, MainAt, RecAt, LibAt
<1>2. SpeechTypes
  <2>1. kind \in {"asr", "awaken"} /\ mail \in Seq(Command) /\ cmds \in Nat /\ fb \in Seq(Told)
    BY SpeechAssumption DEF SpInit
  <2>2. /\ working \in BOOLEAN /\ recorder \in BOOLEAN /\ hdl \in BOOLEAN /\ again \in BOOLEAN
        /\ cancel \in BOOLEAN /\ dead \in BOOLEAN
    BY Zenon DEF SpInit
  <2>3. /\ state = "INIT" /\ session = "null" /\ rec = "none" /\ hub = "on" /\ faults = {}
    BY DEF SpInit
  <2> QED BY <2>1, <2>2, <2>3 DEF SpeechTypes
<1>3. pc["main"] = "idle" /\ pc["rec"] = "none" /\ pc["lib"] = "none"
  BY DEF SpInit
<1>4. ~recorder /\ ~working /\ ~cancel /\ ~hdl /\ rec = "none" /\ session = "null"
   /\ state = "INIT"
  BY DEF SpInit
<1>5. Roles /\ Threads /\ Pcm /\ Recording /\ Sessions /\ Writing /\ Hearing
  BY <1>3, <1>4 DEF Roles, Threads, Pcm, Recording, Sessions, Writing, Hearing, Joining, At,
     Undoing, Opened
<1> QED BY <1>1, <1>2, <1>5 DEF SpeechInv

(* The invariant survives what undoes a listening, in any thread. *)
LEMMA UndoKeeps == ASSUME SpeechInv, NEW p \in Thread, Undo(p) PROVE SpeechInv'
<1>1. CASE p = "main"
  BY <1>1, HaltMainKeeps, QuietMainKeeps, LastMainKeeps, CloseMainKeeps, JoinMainKeeps,
     FreeMainKeeps DEF Undo
<1>2. CASE p = "rec"
  BY <1>2, HaltRecKeeps, QuietRecKeeps, LastRecKeeps, CloseRecKeeps, FreeRecKeeps DEF Undo, Join
<1>3. CASE p = "lib"
  BY <1>3, HaltLibKeeps, QuietLibKeeps, LastLibKeeps, CloseLibKeeps, JoinLibKeeps,
     FreeLibKeeps DEF Undo
<1> QED BY <1>1, <1>2, <1>3 DEF Thread

(* The invariant survives a step of the main thread. *)
LEMMA MainKeeps == ASSUME SpeechInv, MainStep PROVE SpeechInv'
BY TakeOtherKeeps, TakeStartKeeps, TakeStopKeeps, BeginKeeps, BeginIvwKeeps, StartRecordKeeps,
   MarkStartedKeeps, MarkWorkingKeeps, UndoKeeps
   DEF MainStep, Thread

(* The invariant survives a step of the record thread. *)
LEMMA RecKeeps == ASSUME SpeechInv, RecStep PROVE SpeechInv'
BY RecLoopKeeps, PcmReadKeeps, CallbackKeeps, AsrWriteKeeps, IvwWriteKeeps, GetResultKeeps,
   EndOnErrorKeeps, EndSessionKeeps,
   TellRecKeeps, CheckRecKeeps, ReportKeeps, SelfStopKeeps, SelfJoinKeeps,
      UndoKeeps DEF RecStep, Thread

(* The invariant survives a step of the library's thread. *)
LEMMA LibKeeps == ASSUME SpeechInv, LibStep PROVE SpeechInv'
BY TellLibKeeps, CheckLibKeeps, UndoKeeps DEF LibStep, Thread

(* Every step keeps it. *)
LEMMA SpeechStep == SpeechInv /\ [SpNext]_spVars => SpeechInv'
BY StutterKeeps, SendKeeps, MainKeeps, RecKeeps, LibKeeps, IvwMessageKeeps, CancelledKeeps,
   HubReadKeeps DEF SpNext, Command

(* The invariant holds for either daemon, sockets of any length and any    *)
(* number of commands.                                                     *)
THEOREM SpeechInvariant == SpSpec => []SpeechInv
BY SpeechStarts, SpeechStep, PTL DEF SpSpec

(* When a daemon does not work, nothing is left of a listening, except the *)
(* session of a PCM that could not be stopped and the PCM of a record      *)
(* thread that closed its own recorder.                                    *)
THEOREM NothingIsLeft == SpSpec => []IdleIsClean
<1>1. SpeechInv => IdleIsClean
  BY DEF SpeechInv, Places, MainAt, RecAt, LibAt, Undoing, Opened, Resting, IdleIsClean, Roles,
     Threads, Pcm, Sessions,
     At, Joining
<1> QED BY <1>1, SpeechInvariant, PTL

(* A daemon that says it works listens, or its record thread deals with    *)
(* what it heard or undoes the listening, or a read failed or hangs, the   *)
(* record thread closed its own recorder, or something was reported before *)
(* working was set.                                                        *)
THEOREM WorkingHears == SpSpec => []DeafOnlyAfterFault
<1>1. SpeechInv => DeafOnlyAfterFault
  BY DEF SpeechInv, Places, RecAt, Resting, DeafOnlyAfterFault, HearsAt, Busy, Hearing, Recording,
     Undoing
<1> QED BY <1>1, SpeechInvariant, PTL

(* Audio is written to a session that has ended only while another thread  *)
(* undoes the listening and waits for the record thread.                   *)
THEOREM NoLateWrites == SpSpec => []LateWriteOnlyInStop
<1>1. SpeechInv => LateWriteOnlyInStop
  BY DEF SpeechInv, LateWriteOnlyInStop, Writing
<1> QED BY <1>1, SpeechInvariant, PTL
=============================================================================
