------------------------------ MODULE Automation ------------------------------
(***************************************************************************)
(* What happens without a client watching: scenes run in the threads of a  *)
(* pool (scene.c), events of devices trigger linkages, and the async       *)
(* thread carries out what both ask for, one request after the other       *)
(* (device.c), over UDP to Wi-Fi devices (driver_virtual_switch.c), whose  *)
(* own packets the monitor thread handles.                                 *)
(*                                                                         *)
(* The hub remembers the values of a device: those that it set and those   *)
(* the device reported. Conditions of scenes look at what it remembers.    *)
(* Both the async thread, once a device has answered, and the monitor      *)
(* write that, and both set the work mode, without a lock.                 *)
(*                                                                         *)
(* An infrared appliance (driver_ir.c) is set through a Wi-Fi device that  *)
(* can send infrared. It cannot answer or report: the hub remembers what   *)
(* it had sent, or tried to.                                               *)
(*                                                                         *)
(* Packets of one device are lost but stay in order. The seconds that a    *)
(* scene sleeps are added up; how long other things take meanwhile is left *)
(* open. Registration is one step: see RegistryThreads. Appliances are     *)
(* neither added nor deleted meanwhile: see DeviceRegistry.                *)
(***************************************************************************)
EXTENDS Infrared, Queues, SequencesExt, FiniteSets

CONSTANTS
  Dev,      \* devices, infrared appliances among them
  Box,      \* device id 0: the hub itself, which has the work mode
  Value,    \* what each value of a device may be: a function of both
  Mode,     \* work modes
  Worker,   \* threads of the pool
  Scene, Actions, \* the scenes and what each does
  Event, Links,   \* what devices report, and the linkages of each
  DevModes, \* the modes in which a device's linkages count at all
  Wanted,   \* bound: the scenes that may be entered first, second and so on
  MaxRun, MaxUnasked, MaxLost, MaxAll  \* bounds: runs; changes by hand and absences; losses; all

VARIABLES
  pool,      \* copies of scenes that wait for a thread
  run,       \* what each thread runs
  fifo,      \* async_thread_ctl
  async,     \* the request of the async thread, and how far it has come
  real,      \* the values of the devices
  cache,     \* what the hub remembers of them
  online,
  packets,   \* on their way to the monitor
  monitor,   \* the mode that the monitor is about to announce
  mode, announced, \* the work mode, and what clients were told last
  count,     \* how often the bounded things have happened
  acted,     \* history: the actions that each run has begun
  carried,   \* history: its requests that the async thread has taken
  doubtful,  \* history: values that the hub may have missed
  byHand,    \* history: values changed by hand since the async thread's device answered
  modeRace   \* history: two threads set the mode at once

requests == <<fifo, async, carried>>
devices == <<real, cache, online, packets, doubtful, byHand>>
modes == <<monitor, mode, announced, modeRace>>
scenes == <<pool, run, acted>>
vars == <<scenes, requests, devices, modes, count>>

Key == DOMAIN Value
Wifi == Dev \ Ir

IsList(q) == q \in Seq(ToSet(q))

ASSUME AutomationAssumption ==
  /\ Ir \subseteq Dev /\ Ac \cap Stb = {} /\ Box \notin Dev
  /\ RemoteOf \in [Ir -> Wifi]
  /\ Key \subseteq Dev \X Nat /\ \A k \in Key : Value[k] \subseteq Nat
  /\ \A s \in Scene : IsList(Actions[s]) /\ \A i \in DOMAIN Actions[s] :
       Actions[s][i].delay \in Nat /\ IsList(Actions[s][i].acts)
  /\ \A d \in Dev : IsList(Links[d])
  /\ MaxRun \in Nat /\ MaxUnasked \in Nat /\ MaxLost \in Nat

-----------------------------------------------------------------------------
(* Data. *)
NoCond == [dev |-> Box, id |-> 0, expr |-> "=", val |-> 0]
Idle == [id |-> 0, scene |-> 0, at |-> 0, delay |-> 0, slept |-> 0, step |-> "idle", todo |-> <<>>]
Resting == [step |-> "idle", req |-> [by |-> 0, dev |-> Box, sets |-> <<>>]]

Bound == [run |-> MaxRun, unasked |-> MaxUnasked, lost |-> MaxLost]
Counted(k) ==
  /\ count[k] < Bound[k] /\ count.run + count.unasked + count.lost < MaxAll
  /\ count' = [count EXCEPT ![k] = @ + 1]

(* The values that a request is to set; none, if it asks for an action.    *)
Keys(req) == {<<req.dev, req.sets[i].id>> : i \in DOMAIN req.sets}

(* sync_dev_status: the last one for an id counts. *)
LastFor(sets, i) == sets[Max({n \in DOMAIN sets : sets[n].id = i})].val
Written(store, dev, sets) ==
  [k \in Key |-> IF k[1] = dev /\ \E n \in DOMAIN sets : sets[n].id = k[2]
                 THEN LastFor(sets, k[2]) ELSE store[k]]

(* check_condition *)
Holds(cond) ==
  LET v == cache[<<cond.dev, cond.id>>] IN
  /\ cond.dev \in online
  /\ CASE cond.expr = "="  -> v = cond.val
       [] cond.expr = ">"  -> v > cond.val
       [] cond.expr = ">=" -> v >= cond.val
       [] cond.expr = "<"  -> v < cond.val
       [] cond.expr = "<=" -> v <= cond.val

(* Faulty: what a device is to be set comes in the opposite order. *)
JoinedInFront(sets, set) == <<set>> \o sets

Joined(sets, set) == Append(sets, set)

(* An act of a scene joins the request for its device, or begins one.      *)
Put(reqs, a, by) ==
  LET set == [id |-> a.id, val |-> a.val]
      known == {i \in DOMAIN reqs : reqs[i].dev = a.dev} IN
  IF known = {} THEN Append(reqs, [by |-> by, dev |-> a.dev, sets |-> <<set>>])
  ELSE [i \in DOMAIN reqs |-> IF i \in known THEN [reqs[i] EXCEPT !.sets = Joined(@, set)]
                              ELSE reqs[i]]

(* execute_action: one request for each device, with all that is to be set.*)
Grouped(acts, by) ==
  LET reqs[n \in 0..Len(acts)] == IF n = 0 THEN <<>> ELSE Put(reqs[n - 1], acts[n], by)
  IN  reqs[Len(acts)]

(* check_linkage: the requests of the linkages that the event triggers,    *)
(* for a status or for an action.                                          *)
Triggered(there, d, e) ==
  IF d \in there /\ mode \in DevModes[d]
  THEN LET hit == Sift(Links[d], {l \in ToSet(Links[d]) : l.event = e /\ mode \in l.modes})
       IN [i \in DOMAIN hit |->
             [by |-> 0, dev |-> hit[i].act.dev,
              sets |-> IF hit[i].action THEN <<>>
                       ELSE <<[id |-> hit[i].act.id, val |-> hit[i].act.val]>>]]
  ELSE <<>>

-----------------------------------------------------------------------------
Init ==
  /\ pool = <<>> /\ run = [w \in Worker |-> Idle]
  /\ fifo = <<>> /\ async = Resting
  /\ real = [k \in Key |-> Default(k[1], k[2])] /\ cache = real /\ online = Dev
  /\ packets = <<>> /\ monitor = <<>>
  /\ mode = 0 /\ announced = 0
  /\ count = [k \in DOMAIN Bound |-> 0]
  /\ acted = [r \in 1..MaxRun |-> <<>>] /\ carried = [r \in 1..MaxRun |-> <<>>]
  /\ doubtful = {} /\ byHand = {} /\ modeRace = FALSE

-----------------------------------------------------------------------------
(* Scenes. *)

(* A client enters a scene: a copy of it waits for a thread. *)
EnterScene(s) ==
  /\ Counted("run") /\ s \in Wanted[count.run + 1]
  /\ pool' = Append(pool, [id |-> count.run + 1, scene |-> s])
  /\ UNCHANGED <<run, acted, requests, devices, modes>>

Start(w) ==
  /\ run[w].step = "idle" /\ pool # <<>>
  /\ run' = [run EXCEPT ![w] = [Idle EXCEPT !.id = Head(pool).id, !.scene = Head(pool).scene,
                                            !.at = 1, !.step = "check"]]
  /\ pool' = Tail(pool)
  /\ UNCHANGED <<acted, requests, devices, modes, count>>

Current(w) == Actions[run[w].scene][run[w].at]

(* Faulty: the run looks at the same action again. *)
SkippedNot(r, a) == r

Skipped(r, a) == [r EXCEPT !.at = @ + 1]

(* execute_action, whose requests then go to the FIFO one by one. *)
Executes(w, r) ==
  /\ acted' = [acted EXCEPT ![r.id] = Append(@, r.at)]
  /\ run' = [run EXCEPT ![w] = [r EXCEPT !.step = "push", !.todo = Grouped(Current(w).acts, r.id)]]

(* The condition of the next action, if it has one; an action whose        *)
(* condition does not hold is skipped, and its delay with it.              *)
Check(w) ==
  /\ run[w].step = "check" /\ run[w].at <= Len(Actions[run[w].scene])
  /\ LET a == Current(w) IN
     \/ /\ a.cond # NoCond /\ ~Holds(a.cond)
        /\ run' = [run EXCEPT ![w] = Skipped(@, a)] /\ UNCHANGED acted
     \/ /\ a.cond = NoCond \/ Holds(a.cond)
        /\ IF run[w].delay < a.delay
           THEN run' = [run EXCEPT ![w].step = "sleep"] /\ UNCHANGED acted
           ELSE Executes(w, run[w])
  /\ UNCHANGED <<pool, requests, devices, modes, count>>

(* It sleeps for what is left of the action's delay, and does not look at  *)
(* the condition again.                                                    *)
Sleep(w) ==
  /\ run[w].step = "sleep"
  /\ LET d == Current(w).delay IN
     Executes(w, [run[w] EXCEPT !.slept = @ + (d - run[w].delay), !.delay = d])
  /\ UNCHANGED <<pool, requests, devices, modes, count>>

(* With its last request the run goes on to the next action. *)
Pushed(r) ==
  IF Len(r.todo) <= 1 THEN [r EXCEPT !.todo = <<>>, !.at = @ + 1, !.step = "check"]
  ELSE [r EXCEPT !.todo = Tail(@)]

Push(w) ==
  /\ run[w].step = "push"
  /\ LET todo == run[w].todo IN fifo' = fifo \o SubSeq(todo, 1, Min({1, Len(todo)}))
  /\ run' = [run EXCEPT ![w] = Pushed(@)]
  /\ UNCHANGED <<pool, acted, async, carried, devices, modes, count>>

EndScene(w) ==
  /\ run[w].step = "check" /\ run[w].at > Len(Actions[run[w].scene])
  /\ run' = [run EXCEPT ![w] = Idle]
  /\ UNCHANGED <<pool, acted, requests, devices, modes, count>>

-----------------------------------------------------------------------------
(* The async thread. *)

Rest == async' = Resting

Takes ==
  /\ async.step = "idle" /\ fifo # <<>>
  /\ fifo' = Tail(fifo)
  /\ LET r == Head(fifo) IN
     carried' = IF r.by = 0 THEN carried ELSE [carried EXCEPT ![r.by] = Append(@, r)]

Begins(l) == async' = [Resting EXCEPT !.step = l, !.req = Head(fifo)]

(* A request for a device that is not there is dropped, and an action that *)
(* the hub itself is to do.                                                *)
TakeUnknown ==
  /\ Takes /\ Rest
  /\ \/ Head(fifo).dev \notin online \cup {Box}
     \/ Head(fifo).dev = Box /\ Head(fifo).sets = <<>>
  /\ UNCHANGED <<scenes, devices, modes, count>>

TakeSend ==
  /\ Takes /\ Head(fifo).dev \in online \ Ir /\ Begins("sent")
  /\ UNCHANGED <<scenes, devices, modes, count>>

(* Faulty: clients are not told of the mode. *)
TakeModeSilently ==
  /\ Takes /\ Head(fifo).dev = Box /\ Head(fifo).sets # <<>> /\ Rest
  /\ mode' = Head(fifo).sets[1].val
  /\ modeRace' = modeRace
  /\ UNCHANGED <<scenes, devices, monitor, announced, count>>

(* set_box_work_mode sets the mode, and then tells the clients. *)
TakeMode ==
  /\ Takes /\ Head(fifo).dev = Box /\ Head(fifo).sets # <<>>
  /\ LET m == Head(fifo).sets[1].val IN
     IF m \in Mode
     THEN /\ mode' = m /\ modeRace' = (modeRace \/ monitor # <<>>)
          /\ Begins("announce")
     ELSE Rest /\ UNCHANGED <<mode, modeRace>>
  /\ UNCHANGED <<scenes, devices, monitor, announced, count>>

Announce ==
  /\ async.step = "announce" /\ announced' = async.req.sets[1].val /\ Rest
  /\ UNCHANGED <<scenes, fifo, carried, devices, monitor, mode, modeRace, count>>

(* The device does what it is told; reports that it sent before are old.   *)
DeviceApplies ==
  /\ async.step = "sent"
  /\ real' = Written(real, async.req.dev, async.req.sets)
  /\ async' = [async EXCEPT !.step = "applied"]
  /\ packets' = [i \in DOMAIN packets |->
                   IF packets[i].kind = "status" /\ <<packets[i].dev, packets[i].id>> \in Keys(async.req)
                   THEN [packets[i] EXCEPT !.old = TRUE] ELSE packets[i]]
  /\ byHand' = {}
  /\ UNCHANGED <<scenes, fifo, carried, cache, online, doubtful, modes, count>>

(* Faulty: what a device refused is remembered like what it did. *)
RefusedRemembered ==
  /\ async.step = "sent" /\ Rest
  /\ cache' = Written(cache, async.req.dev, async.req.sets)
  /\ UNCHANGED <<scenes, fifo, carried, real, online, packets, doubtful, byHand, modes, count>>

(* It refuses, or the packet is lost and no answer comes for 3 seconds. *)
Refused ==
  /\ async.step = "sent" /\ Rest
  /\ UNCHANGED <<scenes, fifo, carried, devices, modes, count>>

(* The device has done it, but its answer is lost. *)
AnswerLost ==
  /\ async.step = "applied" /\ Counted("lost") /\ Rest
  /\ doubtful' = doubtful \cup Keys(async.req) /\ byHand' = {}
  /\ UNCHANGED <<scenes, fifo, carried, real, cache, online, packets, modes>>

InTransit(k) == \E i \in DOMAIN packets : packets[i].kind = "status" /\ <<packets[i].dev, packets[i].id>> = k

(* sync_dev_status after the answer. *)
Answered ==
  /\ async.step = "applied" /\ Rest
  /\ cache' = Written(cache, async.req.dev, async.req.sets)
  /\ doubtful' = (doubtful \ Keys(async.req)) \cup {k \in byHand : ~InTransit(k)}
  /\ byHand' = {}
  /\ UNCHANGED <<scenes, fifo, carried, real, online, packets, modes, count>>

-----------------------------------------------------------------------------
(* The async thread and an infrared appliance. *)

Linked(d) == RemoteOf[d] \in online

(* Without a remote nothing can be sent; an air conditioner takes no       *)
(* action, and no request with a value that is wrong.                      *)
TakeRefused ==
  /\ Takes /\ Rest
  /\ LET r == Head(fifo) IN
     /\ r.dev \in Ir
     /\ \/ ~Linked(r.dev)
        \/ r.dev \in Ac /\ (r.sets = <<>> \/ \E i \in DOMAIN r.sets : ~Sane(r.sets[i]))
  /\ UNCHANGED <<scenes, devices, modes, count>>

(* gree_set_status remembers the new values first. *)
TakeFrame ==
  /\ Takes /\ Begins("frame")
  /\ LET r == Head(fifo) IN
     /\ r.dev \in Ac /\ Linked(r.dev) /\ r.sets # <<>>
     /\ \A i \in DOMAIN r.sets : Sane(r.sets[i])
     /\ cache' = Written(cache, r.dev, Treated(r.sets))
  /\ UNCHANGED <<scenes, real, online, packets, doubtful, byHand, modes, count>>

(* Does the appliance do what the hub remembers? *)
Agrees(store, k) == real[k] = Shown(k[1], k[2], store[k])

(* The frame has all that the hub remembers of the appliance, what failed  *)
(* to reach it before included.                                            *)
FrameSent ==
  /\ async.step = "frame" /\ Linked(async.req.dev)
  /\ real' = [k \in Key |-> IF k[1] = async.req.dev THEN Shown(k[1], k[2], cache[k]) ELSE real[k]]
  /\ async' = [async EXCEPT !.step = "emitted"]
  /\ doubtful' = {k \in doubtful : k[1] # async.req.dev}
  /\ UNCHANGED <<scenes, fifo, carried, cache, online, packets, byHand, modes, count>>

(* The remote is gone, refuses the action, or does not hear of it: what    *)
(* was remembered stays.                                                   *)
FrameFails ==
  /\ async.step = "frame" /\ Rest
  /\ doubtful' = doubtful \cup Keys(async.req)
  /\ UNCHANGED <<scenes, fifo, carried, real, cache, online, packets, byHand, modes, count>>

FrameUnanswered ==
  /\ async.step = "emitted" /\ Rest
  /\ UNCHANGED <<scenes, fifo, carried, devices, modes, count>>

(* set_dev_status then remembers the values as the client gave them, even  *)
(* if the frame said otherwise: a temperature in automatic mode.           *)
Overruled(dev, sets) ==
  {k \in Key : /\ k[1] = dev /\ \E n \in DOMAIN sets : sets[n].id = k[2]
               /\ Shown(dev, k[2], LastFor(Treated(sets), k[2])) # Shown(dev, k[2], LastFor(sets, k[2]))}

FrameAnswered ==
  /\ async.step = "emitted" /\ Rest
  /\ cache' = Written(cache, async.req.dev, async.req.sets)
  /\ doubtful' = doubtful \cup Overruled(async.req.dev, async.req.sets)
  /\ UNCHANGED <<scenes, fifo, carried, real, online, packets, byHand, modes, count>>

(* cc9201_set_status looks at the first value only, and says that all went *)
(* well if it is no channel.                                               *)
TakeChannel ==
  /\ Takes
  /\ LET r == Head(fifo) IN
     /\ r.dev \in Stb /\ Linked(r.dev) /\ 1 \in DOMAIN r.sets
     /\ IF r.sets[1].id = Channel
        THEN Begins("keys") /\ UNCHANGED <<cache, doubtful>>
        ELSE /\ Rest /\ cache' = Written(cache, r.dev, r.sets)
             /\ doubtful' = doubtful \cup Keys(r)
  /\ UNCHANGED <<scenes, real, online, packets, byHand, modes, count>>

(* cc9201_key_press, for three digits; what becomes of each is not looked  *)
(* at. With the third the box changes its channel: to the one asked for,   *)
(* unless a digit is missing.                                              *)
KeysPressed ==
  /\ async.step = "keys"
  /\ async' = [async EXCEPT !.step = "pressed"]
  /\ LET k == <<async.req.dev, Channel>> IN
     \/ /\ Linked(async.req.dev)
        /\ real' = [real EXCEPT ![k] = Shown(k[1], k[2], async.req.sets[1].val)]
        /\ doubtful' = doubtful \ {k}
     \/ \E v \in Value[k] : real' = [real EXCEPT ![k] = v] /\ doubtful' = doubtful \cup {k}
  /\ UNCHANGED <<scenes, fifo, carried, cache, online, packets, byHand, modes, count>>

(* The channel is remembered, and then, by set_dev_status, all there is in *)
(* the request.                                                            *)
ChannelSet ==
  /\ async.step = "pressed" /\ Rest
  /\ cache' = Written(cache, async.req.dev, async.req.sets)
  /\ LET sets == async.req.sets IN
     doubtful' = doubtful \cup {k \in Keys(async.req) : k[2] # Channel \/ LastFor(sets, Channel) # sets[1].val}
  /\ UNCHANGED <<scenes, fifo, carried, real, online, packets, byHand, modes, count>>

(* An action is a key of the box's remote control: cc9201_set_action. The  *)
(* box may then be at another channel.                                     *)
TakeKey ==
  /\ Takes /\ Rest
  /\ LET r == Head(fifo)
         k == <<r.dev, Channel>> IN
     /\ r.dev \in Stb /\ Linked(r.dev) /\ r.sets = <<>>
     /\ \E v \in Value[k] : real' = [real EXCEPT ![k] = v]
     /\ doubtful' = doubtful \cup {k}
  /\ UNCHANGED <<scenes, cache, online, packets, byHand, modes, count>>

-----------------------------------------------------------------------------
(* Devices, and the monitor thread. *)

(* Somebody works a device by hand; it reports the new value. *)
ByHand(k, v) ==
  /\ Counted("unasked") /\ k[1] \in Wifi /\ real[k] # v
  /\ real' = [real EXCEPT ![k] = v]
  /\ packets' = Append(packets, [kind |-> "status", dev |-> k[1], id |-> k[2], val |-> v, old |-> FALSE])
  /\ byHand' = IF async.step = "applied" /\ k \in Keys(async.req) THEN byHand \cup {k} ELSE byHand
  /\ UNCHANGED <<scenes, requests, cache, online, doubtful, modes>>

(* An appliance does not report. *)
ByHandUnseen(k, v) ==
  /\ Counted("unasked") /\ k[1] \in Ir /\ real[k] # v
  /\ real' = [real EXCEPT ![k] = v] /\ doubtful' = doubtful \cup {k}
  /\ UNCHANGED <<scenes, requests, cache, online, packets, byHand, modes>>

(* A sensor or a remote, or a switch for the work mode. *)
Reports(d, e) ==
  /\ Counted("unasked")
  /\ packets' = Append(packets, [kind |-> "event", dev |-> d, event |-> e])
  /\ UNCHANGED <<scenes, requests, real, cache, online, doubtful, byHand, modes>>

PressMode(d, m) ==
  /\ Counted("unasked")
  /\ packets' = Append(packets, [kind |-> "mode", dev |-> d, val |-> m])
  /\ UNCHANGED <<scenes, requests, real, cache, online, doubtful, byHand, modes>>

Next1(kind) ==
  /\ monitor = <<>> /\ packets # <<>> /\ Head(packets).kind = kind
  /\ Head(packets).dev \in online
  /\ packets' = Tail(packets)

(* _status_updated *)
StatusChanged ==
  /\ Next1("status")
  /\ LET p == Head(packets)
         k == <<p.dev, p.id>>
         pending == async.step = "applied" /\ k \in Keys(async.req) IN
     /\ cache' = [cache EXCEPT ![k] = p.val]
     /\ doubtful' = IF ~p.old THEN doubtful \ {k} ELSE IF pending THEN doubtful ELSE doubtful \cup {k}
  /\ UNCHANGED <<scenes, requests, real, online, byHand, modes, count>>

(* _event, and the linkages with it. *)
SensorEvent ==
  /\ Next1("event")
  /\ fifo' = fifo \o Triggered(online, Head(packets).dev, Head(packets).event)
  /\ UNCHANGED <<scenes, async, carried, real, cache, online, doubtful, byHand, modes, count>>

(* _key *)
ModeKey ==
  /\ Next1("mode")
  /\ mode' = Head(packets).val /\ monitor' = <<mode'>>
  /\ modeRace' = (modeRace \/ async.step = "announce")
  /\ UNCHANGED <<scenes, requests, real, cache, online, doubtful, byHand, announced, count>>

(* A packet is lost, or comes from a device that the monitor does not know.*)
PacketLost ==
  /\ packets # <<>> /\ packets' = Tail(packets)
  /\ Head(packets).dev \in online => count.lost < MaxLost
  /\ count' = IF Head(packets).dev \in online THEN [count EXCEPT !.lost = @ + 1] ELSE count
  /\ doubtful' = IF Head(packets).kind = "status" THEN doubtful \cup {<<Head(packets).dev, Head(packets).id>>}
                 ELSE doubtful
  /\ UNCHANGED <<scenes, requests, real, cache, online, byHand, modes>>

(* set_box_work_mode, as in TakeMode. *)
MonitorAnnounce ==
  /\ monitor # <<>> /\ announced' = Head(monitor) /\ monitor' = <<>>
  /\ UNCHANGED <<scenes, requests, devices, mode, modeRace, count>>

(* No packet of the device came for a while, and when it is there again it *)
(* says what values it has, and its linkages hear of it.                   *)
GoOffline(d) ==
  /\ monitor = <<>> /\ d \in online \ Ir /\ Counted("unasked") /\ online' = online \ {d}
  /\ UNCHANGED <<scenes, requests, real, cache, packets, doubtful, byHand, modes>>

ComeOnline(d) ==
  /\ d \notin online /\ online' = online \cup {d}
  /\ cache' = [k \in Key |-> IF k[1] = d THEN real[k] ELSE cache[k]]
  /\ doubtful' = {k \in doubtful : k[1] # d}
  /\ fifo' = fifo \o Triggered(online', d, "online")
  /\ UNCHANGED <<scenes, async, carried, real, packets, byHand, modes, count>>

-----------------------------------------------------------------------------
Scenes(w) == Start(w) \/ Check(w) \/ Sleep(w) \/ Push(w) \/ EndScene(w)

AsyncThread ==
  \/ TakeUnknown \/ TakeSend \/ TakeMode \/ Announce
  \/ DeviceApplies \/ Refused \/ AnswerLost \/ Answered
  \/ TakeRefused \/ TakeFrame \/ FrameSent \/ FrameFails \/ FrameUnanswered \/ FrameAnswered
  \/ TakeChannel \/ KeysPressed \/ ChannelSet \/ TakeKey

Monitor == StatusChanged \/ SensorEvent \/ ModeKey \/ MonitorAnnounce \/ PacketLost

Next ==
  \/ \E s \in Scene : EnterScene(s)
  \/ \E w \in Worker : Scenes(w)
  \/ AsyncThread \/ Monitor
  \/ \E k \in Key : \E v \in Value[k] : ByHand(k, v) \/ ByHandUnseen(k, v)
  \/ \E d \in Wifi : \/ \E e \in Event : Reports(d, e)
                    \/ \E m \in Mode : PressMode(d, m)
                    \/ GoOffline(d) \/ ComeOnline(d)

(* While a thread of the pool or the async thread can go on, one of them   *)
(* does; the wait for a device ends after 3 seconds at most. Nothing says  *)
(* that the async thread gets on with telling the clients something: the   *)
(* socket of one that does not read may be full.                           *)
Fairness == WF_vars((\E w \in Worker : Scenes(w)) \/ (AsyncThread /\ async.step # "announce"))

Spec == Init /\ [][Next]_vars /\ Fairness

-----------------------------------------------------------------------------
(* Properties. *)

(* What an action asks for: one request for each of its devices, in the    *)
(* order in which they occur, with everything for that device in order.    *)
Asks(acts, by) ==
  LET First(i) == \A j \in 1..(i - 1) : acts[j].dev # acts[i].dev
      For(i) == LET own == Sift(acts, {a \in ToSet(acts) : a.dev = acts[i].dev})
                IN [by |-> by, dev |-> acts[i].dev,
                    sets |-> [n \in DOMAIN own |-> [id |-> own[n].id, val |-> own[n].val]]]
      order == Sift([i \in DOMAIN acts |-> i], {i \in DOMAIN acts : First(i)})
  IN [n \in DOMAIN order |-> For(order[n])]

(* The requests of a run. *)
Of(reqs, id) == Sift(reqs, {q \in ToSet(reqs) : q.by = id})

(* What the async thread has taken from a run, and what is still under way *)
(* to it, is what the actions of the run ask for that were executed, each  *)
(* once and in order, however runs, linkages and devices interleave.       *)
RequestsInOrder(r) ==
  LET asked == FlattenSeq([n \in DOMAIN acted[r.id] |->
                             Asks(Actions[r.scene][acted[r.id][n]].acts, r.id)])
  IN carried[r.id] \o Of(fifo, r.id) \o r.todo = asked

(* It has slept exactly as long as the longest delay of the actions that   *)
(* it has executed, whatever it skipped in between.                        *)
DelaysAddUp(r) ==
  LET delays == {Actions[r.scene][acted[r.id][n]].delay : n \in DOMAIN acted[r.id]}
  IN r.slept \in delays /\ \A t \in delays : t <= r.slept

(* A run does what its scene says, in order and when it says so. *)
RunsAsWritten ==
  \A w \in Worker :
    /\ run[w].step # "idle" => RequestsInOrder(run[w])
    /\ run[w].step = "push" => DelaysAddUp(run[w])

(* The hub remembers the values that a device has, although two threads    *)
(* write what it remembers, but for a report under way, a request being    *)
(* carried out, a packet or an answer that was lost, and an answer and a   *)
(* report that were handled in the wrong order. Of an appliance it         *)
(* remembers what makes it do what it does, but for what was sent in vain, *)
(* worked by hand or by a key, and a temperature in automatic mode; the    *)
(* next frame that reaches an air conditioner sets all of it right.        *)
CacheIsRight ==
  \A k \in Key :
    \/ Agrees(cache, k) \/ k \in doubtful \/ k[1] \notin online \/ InTransit(k)
    \/ async.step \in {"applied", "frame", "pressed"} /\ k \in Keys(async.req)

(* Clients know the work mode, but for two threads that set it at once.    *)
ModeAnnounced ==
  (async.step # "announce" /\ monitor = <<>> /\ ~modeRace) => announced = mode

(* Every scene that is entered ends, although it may have to wait for a    *)
(* thread, devices may be gone and the async thread may be held up by a    *)
(* client that it tells the mode; and unless it is, for ever, it tries all *)
(* that was asked for.                                                     *)
NoScene == pool = <<>> /\ \A w \in Worker : run[w].step = "idle"
NoRequest == fifo = <<>> /\ async.step = "idle"
ScenesEnd == []<>NoScene /\ ([]<>NoRequest \/ <>[](async.step = "announce"))
=============================================================================
