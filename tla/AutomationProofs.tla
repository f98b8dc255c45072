--------------------------- MODULE AutomationProofs ---------------------------
(***************************************************************************)
(* For any devices, appliances, scenes, linkages, modes and bounds: unless *)
(* the async thread and the monitor set the work mode at once, clients     *)
(* know it as soon as neither is about to announce it; the hub remembers   *)
(* the values that devices have, but for what is under way, lost or        *)
(* unseen; and scenes run as they are written.                             *)
(***************************************************************************)
EXTENDS Automation, QueueFacts, TLAPS

(* What the async thread is at. *)
AsyncType ==
  /\ async = [step |-> async.step, req |-> async.req]
  /\ async.step \in {"sent", "applied"} => async.req.dev \notin Ir
  /\ async.step \in {"frame", "emitted"} => async.req.dev \in Ac
  /\ async.step \in {"keys", "pressed"} =>
       /\ async.req.dev \in Stb
       /\ 1 \in DOMAIN async.req.sets /\ async.req.sets[1].id = Channel

LEMMA TakenType ==
  ASSUME NEW l, Begins(l) PROVE async' = [step |-> l, req |-> Head(fifo)]
BY DEF Begins, Resting

LEMMA RestType ==
  ASSUME Rest PROVE AsyncType' /\ async'.step = "idle"
BY DEF Rest, Resting, AsyncType

LEMMA GoesOnType ==
  ASSUME AsyncType, NEW l, async' = [async EXCEPT !.step = l]
  PROVE  async' = [step |-> l, req |-> async.req]
BY DEF AsyncType

LEMMA AsyncTypeKept ==
  ASSUME AsyncType, [Next]_vars PROVE AsyncType'
<1>1. CASE async' = async
  BY <1>1 DEF AsyncType
<1>2. CASE Rest
  BY <1>2, RestType
<1>3. CASE TakeSend
  <2>1. async' = [step |-> "sent", req |-> Head(fifo)] /\ Head(fifo).dev \notin Ir
    BY <1>3, TakenType DEF TakeSend
  <2> QED BY <2>1 DEF AsyncType
<1>4. CASE TakeFrame
  <2>1. async' = [step |-> "frame", req |-> Head(fifo)] /\ Head(fifo).dev \in Ac
    BY <1>4, TakenType DEF TakeFrame
  <2> QED BY <2>1 DEF AsyncType
<1>5. CASE TakeChannel /\ ~Rest
  <2>1. /\ async' = [step |-> "keys", req |-> Head(fifo)] /\ Head(fifo).dev \in Stb
        /\ 1 \in DOMAIN Head(fifo).sets /\ Head(fifo).sets[1].id = Channel
    BY <1>5, TakenType DEF TakeChannel
  <2> QED BY <2>1 DEF AsyncType
<1>6. CASE Begins("announce")
  <2>1. async' = [step |-> "announce", req |-> Head(fifo)]
    BY <1>6, TakenType
  <2> QED BY <2>1 DEF AsyncType
<1>7. CASE DeviceApplies
  <2>1. async' = [step |-> "applied", req |-> async.req] /\ async.step = "sent"
    BY <1>7, GoesOnType DEF DeviceApplies
  <2> QED BY <2>1 DEF AsyncType
<1>8. CASE FrameSent
  <2>1. async' = [step |-> "emitted", req |-> async.req] /\ async.step = "frame"
    BY <1>8, GoesOnType DEF FrameSent
  <2> QED BY <2>1 DEF AsyncType
<1>9. CASE KeysPressed
  <2>1. async' = [step |-> "pressed", req |-> async.req] /\ async.step = "keys"
    BY <1>9, GoesOnType DEF KeysPressed
  <2> QED BY <2>1 DEF AsyncType
<1>10. ASSUME AsyncThread
       PROVE  \/ Rest \/ TakeSend \/ TakeFrame \/ (TakeChannel /\ ~Rest) \/ Begins("announce")
              \/ DeviceApplies \/ FrameSent \/ KeysPressed
  <2>1. TakeMode => Begins("announce") \/ Rest
    BY DEF TakeMode
  <2>2. Refused \/ AnswerLost \/ Answered \/ TakeUnknown \/ Announce => Rest
    BY DEF Refused, AnswerLost, Answered, TakeUnknown, Announce
  <2>3. TakeRefused \/ TakeKey \/ FrameFails \/ FrameUnanswered => Rest
    BY DEF TakeRefused, TakeKey, FrameFails, FrameUnanswered
  <2>4. FrameAnswered \/ ChannelSet => Rest
    BY DEF FrameAnswered, ChannelSet
  <2> QED BY <1>10, <2>1, <2>2, <2>3, <2>4 DEF AsyncThread
<1>11. ASSUME \/ \E s \in Scene : EnterScene(s)
              \/ \E w \in Worker : Scenes(w)
       PROVE  async' = async
  BY <1>11 DEF EnterScene, Scenes, Start, Check, Sleep, Push, EndScene, requests
<1>12. ASSUME \/ Monitor
              \/ \E k \in Key : \E v \in Value[k] : ByHand(k, v) \/ ByHandUnseen(k, v)
       PROVE  async' = async
  BY <1>12 DEF Monitor, StatusChanged, SensorEvent, ModeKey, PacketLost, MonitorAnnounce,
               ByHand, ByHandUnseen, requests
<1>13. ASSUME \E d \in Wifi : \/ \E e \in Event : Reports(d, e)
                              \/ \E m \in Mode : PressMode(d, m)
                              \/ GoOffline(d) \/ ComeOnline(d)
       PROVE  async' = async
  BY <1>13 DEF Reports, PressMode, GoOffline, ComeOnline, requests
<1>14. CASE UNCHANGED vars
  BY <1>14 DEF vars, requests, AsyncType
<1> QED BY <1>1, <1>2, <1>3, <1>4, <1>5, <1>6, <1>7, <1>8, <1>9, <1>10, <1>11, <1>12, <1>13,
           <1>14 DEF Next

-----------------------------------------------------------------------------
(* The work mode. *)

AsyncAnnounces == async.step = "announce"
MonitorAnnounces == monitor # <<>>

(* Whoever is about to announce a mode is alone, and it is the right one.  *)
ModeInv ==
  ~modeRace =>
    /\ ~(AsyncAnnounces /\ MonitorAnnounces)
    /\ AsyncAnnounces => async.req.sets[1].val = mode
    /\ MonitorAnnounces => monitor = <<mode>>
    /\ ~AsyncAnnounces /\ ~MonitorAnnounces => announced = mode

USE DEF AsyncAnnounces, MonitorAnnounces

LEMMA InitMode == Init => ModeInv
BY DEF Init, ModeInv, Resting

(* Steps that leave the modes alone and do not end or begin an             *)
(* announcement by the async thread.                                       *)
LEMMA OtherThings ==
  ASSUME ModeInv, UNCHANGED modes,
         async' = async \/ (async.step # "announce" /\ async'.step # "announce")
  PROVE  ModeInv'
BY DEF ModeInv, modes

LEMMA ScenesStep ==
  ASSUME ModeInv, (\E s \in Scene : EnterScene(s)) \/ (\E w \in Worker : Scenes(w))
  PROVE  ModeInv'
<1>1. UNCHANGED modes /\ async' = async
  BY DEF EnterScene, Scenes, Start, Check, Sleep, Push, EndScene, requests
<1> QED BY <1>1, OtherThings

LEMMA DeviceStep ==
  ASSUME ModeInv,
         \/ \E k \in Key : \E v \in Value[k] : ByHand(k, v) \/ ByHandUnseen(k, v)
         \/ \E d \in Wifi : \/ \E e \in Event : Reports(d, e)
                           \/ \E m \in Mode : PressMode(d, m)
                           \/ GoOffline(d) \/ ComeOnline(d)
  PROVE  ModeInv'
<1>1. UNCHANGED modes /\ async' = async
  BY DEF ByHand, ByHandUnseen, Reports, PressMode, GoOffline, ComeOnline, requests
<1> QED BY <1>1, OtherThings

LEMMA AsyncStep ==
  ASSUME ModeInv, AsyncType, AsyncThread PROVE ModeInv'
<1>1. CASE ~TakeMode /\ ~Announce
  <2>1. UNCHANGED modes
    BY <1>1 DEF AsyncThread, DeviceApplies, FrameSent, KeysPressed, TakeSend, TakeFrame, TakeChannel,
                Refused, AnswerLost, Answered, TakeUnknown, TakeRefused, TakeKey,
                FrameFails, FrameUnanswered, FrameAnswered, ChannelSet
  <2>2. async.step # "announce"
    BY <1>1 DEF AsyncThread, DeviceApplies, FrameSent, KeysPressed, TakeSend, TakeFrame, TakeChannel,
                Refused, AnswerLost, Answered, TakeUnknown, TakeRefused, TakeKey,
                FrameFails, FrameUnanswered, FrameAnswered, ChannelSet, Takes
  <2>3. async'.step # "announce"
    <3>1. CASE DeviceApplies \/ FrameSent \/ KeysPressed
      BY <3>1, GoesOnType DEF DeviceApplies, FrameSent, KeysPressed
    <3>2. CASE TakeSend \/ TakeFrame \/ TakeChannel
      BY <3>2, TakenType, RestType DEF TakeSend, TakeFrame, TakeChannel
    <3>3. CASE Refused \/ AnswerLost \/ Answered \/ TakeUnknown \/ TakeRefused \/ TakeKey
      BY <3>3, RestType DEF Refused, AnswerLost, Answered, TakeUnknown, TakeRefused, TakeKey
    <3>4. CASE FrameFails \/ FrameUnanswered \/ FrameAnswered \/ ChannelSet
      BY <3>4, RestType DEF FrameFails, FrameUnanswered, FrameAnswered, ChannelSet
    <3> QED BY <1>1, <3>1, <3>2, <3>3, <3>4 DEF AsyncThread
  <2> QED BY <2>1, <2>2, <2>3, OtherThings
<1>2. CASE TakeMode
  <2> DEFINE m == Head(fifo).sets[1].val
  <2>1. async.step = "idle" /\ UNCHANGED <<monitor, announced>>
    BY <1>2 DEF TakeMode, Takes
  <2>2. CASE m \in Mode
    <3>1. /\ mode' = m /\ modeRace' = (modeRace \/ monitor # <<>>)
          /\ async'.step = "announce" /\ async'.req.sets[1].val = m
      BY <1>2, <2>2 DEF TakeMode, Begins, Resting
    <3> QED BY <2>1, <3>1 DEF ModeInv
  <2>3. CASE m \notin Mode
    <3>1. UNCHANGED <<mode, modeRace>> /\ async'.step = "idle"
      BY <1>2, <2>3 DEF TakeMode, Rest, Resting
    <3> QED BY <2>1, <3>1 DEF ModeInv
  <2> QED BY <2>2, <2>3
<1>3. CASE Announce
  <2>1. /\ async.step = "announce" /\ announced' = async.req.sets[1].val /\ async'.step = "idle"
        /\ UNCHANGED <<monitor, mode, modeRace>>
    BY <1>3 DEF Announce, Rest, Resting
  <2> QED BY <2>1 DEF ModeInv
<1> QED BY <1>1, <1>2, <1>3 DEF AsyncThread

LEMMA MonitorStep ==
  ASSUME ModeInv, Monitor PROVE ModeInv'
<1>1. CASE StatusChanged \/ SensorEvent \/ PacketLost
  <2>1. UNCHANGED modes /\ async' = async
    BY <1>1 DEF StatusChanged, SensorEvent, PacketLost, requests
  <2> QED BY <2>1, OtherThings
<1>2. CASE ModeKey
  <2>1. /\ monitor' = <<mode'>> /\ modeRace' = (modeRace \/ async.step = "announce")
        /\ async' = async
    BY <1>2 DEF ModeKey, requests
  <2> QED BY <2>1 DEF ModeInv
<1>3. CASE MonitorAnnounce
  <2>1. /\ monitor # <<>> /\ announced' = Head(monitor) /\ monitor' = <<>>
        /\ UNCHANGED <<mode, modeRace>> /\ async' = async
    BY <1>3 DEF MonitorAnnounce, requests
  <2>2. monitor = <<mode>> => Head(monitor) = mode
    OBVIOUS
  <2> QED BY <2>1, <2>2 DEF ModeInv
<1> QED BY <1>1, <1>2, <1>3 DEF Monitor

(* Whatever scenes, linkages and devices do, clients have been told the    *)
(* mode that the hub works in (set_box_work_mode), unless two threads set  *)
(* it at once.                                                             *)
THEOREM ModeIsAnnounced == Spec => []ModeAnnounced
<1>1. Init => ModeInv /\ AsyncType
  BY InitMode DEF Init, AsyncType, Resting
<1>2. ModeInv /\ AsyncType /\ [Next]_vars => ModeInv' /\ AsyncType'
  <2> SUFFICES ASSUME ModeInv, AsyncType, [Next]_vars PROVE ModeInv'
    BY AsyncTypeKept
  <2>1. CASE UNCHANGED vars
    <3>1. UNCHANGED modes /\ async' = async
      BY <2>1 DEF vars, requests
    <3> QED BY <3>1, OtherThings
  <2>2. CASE Next
    BY <2>2, ScenesStep, DeviceStep, AsyncStep, MonitorStep DEF Next
  <2> QED BY <2>1, <2>2
<1>3. ModeInv => ModeAnnounced
  BY DEF ModeInv, ModeAnnounced
<1> QED BY <1>1, <1>2, <1>3, PTL DEF Spec

-----------------------------------------------------------------------------
(* What the hub remembers. *)

LEMMA KeyParts ==
  \A k \in Key : k = <<k[1], k[2]>> /\ k[1] \in Dev /\ k[2] \in Nat
BY AutomationAssumption

LEMMA KeysAt ==
  \A req : \A k \in Key :
    k \in Keys(req) <=> k[1] = req.dev /\ \E n \in DOMAIN req.sets : req.sets[n].id = k[2]
BY KeyParts DEF Keys

LEMMA KeysDev ==
  \A req : \A k : k \in Keys(req) => k[1] = req.dev
BY DEF Keys

LEMMA WrittenAt ==
  \A store, req :
    /\ DOMAIN Written(store, req.dev, req.sets) = Key
    /\ \A k \in Key : Written(store, req.dev, req.sets)[k] =
                        IF k \in Keys(req) THEN LastFor(req.sets, k[2]) ELSE store[k]
BY KeysAt DEF Written

LEMMA TreatedIds ==
  \A sets : /\ DOMAIN Treated(sets) = DOMAIN sets
            /\ \A n \in DOMAIN sets : /\ Treated(sets)[n].id = sets[n].id
                                      /\ Treated(sets)[n].val = TreatedVal(sets, n)
BY DEF Treated

LEMMA WrittenTreated ==
  \A store, req :
    /\ DOMAIN Written(store, req.dev, Treated(req.sets)) = Key
    /\ \A k \in Key : Written(store, req.dev, Treated(req.sets))[k] =
                        IF k \in Keys(req) THEN LastFor(Treated(req.sets), k[2]) ELSE store[k]
BY KeysAt, TreatedIds DEF Written

(* Wi-Fi devices show what they are set. *)
LEMMA ShownPlain ==
  \A k : k[1] \notin Ir => \A v : Shown(k[1], k[2], v) = v
BY DEF Shown, Ir

(* What is under way to the monitor. *)
Packet == [kind : {"status"}, dev : Wifi, id : Nat, val : Nat, old : BOOLEAN]
            \cup [kind : {"event"}, dev : Wifi, event : Event]
            \cup [kind : {"mode"}, dev : Wifi, val : Mode]

StoreType ==
  /\ packets \in Seq(Packet)
  /\ online \subseteq Dev /\ Ir \subseteq online
  /\ DOMAIN real = Key /\ DOMAIN cache = Key

(* The last report of a value that is under way says what the device has,  *)
(* unless the device was set after it.                                     *)
About(i, k) == packets[i].kind = "status" /\ <<packets[i].dev, packets[i].id>> = k
LastIsRight ==
  \A k \in Key : \A i \in DOMAIN packets :
    (/\ About(i, k) /\ ~packets[i].old
     /\ \A j \in DOMAIN packets : j > i => ~About(j, k))
    => packets[i].val = real[k]

(* A device that has done what it was told does it still, unless it was    *)
(* worked by hand since.                                                   *)
AppliedHolds ==
  async.step = "applied" =>
    \A k \in Key : k \in Keys(async.req) /\ k \notin byHand
                     => real[k] = LastFor(async.req.sets, k[2])

(* The frame is made of what gree_set_status made of the request.          *)
FrameHolds ==
  async.step \in {"frame", "emitted"} =>
    \A k \in Key : k \in Keys(async.req) => cache[k] = LastFor(Treated(async.req.sets), k[2])

(* The box is at the channel that it was sent, or nobody knows.            *)
PressedHolds ==
  async.step = "pressed" =>
    \A k \in Key : k = <<async.req.dev, Channel>> /\ k \notin doubtful
                     => real[k] = Shown(k[1], k[2], async.req.sets[1].val)

StoreInv ==
  /\ AsyncType /\ StoreType
  /\ LastIsRight /\ AppliedHolds /\ FrameHolds /\ PressedHolds
  /\ CacheIsRight

LEMMA InitStore == Init => StoreInv
<1> SUFFICES ASSUME Init PROVE StoreInv
  OBVIOUS
<1>1. AsyncType /\ async.step = "idle"
  BY DEF Init, AsyncType, Resting
<1>2. StoreType /\ packets = <<>> /\ cache = real
  BY AutomationAssumption DEF Init, StoreType
<1>3. LastIsRight /\ AppliedHolds /\ FrameHolds /\ PressedHolds
  BY <1>1, <1>2 DEF LastIsRight, AppliedHolds, FrameHolds, PressedHolds
<1>4. \A k \in Key : Agrees(cache, k)
  <2> SUFFICES ASSUME NEW k \in Key PROVE Agrees(cache, k)
    OBVIOUS
  <2> DEFINE v == Default(k[1], k[2])
  <2>1. real[k] = v /\ cache[k] = v
    BY DEF Init
  <2>2. CASE k[1] \in Ac
    <3>1. k[1] \notin Stb
      BY <2>2, AutomationAssumption
    <3>2. k[2] = Power => v = 0
      BY DEF Default, Power, Temperature, Light
    <3>3. k[2] = Light => v = 1
      BY <2>2 DEF Default, Light, Temperature
    <3> QED BY <2>1, <2>2, <3>1, <3>2, <3>3 DEF Agrees, Shown
  <2>3. CASE k[1] \notin Ac
    <3>1. v = 0
      BY <2>3 DEF Default
    <3> QED BY <2>1, <2>3, <3>1 DEF Agrees, Shown
  <2> QED BY <2>2, <2>3
<1> QED BY <1>1, <1>2, <1>3, <1>4 DEF StoreInv, CacheIsRight

(* Steps that leave the devices and the reports alone. *)
LEMMA AsyncMoves ==
  ASSUME StoreInv, AsyncType', UNCHANGED devices,
         \/ async' = async
         \/ /\ async.step \notin {"applied", "frame", "pressed"}
            /\ async'.step \notin {"applied", "frame", "emitted", "pressed"}
  PROVE  StoreInv'
<1>1. StoreType' /\ LastIsRight' /\ AppliedHolds' /\ FrameHolds' /\ PressedHolds'
  BY DEF StoreInv, StoreType, LastIsRight, AppliedHolds, FrameHolds, PressedHolds, About, devices
<1>2. CacheIsRight'
  BY DEF StoreInv, CacheIsRight, Agrees, InTransit, devices
<1> QED BY <1>1, <1>2 DEF StoreInv

(* The values of appliances are never on their way to the monitor. *)
LEMMA ReportsOfWifi ==
  ASSUME StoreType, NEW i \in DOMAIN packets, packets[i].kind = "status"
  PROVE  packets[i] \in [kind : {"status"}, dev : Wifi, id : Nat, val : Nat, old : BOOLEAN]
<1>1. packets[i] \in Packet
  BY DEF StoreType
<1> QED BY <1>1 DEF Packet

LEMMA SameReports ==
  ASSUME StoreType, LastIsRight, packets' = packets,
         \A k \in Key : k[1] \notin Ir => real'[k] = real[k]
  PROVE  LastIsRight' /\ \A k \in Key : InTransit(k)' <=> InTransit(k)
<1>1. \A k \in Key : InTransit(k)' <=> InTransit(k)
  BY DEF InTransit
<1>2. LastIsRight'
  <2> SUFFICES ASSUME NEW k \in Key, NEW i \in DOMAIN packets, About(i, k), ~packets[i].old,
                      \A j \in DOMAIN packets : j > i => ~About(j, k)
               PROVE  packets[i].val = real'[k]
    BY DEF LastIsRight, About
  <2>1. packets[i].val = real[k]
    BY DEF LastIsRight
  <2>2. k[1] \notin Ir
    BY ReportsOfWifi DEF About, Wifi
  <2> QED BY <2>1, <2>2
<1> QED BY <1>1, <1>2

(* The monitor takes the oldest packet. *)
LEMMA NextReport ==
  ASSUME StoreType, LastIsRight, packets # <<>>, packets' = Tail(packets), real' = real
  PROVE  /\ packets' \in Seq(Packet) /\ LastIsRight'
         /\ \A k \in Key : InTransit(k) /\ ~About(1, k) => InTransit(k)'
         /\ \A k \in Key : About(1, k) /\ ~InTransit(k)' /\ ~packets[1].old
                             => packets[1].val = real[k]
<1>1. packets \in Seq(Packet)
  BY DEF StoreType
<1>2. /\ packets' \in Seq(Packet) /\ Len(packets') = Len(packets) - 1
      /\ \A i \in DOMAIN packets' : i + 1 \in DOMAIN packets /\ packets'[i] = packets[i + 1]
      /\ \A i \in DOMAIN packets : i # 1 => i - 1 \in DOMAIN packets'
      /\ \A i \in DOMAIN packets : i \in Nat
      /\ \A i \in DOMAIN packets' : i \in Nat
      /\ 1 \in DOMAIN packets
  BY <1>1
<1>3. \A k : \A i \in DOMAIN packets' : About(i, k)' <=> About(i + 1, k)
  BY <1>2 DEF About
<1>4. LastIsRight'
  <2> SUFFICES ASSUME NEW k \in Key, NEW i \in DOMAIN packets', About(i, k)', ~packets'[i].old,
                      \A j \in DOMAIN packets' : j > i => ~About(j, k)'
               PROVE  packets'[i].val = real'[k]
    BY DEF LastIsRight
  <2>1. i + 1 \in DOMAIN packets /\ About(i + 1, k) /\ ~packets[i + 1].old
    BY <1>2, <1>3
  <2>2. ASSUME NEW j \in DOMAIN packets, j > i + 1 PROVE ~About(j, k)
    <3>1. j - 1 \in DOMAIN packets' /\ j - 1 > i /\ (j - 1) + 1 = j
      BY <1>2, <2>2
    <3> QED BY <3>1, <1>3
  <2> QED BY <1>2, <2>1, <2>2 DEF LastIsRight
<1>5. ASSUME NEW k \in Key, InTransit(k), ~About(1, k) PROVE InTransit(k)'
  <2>1. PICK i \in DOMAIN packets : About(i, k)
    BY <1>5 DEF InTransit, About
  <2>2. i - 1 \in DOMAIN packets' /\ (i - 1) + 1 = i
    BY <1>2, <1>5, <2>1
  <2>3. About(i - 1, k)'
    BY <1>3, <2>1, <2>2
  <2> QED BY <2>2, <2>3 DEF InTransit, About
<1>6. ASSUME NEW k \in Key, About(1, k), ~InTransit(k)', ~packets[1].old
      PROVE  packets[1].val = real[k]
  <2>1. \A j \in DOMAIN packets : j > 1 => ~About(j, k)
    <3> SUFFICES ASSUME NEW j \in DOMAIN packets, j > 1, About(j, k) PROVE FALSE
      OBVIOUS
    <3>1. j - 1 \in DOMAIN packets' /\ (j - 1) + 1 = j
      BY <1>2
    <3>2. About(j - 1, k)'
      BY <1>3, <3>1
    <3> QED BY <1>6, <3>1, <3>2 DEF InTransit, About
  <2> QED BY <1>2, <1>6, <2>1 DEF LastIsRight
<1> QED BY <1>2, <1>4, <1>5, <1>6

(* A device sends a packet. *)
LEMMA NewPacket ==
  ASSUME StoreType, NEW p \in Packet, packets' = Append(packets, p)
  PROVE  /\ packets' \in Seq(Packet)
         /\ Len(packets) + 1 \in DOMAIN packets' /\ packets'[Len(packets) + 1] = p
         /\ \A i \in DOMAIN packets' : i \in Nat
         /\ \A i \in DOMAIN packets : i \in DOMAIN packets' /\ packets'[i] = packets[i]
                                     /\ i < Len(packets) + 1
         /\ \A i \in DOMAIN packets' : i \in DOMAIN packets \/ i = Len(packets) + 1
         /\ \A k \in Key : InTransit(k) => InTransit(k)'
<1>1. packets \in Seq(Packet)
  BY DEF StoreType
<1>2. /\ \A i \in DOMAIN packets : i \in DOMAIN packets' /\ packets'[i] = packets[i]
      /\ packets' \in Seq(Packet)
  BY <1>1
<1> QED BY <1>1, <1>2 DEF InTransit

LEMMA NewOtherPacket ==
  ASSUME StoreType, LastIsRight, real' = real,
         NEW p \in Packet, p.kind # "status", packets' = Append(packets, p)
  PROVE  LastIsRight'
<1> SUFFICES ASSUME NEW k \in Key, NEW i \in DOMAIN packets', About(i, k)', ~packets'[i].old,
                    \A j \in DOMAIN packets' : j > i => ~About(j, k)'
             PROVE  packets'[i].val = real'[k]
  BY DEF LastIsRight
<1>1. i # Len(packets) + 1
  BY NewPacket DEF About
<1>2. i \in DOMAIN packets /\ About(i, k) /\ packets'[i] = packets[i]
  BY <1>1, NewPacket DEF About
<1>3. \A j \in DOMAIN packets : j > i => ~About(j, k)
  BY NewPacket DEF About
<1> QED BY <1>2, <1>3 DEF LastIsRight

(* Steps of the async thread that deal with a device. *)
LEMMA AppliesStep ==
  ASSUME StoreInv, AsyncType', DeviceApplies PROVE StoreInv'
<1> DEFINE req == async.req
<1>1. /\ async.step = "sent" /\ req.dev \notin Ir
      /\ async' = [step |-> "applied", req |-> req]
      /\ UNCHANGED <<cache, online, doubtful>>
  BY GoesOnType DEF StoreInv, AsyncType, DeviceApplies
<1>2. /\ DOMAIN real' = Key
      /\ \A k \in Key : real'[k] = IF k \in Keys(req) THEN LastFor(req.sets, k[2]) ELSE real[k]
  BY WrittenAt DEF DeviceApplies
<1>3. StoreType
  BY DEF StoreInv
<1>4. /\ DOMAIN packets' = DOMAIN packets /\ packets' \in Seq(Packet)
      /\ \A i \in DOMAIN packets : \A k \in Key : About(i, k)' <=> About(i, k)
      /\ \A i \in DOMAIN packets : packets[i].kind = "status" =>
           /\ packets'[i].val = packets[i].val
           /\ packets'[i].old = (packets[i].old \/ <<packets[i].dev, packets[i].id>> \in Keys(req))
  <2>1. packets' = [i \in DOMAIN packets |->
                      IF packets[i].kind = "status" /\ <<packets[i].dev, packets[i].id>> \in Keys(req)
                      THEN [packets[i] EXCEPT !.old = TRUE] ELSE packets[i]]
    BY DEF DeviceApplies
  <2>2. \A i \in DOMAIN packets : packets[i].kind = "status" =>
           /\ [packets[i] EXCEPT !.old = TRUE] \in Packet
           /\ [packets[i] EXCEPT !.old = TRUE].kind = "status"
           /\ [packets[i] EXCEPT !.old = TRUE].dev = packets[i].dev
           /\ [packets[i] EXCEPT !.old = TRUE].id = packets[i].id
           /\ [packets[i] EXCEPT !.old = TRUE].val = packets[i].val
           /\ [packets[i] EXCEPT !.old = TRUE].old = TRUE
           /\ packets[i].old \in BOOLEAN
    BY <1>3, ReportsOfWifi DEF Packet
  <2>3. DOMAIN packets' = DOMAIN packets /\ packets' \in Seq(Packet)
    <3>1. packets \in Seq(Packet)
      BY <1>3 DEF StoreType
    <3>2. Len(packets) \in Nat /\ DOMAIN packets = 1..Len(packets)
      BY <3>1
    <3>3. \A i \in DOMAIN packets : packets'[i] \in Packet
      BY <2>1, <2>2, <3>1
    <3>4. packets' \in [1..Len(packets) -> Packet]
      BY <2>1, <3>2, <3>3
    <3> QED BY <3>2, <3>4
  <2>4. \A i \in DOMAIN packets : \A k \in Key : About(i, k)' <=> About(i, k)
    BY <2>1, <2>2 DEF About
  <2>5. \A i \in DOMAIN packets : packets[i].kind = "status" =>
          /\ packets'[i].val = packets[i].val
          /\ packets'[i].old = (packets[i].old \/ <<packets[i].dev, packets[i].id>> \in Keys(req))
    BY <2>1, <2>2
  <2> QED BY <2>3, <2>4, <2>5
<1>5. StoreType'
  BY <1>1, <1>2, <1>4 DEF StoreInv, StoreType
<1>6. LastIsRight'
  <2> SUFFICES ASSUME NEW k \in Key, NEW i \in DOMAIN packets, About(i, k), ~packets'[i].old,
                      \A j \in DOMAIN packets : j > i => ~About(j, k)
               PROVE  packets'[i].val = real'[k]
    BY <1>4 DEF LastIsRight
  <2>1. ~packets[i].old /\ k \notin Keys(req) /\ packets'[i].val = packets[i].val
    BY <1>4 DEF About
  <2>2. real'[k] = real[k]
    BY <1>2, <2>1
  <2> QED BY <2>1, <2>2 DEF StoreInv, LastIsRight
<1>7. AppliedHolds' /\ FrameHolds' /\ PressedHolds'
  BY <1>1, <1>2 DEF AppliedHolds, FrameHolds, PressedHolds
<1>8. CacheIsRight'
  <2> SUFFICES ASSUME NEW k \in Key, k \notin Keys(req), k \notin doubtful, k[1] \in online,
                      ~InTransit(k)'
               PROVE  Agrees(cache, k)'
    BY <1>1 DEF CacheIsRight
  <2>1. ~InTransit(k)
    BY <1>4 DEF InTransit, About
  <2>2. Agrees(cache, k)
    BY <1>1, <2>1 DEF StoreInv, CacheIsRight
  <2> QED BY <1>1, <1>2, <2>2 DEF Agrees
<1> QED BY <1>5, <1>6, <1>7, <1>8 DEF StoreInv

LEMMA AnswerLostStep ==
  ASSUME StoreInv, AsyncType', AnswerLost PROVE StoreInv'
<1>1. /\ async.step = "applied" /\ async'.step = "idle"
      /\ doubtful' = doubtful \cup Keys(async.req)
      /\ UNCHANGED <<real, cache, online, packets>>
  BY RestType DEF AnswerLost
<1>2. StoreType' /\ LastIsRight' /\ AppliedHolds' /\ FrameHolds' /\ PressedHolds'
  BY <1>1 DEF StoreInv, StoreType, LastIsRight, AppliedHolds, FrameHolds, PressedHolds, About
<1>3. CacheIsRight'
  BY <1>1 DEF StoreInv, CacheIsRight, Agrees, InTransit
<1> QED BY <1>2, <1>3 DEF StoreInv

LEMMA AnsweredStep ==
  ASSUME StoreInv, AsyncType', Answered PROVE StoreInv'
<1> DEFINE req == async.req
<1>1. /\ async.step = "applied" /\ async'.step = "idle" /\ req.dev \notin Ir
      /\ doubtful' = (doubtful \ Keys(req)) \cup {k \in byHand : ~InTransit(k)}
      /\ UNCHANGED <<real, online, packets>>
  BY RestType DEF StoreInv, AsyncType, Answered
<1>2. /\ DOMAIN cache' = Key
      /\ \A k \in Key : cache'[k] = IF k \in Keys(req) THEN LastFor(req.sets, k[2]) ELSE cache[k]
  BY WrittenAt DEF Answered
<1>3. StoreType' /\ LastIsRight' /\ AppliedHolds' /\ FrameHolds' /\ PressedHolds'
  BY <1>1, <1>2 DEF StoreInv, StoreType, LastIsRight, AppliedHolds, FrameHolds, PressedHolds, About
<1>4. CacheIsRight'
  <2> SUFFICES ASSUME NEW k \in Key, k \notin doubtful', k[1] \in online, ~InTransit(k)
               PROVE  real[k] = Shown(k[1], k[2], cache'[k])
    BY <1>1 DEF CacheIsRight, Agrees, InTransit
  <2>1. CASE k \in Keys(req)
    <3>1. k \notin byHand
      BY <1>1
    <3>2. real[k] = LastFor(req.sets, k[2])
      BY <1>1, <2>1, <3>1 DEF StoreInv, AppliedHolds
    <3>3. cache'[k] = real[k]
      BY <1>2, <2>1, <3>2
    <3>4. k[1] \notin Ir
      BY <1>1, <2>1, KeysDev
    <3> QED BY <3>3, <3>4, ShownPlain
  <2>2. CASE k \notin Keys(req)
    BY <1>1, <1>2, <2>2 DEF StoreInv, CacheIsRight, Agrees
  <2> QED BY <2>1, <2>2
<1> QED BY <1>3, <1>4 DEF StoreInv

(* Steps of the async thread that deal with an appliance. *)
LEMMA TakeFrameStep ==
  ASSUME StoreInv, AsyncType', TakeFrame PROVE StoreInv'
<1> DEFINE req == Head(fifo)
<1>1. /\ async.step = "idle" /\ async' = [step |-> "frame", req |-> req]
      /\ UNCHANGED <<real, online, packets, doubtful>>
  BY TakenType DEF TakeFrame, Takes
<1>2. /\ DOMAIN cache' = Key
      /\ \A k \in Key : cache'[k] = IF k \in Keys(req) THEN LastFor(Treated(req.sets), k[2]) ELSE cache[k]
  BY WrittenTreated DEF TakeFrame
<1>3. StoreType' /\ LastIsRight' /\ AppliedHolds' /\ FrameHolds' /\ PressedHolds'
  BY <1>1, <1>2 DEF StoreInv, StoreType, LastIsRight, AppliedHolds, FrameHolds, PressedHolds, About
<1>4. CacheIsRight'
  <2> SUFFICES ASSUME NEW k \in Key, k \notin Keys(req), k \notin doubtful, k[1] \in online,
                      ~InTransit(k)
               PROVE  real[k] = Shown(k[1], k[2], cache'[k])
    BY <1>1 DEF CacheIsRight, Agrees, InTransit
  <2> QED BY <1>1, <1>2 DEF StoreInv, CacheIsRight, Agrees
<1> QED BY <1>3, <1>4 DEF StoreInv

LEMMA FrameSentStep ==
  ASSUME StoreInv, AsyncType', FrameSent PROVE StoreInv'
<1> DEFINE req == async.req
<1>1. /\ async.step = "frame" /\ async' = [step |-> "emitted", req |-> req] /\ req.dev \in Ir
      /\ doubtful' = {k \in doubtful : k[1] # req.dev}
      /\ UNCHANGED <<cache, online, packets>>
  BY GoesOnType DEF StoreInv, AsyncType, FrameSent, Ir
<1>2. /\ DOMAIN real' = Key
      /\ \A k \in Key : real'[k] = IF k[1] = req.dev THEN Shown(k[1], k[2], cache[k]) ELSE real[k]
  BY DEF FrameSent
<1>3. LastIsRight' /\ \A k \in Key : InTransit(k)' <=> InTransit(k)
  BY <1>1, <1>2, SameReports DEF StoreInv
<1>4. StoreType' /\ AppliedHolds' /\ FrameHolds' /\ PressedHolds'
  BY <1>1, <1>2 DEF StoreInv, StoreType, AppliedHolds, FrameHolds, PressedHolds
<1>5. CacheIsRight'
  <2> SUFFICES ASSUME NEW k \in Key, k \notin doubtful', k[1] \in online, ~InTransit(k)
               PROVE  real'[k] = Shown(k[1], k[2], cache[k])
    BY <1>1, <1>3 DEF CacheIsRight, Agrees
  <2>1. CASE k[1] = req.dev
    BY <1>2, <2>1
  <2>2. CASE k[1] # req.dev
    <3>1. k \notin Keys(req)
      BY <2>2, KeysDev
    <3> QED BY <1>1, <1>2, <2>2, <3>1 DEF StoreInv, CacheIsRight, Agrees
  <2> QED BY <2>1, <2>2
<1> QED BY <1>3, <1>4, <1>5 DEF StoreInv

LEMMA FrameFailsStep ==
  ASSUME StoreInv, AsyncType', FrameFails PROVE StoreInv'
<1>1. /\ async.step = "frame" /\ async'.step = "idle"
      /\ doubtful' = doubtful \cup Keys(async.req)
      /\ UNCHANGED <<real, cache, online, packets>>
  BY RestType DEF FrameFails
<1>2. StoreType' /\ LastIsRight' /\ AppliedHolds' /\ FrameHolds' /\ PressedHolds'
  BY <1>1 DEF StoreInv, StoreType, LastIsRight, AppliedHolds, FrameHolds, PressedHolds, About
<1>3. CacheIsRight'
  BY <1>1 DEF StoreInv, CacheIsRight, Agrees, InTransit
<1> QED BY <1>2, <1>3 DEF StoreInv

LEMMA FrameAnsweredStep ==
  ASSUME StoreInv, AsyncType', FrameAnswered PROVE StoreInv'
<1> DEFINE req == async.req
<1>1. /\ async.step = "emitted" /\ async'.step = "idle" /\ req.dev \in Ac
      /\ doubtful' = doubtful \cup Overruled(req.dev, req.sets)
      /\ UNCHANGED <<real, online, packets>>
  BY RestType DEF StoreInv, AsyncType, FrameAnswered
<1>2. /\ DOMAIN cache' = Key
      /\ \A k \in Key : cache'[k] = IF k \in Keys(req) THEN LastFor(req.sets, k[2]) ELSE cache[k]
  BY WrittenAt DEF FrameAnswered
<1>3. StoreType' /\ LastIsRight' /\ AppliedHolds' /\ FrameHolds' /\ PressedHolds'
  BY <1>1, <1>2 DEF StoreInv, StoreType, LastIsRight, AppliedHolds, FrameHolds, PressedHolds, About
<1>4. CacheIsRight'
  <2> SUFFICES ASSUME NEW k \in Key, k \notin doubtful', k[1] \in online, ~InTransit(k)
               PROVE  real[k] = Shown(k[1], k[2], cache'[k])
    BY <1>1 DEF CacheIsRight, Agrees, InTransit
  <2>1. real[k] = Shown(k[1], k[2], cache[k])
    BY <1>1 DEF StoreInv, CacheIsRight, Agrees
  <2>2. CASE k \in Keys(req)
    <3>1. cache[k] = LastFor(Treated(req.sets), k[2])
      BY <1>1, <2>2 DEF StoreInv, FrameHolds
    <3>2. Shown(k[1], k[2], LastFor(Treated(req.sets), k[2])) = Shown(k[1], k[2], LastFor(req.sets, k[2]))
      BY <1>1, <2>2, KeysAt DEF Overruled
    <3> QED BY <1>2, <2>1, <2>2, <3>1, <3>2
  <2>3. CASE k \notin Keys(req)
    BY <1>2, <2>1, <2>3
  <2> QED BY <2>2, <2>3
<1> QED BY <1>3, <1>4 DEF StoreInv

LEMMA TakeChannelStep ==
  ASSUME StoreInv, AsyncType', TakeChannel PROVE StoreInv'
<1> DEFINE req == Head(fifo)
<1>1. async.step = "idle" /\ UNCHANGED <<real, online, packets, byHand>>
  BY DEF TakeChannel, Takes
<1>2. CASE req.sets[1].id = Channel
  <2>1. async'.step = "keys" /\ UNCHANGED devices
    BY <1>1, <1>2, TakenType DEF TakeChannel, devices
  <2> QED BY <1>1, <2>1, AsyncMoves
<1>3. CASE req.sets[1].id # Channel
  <2>1. async'.step = "idle" /\ doubtful' = doubtful \cup Keys(req)
    BY <1>3, RestType DEF TakeChannel
  <2>2. /\ DOMAIN cache' = Key
        /\ \A k \in Key : cache'[k] = IF k \in Keys(req) THEN LastFor(req.sets, k[2]) ELSE cache[k]
    <3>1. cache' = Written(cache, req.dev, req.sets)
      BY <1>3 DEF TakeChannel
    <3> QED BY <3>1, WrittenAt
  <2>3. StoreType' /\ LastIsRight' /\ AppliedHolds' /\ FrameHolds' /\ PressedHolds'
    BY <1>1, <2>1, <2>2
       DEF StoreInv, StoreType, LastIsRight, AppliedHolds, FrameHolds, PressedHolds, About
  <2>4. CacheIsRight'
    BY <1>1, <2>1, <2>2 DEF StoreInv, CacheIsRight, Agrees, InTransit
  <2> QED BY <2>3, <2>4 DEF StoreInv
<1> QED BY <1>2, <1>3

LEMMA KeysPressedStep ==
  ASSUME StoreInv, AsyncType', KeysPressed PROVE StoreInv'
<1> DEFINE key == <<async.req.dev, Channel>>
           val == Shown(key[1], key[2], async.req.sets[1].val)
<1>1. /\ async.step = "keys" /\ async' = [step |-> "pressed", req |-> async.req]
      /\ key[1] \in Ir /\ UNCHANGED <<cache, online, packets>>
  BY GoesOnType DEF StoreInv, AsyncType, KeysPressed, Ir
<1>2. /\ DOMAIN real' = Key
      /\ \A k \in Key : k # key => real'[k] = real[k] /\ (k \in doubtful => k \in doubtful')
      /\ key \in Key => key \in doubtful' \/ real'[key] = val
  <2>1. DOMAIN real = Key
    BY DEF StoreInv, StoreType
  <2>2. CASE real' = [real EXCEPT ![key] = val] /\ doubtful' = doubtful \ {key}
    BY <2>1, <2>2
  <2>3. CASE \E v \in Value[key] : real' = [real EXCEPT ![key] = v] /\ doubtful' = doubtful \cup {key}
    BY <2>1, <2>3
  <2> QED BY <2>2, <2>3 DEF KeysPressed
<1>3. \A k \in Key : k[1] \notin Ir => real'[k] = real[k]
  BY <1>1, <1>2
<1>4. LastIsRight' /\ \A k \in Key : InTransit(k)' <=> InTransit(k)
  BY <1>1, <1>3, SameReports DEF StoreInv
<1>5. StoreType' /\ AppliedHolds' /\ FrameHolds'
  BY <1>1, <1>2 DEF StoreInv, StoreType, AppliedHolds, FrameHolds
<1>6. PressedHolds'
  BY <1>1, <1>2 DEF PressedHolds
<1>7. CacheIsRight'
  <2> SUFFICES ASSUME NEW k \in Key, k \notin Keys(async.req), k \notin doubtful',
                      k[1] \in online, ~InTransit(k)
               PROVE  real'[k] = Shown(k[1], k[2], cache[k])
    BY <1>1, <1>4 DEF CacheIsRight, Agrees
  <2>1. CASE k # key
    BY <1>1, <1>2, <2>1 DEF StoreInv, CacheIsRight, Agrees
  <2>2. CASE k = key
    <3>1. 1 \in DOMAIN async.req.sets /\ async.req.sets[1].id = Channel
      BY <1>1 DEF StoreInv, AsyncType
    <3> QED BY <2>2, <3>1 DEF Keys
  <2> QED BY <2>1, <2>2
<1> QED BY <1>4, <1>5, <1>6, <1>7 DEF StoreInv

LEMMA ChannelSetStep ==
  ASSUME StoreInv, AsyncType', ChannelSet PROVE StoreInv'
<1> DEFINE req == async.req
<1>1. /\ async.step = "pressed" /\ async'.step = "idle" /\ req.dev \in Stb
      /\ doubtful' = doubtful \cup
           {k \in Keys(req) : k[2] # Channel \/ LastFor(req.sets, Channel) # req.sets[1].val}
      /\ UNCHANGED <<real, online, packets>>
  BY RestType DEF StoreInv, AsyncType, ChannelSet
<1>2. /\ DOMAIN cache' = Key
      /\ \A k \in Key : cache'[k] = IF k \in Keys(req) THEN LastFor(req.sets, k[2]) ELSE cache[k]
  BY WrittenAt DEF ChannelSet
<1>3. StoreType' /\ LastIsRight' /\ AppliedHolds' /\ FrameHolds' /\ PressedHolds'
  BY <1>1, <1>2 DEF StoreInv, StoreType, LastIsRight, AppliedHolds, FrameHolds, PressedHolds, About
<1>4. CacheIsRight'
  <2> SUFFICES ASSUME NEW k \in Key, k \notin doubtful', k[1] \in online, ~InTransit(k)
               PROVE  real[k] = Shown(k[1], k[2], cache'[k])
    BY <1>1 DEF CacheIsRight, Agrees, InTransit
  <2>1. CASE k \in Keys(req)
    <3>1. k[2] = Channel /\ LastFor(req.sets, Channel) = req.sets[1].val
      BY <1>1, <2>1
    <3>2. k = <<req.dev, Channel>>
      BY <2>1, <3>1, KeyParts, KeysDev
    <3>3. real[k] = Shown(k[1], k[2], req.sets[1].val)
      BY <1>1, <3>2 DEF StoreInv, PressedHolds
    <3> QED BY <1>2, <2>1, <3>1, <3>3
  <2>2. CASE k \notin Keys(req)
    BY <1>1, <1>2, <2>2 DEF StoreInv, CacheIsRight, Agrees
  <2> QED BY <2>1, <2>2
<1> QED BY <1>3, <1>4 DEF StoreInv

(* An appliance does something that the hub does not hear of. *)
LEMMA Unheard ==
  ASSUME StoreInv, AsyncType', NEW key, key[1] \in Ir, NEW v,
         real' = [real EXCEPT ![key] = v], doubtful' = doubtful \cup {key},
         UNCHANGED <<cache, online, packets, byHand>>,
         \/ async' = async
         \/ async.step = "idle" /\ async'.step = "idle"
  PROVE  StoreInv'
<1>1. /\ DOMAIN real' = Key
      /\ \A k \in Key : k # key => real'[k] = real[k]
  BY DEF StoreInv, StoreType
<1>2. LastIsRight' /\ \A k \in Key : InTransit(k)' <=> InTransit(k)
  <2>1. \A k \in Key : k[1] \notin Ir => real'[k] = real[k]
    BY <1>1
  <2> QED BY <2>1, SameReports DEF StoreInv
<1>3. AppliedHolds'
  <2> SUFFICES ASSUME async.step = "applied", async' = async,
                      NEW k \in Key, k \in Keys(async.req), k \notin byHand
               PROVE  real'[k] = LastFor(async.req.sets, k[2])
    BY DEF AppliedHolds
  <2>1. k[1] \notin Ir
    BY KeysDev DEF StoreInv, AsyncType
  <2> QED BY <1>1, <2>1 DEF StoreInv, AppliedHolds
<1>4. StoreType' /\ FrameHolds' /\ PressedHolds'
  BY <1>1 DEF StoreInv, StoreType, FrameHolds, PressedHolds
<1>5. CacheIsRight'
  BY <1>1, <1>2 DEF StoreInv, CacheIsRight, Agrees
<1> QED BY <1>2, <1>3, <1>4, <1>5 DEF StoreInv

LEMMA TakeKeyStep ==
  ASSUME StoreInv, AsyncType', TakeKey PROVE StoreInv'
<1> DEFINE key == <<Head(fifo).dev, Channel>>
<1>1. /\ async.step = "idle" /\ async'.step = "idle" /\ key[1] \in Ir
      /\ UNCHANGED <<cache, online, packets, byHand>>
      /\ doubtful' = doubtful \cup {key}
  BY RestType DEF TakeKey, Takes, Ir
<1>2. PICK v \in Value[key] : real' = [real EXCEPT ![key] = v]
  BY DEF TakeKey
<1> QED BY <1>1, <1>2, Unheard

(* Devices and the monitor. *)
LEMMA ByHandUnseenStep ==
  ASSUME StoreInv, AsyncType', NEW k \in Key, NEW v \in Value[k], ByHandUnseen(k, v)
  PROVE  StoreInv'
BY Unheard DEF ByHandUnseen, requests

LEMMA ByHandStep ==
  ASSUME StoreInv, AsyncType', NEW key \in Key, NEW v \in Value[key], ByHand(key, v)
  PROVE  StoreInv'
<1> DEFINE p == [kind |-> "status", dev |-> key[1], id |-> key[2], val |-> v, old |-> FALSE]
<1>1. /\ key[1] \in Wifi /\ real' = [real EXCEPT ![key] = v] /\ packets' = Append(packets, p)
      /\ byHand' = IF async.step = "applied" /\ key \in Keys(async.req)
                   THEN byHand \cup {key} ELSE byHand
      /\ UNCHANGED <<async, cache, online, doubtful>>
  BY DEF ByHand, requests
<1>2. /\ DOMAIN real' = Key /\ real'[key] = v
      /\ \A k \in Key : k # key => real'[k] = real[k]
  BY <1>1 DEF StoreInv, StoreType
<1>3. p \in Packet /\ StoreType
  BY <1>1, KeyParts, AutomationAssumption DEF Packet, StoreInv
<1>n. PICK n \in Nat : n = Len(packets) + 1
  BY <1>3 DEF StoreType
<1>4. /\ packets' \in Seq(Packet) /\ n \in DOMAIN packets' /\ packets'[n] = p
      /\ \A i \in DOMAIN packets' : i \in Nat
      /\ \A i \in DOMAIN packets : i \in DOMAIN packets' /\ packets'[i] = packets[i] /\ i < n
      /\ \A i \in DOMAIN packets' : i \in DOMAIN packets \/ i = n
      /\ \A k \in Key : InTransit(k) => InTransit(k)'
  BY <1>1, <1>3, <1>n, NewPacket
<1>5. About(n, key)' /\ \A k \in Key : k # key => ~About(n, k)'
  <2>1. key = <<p.dev, p.id>> /\ p.kind = "status"
    BY KeyParts
  <2> HIDE DEF p
  <2> QED BY <1>4, <2>1 DEF About
<1>6. LastIsRight'
  <2> SUFFICES ASSUME NEW k \in Key, NEW i \in DOMAIN packets', About(i, k)', ~packets'[i].old,
                      \A j \in DOMAIN packets' : j > i => ~About(j, k)'
               PROVE  packets'[i].val = real'[k]
    BY DEF LastIsRight
  <2>1. CASE k = key
    <3>1. i = n
      BY <1>4, <1>5, <2>1
    <3> QED BY <1>2, <1>4, <2>1, <3>1
  <2>2. CASE k # key
    <3>1. i \in DOMAIN packets /\ packets'[i] = packets[i]
      BY <1>4, <1>5, <2>2
    <3>2. About(i, k) /\ ~packets[i].old
      BY <3>1 DEF About
    <3>3. \A j \in DOMAIN packets : j > i => ~About(j, k)
      BY <1>4 DEF About
    <3> QED BY <1>2, <2>2, <3>1, <3>2, <3>3 DEF StoreInv, LastIsRight
  <2> QED BY <2>1, <2>2
<1>7. StoreType' /\ AppliedHolds' /\ FrameHolds'
  BY <1>1, <1>2, <1>4 DEF StoreInv, StoreType, AppliedHolds, FrameHolds
<1>8. PressedHolds'
  <2> SUFFICES ASSUME async.step = "pressed", NEW k \in Key, k = <<async.req.dev, Channel>>,
                      k \notin doubtful
               PROVE  real'[k] = Shown(k[1], k[2], async.req.sets[1].val)
    BY <1>1 DEF PressedHolds
  <2>1. k[1] \in Ir
    BY DEF StoreInv, AsyncType, Ir
  <2>2. k # key
    BY <1>1, <2>1 DEF Wifi
  <2> QED BY <1>2, <2>2 DEF StoreInv, PressedHolds
<1>9. CacheIsRight'
  <2> SUFFICES ASSUME NEW k \in Key, k \notin doubtful, k[1] \in online, ~InTransit(k)',
                      ~(async.step \in {"applied", "frame", "pressed"} /\ k \in Keys(async.req))
               PROVE  real'[k] = Shown(k[1], k[2], cache[k])
    BY <1>1 DEF CacheIsRight, Agrees
  <2>1. k # key
    BY <1>4, <1>5 DEF InTransit, About
  <2>2. ~InTransit(k)
    BY <1>4
  <2> QED BY <1>2, <2>1, <2>2 DEF StoreInv, CacheIsRight, Agrees
<1> QED BY <1>1, <1>6, <1>7, <1>8, <1>9 DEF StoreInv

LEMMA OtherPacketStep ==
  ASSUME StoreInv, AsyncType', NEW p \in Packet, p.kind # "status",
         packets' = Append(packets, p),
         UNCHANGED <<async, real, cache, online, doubtful, byHand>>
  PROVE  StoreInv'
<1>1. LastIsRight' /\ packets' \in Seq(Packet) /\ \A k \in Key : InTransit(k) => InTransit(k)'
  BY NewPacket, NewOtherPacket DEF StoreInv
<1>2. StoreType' /\ AppliedHolds' /\ FrameHolds' /\ PressedHolds'
  BY <1>1 DEF StoreInv, StoreType, AppliedHolds, FrameHolds, PressedHolds
<1>3. CacheIsRight'
  BY <1>1 DEF StoreInv, CacheIsRight, Agrees
<1> QED BY <1>1, <1>2, <1>3 DEF StoreInv

LEMMA StatusChangedStep ==
  ASSUME StoreInv, AsyncType', StatusChanged PROVE StoreInv'
<1> DEFINE p == Head(packets)
           key == <<p.dev, p.id>>
           pending == async.step = "applied" /\ key \in Keys(async.req)
<1>1. /\ packets # <<>> /\ p.kind = "status" /\ packets' = Tail(packets)
      /\ cache' = [cache EXCEPT ![key] = p.val]
      /\ doubtful' = IF ~p.old THEN doubtful \ {key}
                     ELSE IF pending THEN doubtful ELSE doubtful \cup {key}
      /\ UNCHANGED <<async, real, online, byHand>>
  BY DEF StatusChanged, Next1, requests
<1>2. p = packets[1] /\ 1 \in DOMAIN packets
  BY <1>1 DEF StoreInv, StoreType
<1>3. p.dev \notin Ir
  BY <1>1, <1>2, ReportsOfWifi DEF StoreInv, Wifi
<1>4. \A k : About(1, k) <=> k = key
  BY <1>1, <1>2 DEF About
<1>5. /\ packets' \in Seq(Packet) /\ LastIsRight'
      /\ \A k \in Key : InTransit(k) /\ ~About(1, k) => InTransit(k)'
      /\ \A k \in Key : About(1, k) /\ ~InTransit(k)' /\ ~packets[1].old
                          => packets[1].val = real[k]
  BY <1>1, NextReport DEF StoreInv
<1>6. /\ DOMAIN cache' = Key
      /\ \A k \in Key : cache'[k] = IF k = key THEN p.val ELSE cache[k]
  BY <1>1 DEF StoreInv, StoreType
<1>7. StoreType' /\ AppliedHolds'
  BY <1>1, <1>5, <1>6 DEF StoreInv, StoreType, AppliedHolds
<1>8. FrameHolds'
  <2> SUFFICES ASSUME async.step \in {"frame", "emitted"}, NEW k \in Key, k \in Keys(async.req)
               PROVE  cache'[k] = LastFor(Treated(async.req.sets), k[2])
    BY <1>1 DEF FrameHolds
  <2>1. k # key
    BY <1>3, KeysDev DEF StoreInv, AsyncType, Ir
  <2> QED BY <1>6, <2>1 DEF StoreInv, FrameHolds
<1>9. PressedHolds'
  <2> SUFFICES ASSUME async.step = "pressed", NEW k \in Key, k = <<async.req.dev, Channel>>,
                      k \notin doubtful'
               PROVE  real[k] = Shown(k[1], k[2], async.req.sets[1].val)
    BY <1>1 DEF PressedHolds
  <2>1. k # key
    BY <1>3 DEF StoreInv, AsyncType, Ir
  <2>2. k \notin doubtful
    BY <1>1, <2>1
  <2> QED BY <2>2 DEF StoreInv, PressedHolds
<1>10. CacheIsRight'
  <2> SUFFICES ASSUME NEW k \in Key, k \notin doubtful', k[1] \in online, ~InTransit(k)',
                      ~(async.step \in {"applied", "frame", "pressed"} /\ k \in Keys(async.req))
               PROVE  real[k] = Shown(k[1], k[2], cache'[k])
    BY <1>1 DEF CacheIsRight, Agrees
  <2>1. CASE k = key
    <3>1. ~p.old
      BY <1>1, <2>1
    <3>2. cache'[k] = real[k]
      BY <1>2, <1>4, <1>5, <1>6, <2>1, <3>1
    <3>3. k[1] \notin Ir
      BY <1>3, <2>1
    <3> QED BY <3>2, <3>3, ShownPlain
  <2>2. CASE k # key
    <3>1. ~InTransit(k) /\ k \notin doubtful
      BY <1>1, <1>4, <1>5, <2>2
    <3> QED BY <1>1, <1>6, <2>2, <3>1 DEF StoreInv, CacheIsRight, Agrees
  <2> QED BY <2>1, <2>2
<1> QED BY <1>5, <1>7, <1>8, <1>9, <1>10 DEF StoreInv

(* The monitor takes a packet that changes no value, or loses one. *)
LEMMA PacketGone ==
  ASSUME StoreInv, AsyncType', packets # <<>>, packets' = Tail(packets),
         UNCHANGED <<async, real, cache, online, byHand>>,
         doubtful \subseteq doubtful',
         Head(packets).kind = "status" => <<Head(packets).dev, Head(packets).id>> \in doubtful'
  PROVE  StoreInv'
<1>1. \A k : About(1, k) => k \in doubtful'
  BY DEF About, StoreInv, StoreType
<1>2. /\ packets' \in Seq(Packet) /\ LastIsRight'
      /\ \A k \in Key : InTransit(k) /\ ~About(1, k) => InTransit(k)'
  BY NextReport DEF StoreInv
<1>3. StoreType' /\ AppliedHolds' /\ FrameHolds' /\ PressedHolds'
  BY <1>2 DEF StoreInv, StoreType, AppliedHolds, FrameHolds, PressedHolds
<1>4. CacheIsRight'
  BY <1>1, <1>2 DEF StoreInv, CacheIsRight, Agrees
<1> QED BY <1>2, <1>3, <1>4 DEF StoreInv

LEMMA OnlineStep ==
  ASSUME StoreInv, AsyncType', NEW d \in Wifi, GoOffline(d) \/ ComeOnline(d)
  PROVE  StoreInv'
<1>1. async' = async /\ UNCHANGED <<real, packets, byHand>>
  BY DEF GoOffline, ComeOnline, requests
<1>2. LastIsRight' /\ \A k \in Key : InTransit(k)' <=> InTransit(k)
  BY <1>1, SameReports DEF StoreInv
<1>3. CASE GoOffline(d)
  <2>1. online' = online \ {d} /\ d \notin Ir /\ UNCHANGED <<cache, doubtful>>
    BY <1>3 DEF GoOffline, Wifi
  <2>2. StoreType' /\ AppliedHolds' /\ FrameHolds' /\ PressedHolds'
    BY <1>1, <2>1 DEF StoreInv, StoreType, AppliedHolds, FrameHolds, PressedHolds
  <2>3. CacheIsRight'
    BY <1>1, <1>2, <2>1 DEF StoreInv, CacheIsRight, Agrees
  <2> QED BY <1>2, <2>2, <2>3 DEF StoreInv
<1>4. CASE ComeOnline(d)
  <2>1. /\ online' = online \cup {d} /\ d \in Dev /\ d \notin Ir
        /\ doubtful' = {k \in doubtful : k[1] # d}
        /\ DOMAIN cache' = Key
        /\ \A k \in Key : cache'[k] = IF k[1] = d THEN real[k] ELSE cache[k]
    BY <1>4 DEF ComeOnline, Wifi
  <2>2. StoreType' /\ AppliedHolds'
    BY <1>1, <2>1 DEF StoreInv, StoreType, AppliedHolds
  <2>3. FrameHolds'
    <3> SUFFICES ASSUME async.step \in {"frame", "emitted"}, NEW k \in Key, k \in Keys(async.req)
                 PROVE  cache'[k] = LastFor(Treated(async.req.sets), k[2])
      BY <1>1 DEF FrameHolds
    <3>1. k[1] # d
      BY <2>1, KeysDev DEF StoreInv, AsyncType, Ir
    <3> QED BY <2>1, <3>1 DEF StoreInv, FrameHolds
  <2>4. PressedHolds'
    <3> SUFFICES ASSUME async.step = "pressed", NEW k \in Key, k = <<async.req.dev, Channel>>,
                        k \notin doubtful'
                 PROVE  real[k] = Shown(k[1], k[2], async.req.sets[1].val)
      BY <1>1 DEF PressedHolds
    <3>1. k[1] # d
      BY <2>1 DEF StoreInv, AsyncType, Ir
    <3> QED BY <2>1, <3>1 DEF StoreInv, PressedHolds
  <2>5. CacheIsRight'
    <3> SUFFICES ASSUME NEW k \in Key, k \notin doubtful', k[1] \in online', ~InTransit(k),
                        ~(async.step \in {"applied", "frame", "pressed"} /\ k \in Keys(async.req))
                 PROVE  real[k] = Shown(k[1], k[2], cache'[k])
      BY <1>1, <1>2 DEF CacheIsRight, Agrees
    <3>1. CASE k[1] = d
      BY <2>1, <3>1, ShownPlain
    <3>2. CASE k[1] # d
      BY <2>1, <3>2 DEF StoreInv, CacheIsRight, Agrees
    <3> QED BY <3>1, <3>2
  <2> QED BY <1>2, <2>2, <2>3, <2>4, <2>5 DEF StoreInv
<1> QED BY <1>3, <1>4

LEMMA AsyncStoreStep ==
  ASSUME StoreInv, AsyncType', AsyncThread PROVE StoreInv'
<1>1. CASE TakeUnknown \/ TakeRefused \/ TakeSend
  <2>1. async.step = "idle" /\ UNCHANGED devices
    BY <1>1 DEF TakeUnknown, TakeRefused, TakeSend, Takes
  <2>2. async'.step \in {"idle", "sent"}
    BY <1>1, RestType, TakenType DEF TakeUnknown, TakeRefused, TakeSend
  <2> QED BY <2>1, <2>2, AsyncMoves
<1>2. CASE TakeMode
  <2>1. async.step = "idle" /\ UNCHANGED devices
    BY <1>2 DEF TakeMode, Takes
  <2>2. async'.step \in {"idle", "announce"}
    BY <1>2, RestType, TakenType DEF TakeMode
  <2> QED BY <2>1, <2>2, AsyncMoves
<1>3. CASE Announce \/ Refused \/ FrameUnanswered
  <2>1. async.step \in {"announce", "sent", "emitted"} /\ UNCHANGED devices /\ async'.step = "idle"
    BY <1>3, RestType DEF Announce, Refused, FrameUnanswered
  <2> QED BY <2>1, AsyncMoves
<1> QED BY <1>1, <1>2, <1>3, AppliesStep, AnswerLostStep, AnsweredStep, TakeFrameStep,
           FrameSentStep, FrameFailsStep, FrameAnsweredStep, TakeChannelStep, KeysPressedStep,
           ChannelSetStep, TakeKeyStep DEF AsyncThread

LEMMA MonitorStoreStep ==
  ASSUME StoreInv, AsyncType', Monitor PROVE StoreInv'
<1>1. CASE SensorEvent \/ ModeKey
  <2>1. /\ packets # <<>> /\ packets' = Tail(packets) /\ Head(packets).kind # "status"
        /\ UNCHANGED <<async, real, cache, online, byHand, doubtful>>
    BY <1>1 DEF SensorEvent, ModeKey, Next1, requests
  <2> QED BY <2>1, PacketGone
<1>2. CASE PacketLost
  BY <1>2, PacketGone DEF PacketLost, requests
<1>3. CASE MonitorAnnounce
  <2>1. async' = async /\ UNCHANGED devices
    BY <1>3 DEF MonitorAnnounce, requests
  <2> QED BY <2>1, AsyncMoves
<1> QED BY <1>1, <1>2, <1>3, StatusChangedStep DEF Monitor

LEMMA DeviceStoreStep ==
  ASSUME StoreInv, AsyncType',
         \/ \E k \in Key : \E v \in Value[k] : ByHand(k, v) \/ ByHandUnseen(k, v)
         \/ \E d \in Wifi : \/ \E e \in Event : Reports(d, e)
                           \/ \E m \in Mode : PressMode(d, m)
                           \/ GoOffline(d) \/ ComeOnline(d)
  PROVE  StoreInv'
<1>1. ASSUME NEW d \in Wifi, NEW e \in Event, Reports(d, e) PROVE StoreInv'
  <2> DEFINE p == [kind |-> "event", dev |-> d, event |-> e]
  <2>1. /\ packets' = Append(packets, p) /\ p \in Packet /\ p.kind # "status"
        /\ UNCHANGED <<async, real, cache, online, doubtful, byHand>>
    BY <1>1 DEF Reports, Packet, requests
  <2> QED BY <2>1, OtherPacketStep
<1>2. ASSUME NEW d \in Wifi, NEW m \in Mode, PressMode(d, m) PROVE StoreInv'
  <2> DEFINE p == [kind |-> "mode", dev |-> d, val |-> m]
  <2>1. /\ packets' = Append(packets, p) /\ p \in Packet /\ p.kind # "status"
        /\ UNCHANGED <<async, real, cache, online, doubtful, byHand>>
    BY <1>2 DEF PressMode, Packet, requests
  <2> QED BY <2>1, OtherPacketStep
<1> QED BY <1>1, <1>2, ByHandStep, ByHandUnseenStep, OnlineStep

(* For any devices and appliances, requests and reports, however the async *)
(* thread (sync_dev_status after an answer, gree_set_status before it) and *)
(* the monitor (_status_updated, dev_recovered) take turns in writing what *)
(* the hub remembers: it is what the device has, unless a report of it or  *)
(* a request for it is under way, the device is away, or something was     *)
(* lost, overtaken or done unseen.                                         *)
THEOREM WhatIsRemembered == Spec => []CacheIsRight
<1>1. Init => StoreInv
  BY InitStore
<1>2. StoreInv /\ [Next]_vars => StoreInv'
  <2> SUFFICES ASSUME StoreInv, [Next]_vars PROVE StoreInv'
    OBVIOUS
  <2>1. AsyncType'
    BY AsyncTypeKept DEF StoreInv
  <2>2. CASE UNCHANGED vars
    <3>1. async' = async /\ UNCHANGED devices
      BY <2>2 DEF vars, requests
    <3> QED BY <2>1, <3>1, AsyncMoves
  <2>3. CASE (\E s \in Scene : EnterScene(s)) \/ (\E w \in Worker : Scenes(w))
    <3>1. async' = async /\ UNCHANGED devices
      BY <2>3 DEF EnterScene, Scenes, Start, Check, Sleep, Push, EndScene, requests
    <3> QED BY <2>1, <3>1, AsyncMoves
  <2> QED BY <2>1, <2>2, <2>3, AsyncStoreStep, MonitorStoreStep, DeviceStoreStep DEF Next
<1>3. StoreInv => CacheIsRight
  BY DEF StoreInv
<1> QED BY <1>1, <1>2, <1>3, PTL DEF Spec

-----------------------------------------------------------------------------
(* What execute_action makes of the acts of an action.                     *)

(* Grouped is what its definition says: the recursive function exists.     *)
LEMMA GroupedFcn ==
  ASSUME NEW A, NEW acts \in Seq(A), NEW by
  PROVE  \E F : /\ F = [n \in 0..Len(acts) |-> IF n = 0 THEN <<>> ELSE Put(F[n - 1], acts[n], by)]
                /\ Grouped(acts, by) = F[Len(acts)]
<1> DEFINE Is(n, F) == F = [i \in 0..n |-> IF i = 0 THEN <<>> ELSE Put(F[i - 1], acts[i], by)]
<1>1. \A n \in Nat : \E F : Is(n, F)
  <2> DEFINE T == {n \in Nat : ~ \E F : Is(n, F)}
  <2> SUFFICES ASSUME T # {} PROVE FALSE
    OBVIOUS
  <2>1. PICK n \in T : \A m \in T : n <= m
    BY LeastNat
  <2>2. n # 0
    <3> DEFINE F == [i \in 0..0 |-> <<>>]
    <3>1. Is(0, F)
      OBVIOUS
    <3>2. \E E : Is(0, E)
      <4> HIDE DEF F
      <4> QED BY <3>1
    <3> QED BY <3>2, <2>1
  <2>3. n - 1 \in Nat /\ n - 1 \notin T /\ n \in Nat
    <3> HIDE DEF Is
    <3> QED BY <2>1, <2>2
  <2>4. PICK F : Is(n - 1, F)
    BY <2>3
  <2> DEFINE G == [i \in 0..n |-> IF i = n THEN Put(F[n - 1], acts[n], by) ELSE F[i]]
  <2> DEFINE Step(i) == IF i = 0 THEN <<>> ELSE Put(G[i - 1], acts[i], by)
  <2>5. ASSUME NEW i \in 0..n PROVE G[i] = Step(i)
    <3>1. CASE i = n
      <4>1. G[n - 1] = F[n - 1] /\ n # 0
        BY <2>2, <2>3
      <4>2. G[n] = Put(F[n - 1], acts[n], by)
        BY <2>3
      <4> HIDE DEF G
      <4> QED BY <3>1, <4>1, <4>2
    <3>2. CASE i # n /\ i = 0
      <4>1. G[i] = F[i] /\ i \in 0..(n - 1)
        BY <3>2, <2>3
      <4>2. F[i] = <<>>
        BY <4>1, <3>2, <2>4
      <4> QED BY <4>1, <4>2, <3>2
    <3>3. CASE i # n /\ i # 0
      <4>1. G[i] = F[i] /\ i \in 0..(n - 1) /\ i - 1 \in 0..(n - 1) /\ i - 1 \in 0..n /\ i - 1 # n
        BY <3>3, <2>3
      <4>2. G[i - 1] = F[i - 1]
        BY <4>1
      <4>3. F[i] = Put(F[i - 1], acts[i], by)
        BY <4>1, <3>3, <2>4
      <4> HIDE DEF G
      <4> QED BY <4>1, <4>2, <4>3, <3>3
    <3> QED BY <3>1, <3>2, <3>3
  <2>6. G = [i \in 0..n |-> G[i]]
    OBVIOUS
  <2> HIDE DEF G
  <2>7. Is(n, G)
    BY <2>5, <2>6
  <2> QED BY <2>1, <2>7
<1>2. Len(acts) \in Nat
  BY LenProperties
<1> DEFINE H == CHOOSE F : Is(Len(acts), F)
<1>3. Is(Len(acts), H)
  <2>1. PICK F : Is(Len(acts), F)
    BY <1>1, <1>2
  <2> QED BY <2>1
<1>4. Grouped(acts, by) = H[Len(acts)]
  BY DEF Grouped
<1> HIDE DEF H
<1> QED BY <1>3, <1>4

(* The last act is put to what the others came to.                         *)
LEMMA GroupedAppend ==
  ASSUME NEW A, NEW acts \in Seq(A), NEW a \in A, NEW by
  PROVE  Grouped(Append(acts, a), by) = Put(Grouped(acts, by), a, by)
<1>1. PICK r : r = Append(acts, a)
  OBVIOUS
<1>2. /\ r \in Seq(A) /\ Len(r) = Len(acts) + 1 /\ Len(acts) \in Nat
      /\ \A i \in 1..Len(acts) : r[i] = acts[i]
      /\ r[Len(acts) + 1] = a
  BY <1>1, AppendProperties, LenProperties
<1>3. PICK F : /\ F = [n \in 0..Len(acts) |-> IF n = 0 THEN <<>> ELSE Put(F[n - 1], acts[n], by)]
               /\ Grouped(acts, by) = F[Len(acts)]
  BY GroupedFcn
<1>4. PICK G : /\ G = [n \in 0..Len(r) |-> IF n = 0 THEN <<>> ELSE Put(G[n - 1], r[n], by)]
               /\ Grouped(r, by) = G[Len(r)]
  BY <1>2, GroupedFcn
<1>5. \A n \in 0..Len(acts) : G[n] = F[n]
  <2> DEFINE T == {n \in 0..Len(acts) : G[n] # F[n]}
  <2> SUFFICES ASSUME T # {} PROVE FALSE
    OBVIOUS
  <2>1. PICK n \in T : \A m \in T : n <= m
    <3> HIDE DEF T
    <3>1. T \in SUBSET Nat
      BY <1>2 DEF T
    <3> QED BY <3>1, LeastNat
  <2>2. G[0] = <<>> /\ F[0] = <<>>
    BY <1>2, <1>3, <1>4
  <2>3. /\ n # 0 /\ n \in 1..Len(acts) /\ n - 1 \in 0..Len(acts)
        /\ n \in 0..Len(acts) /\ n \in 0..Len(r)
    BY <1>2, <2>1, <2>2
  <2>4. G[n - 1] = F[n - 1]
    BY <2>1, <2>3
  <2>5. G[n] = Put(G[n - 1], r[n], by)
    BY <1>4, <2>3
  <2>6. F[n] = Put(F[n - 1], acts[n], by)
    BY <1>3, <2>3
  <2> QED BY <2>1, <2>3, <2>4, <2>5, <2>6, <1>2
<1>6. G[Len(acts)] = F[Len(acts)] /\ Len(r) # 0 /\ Len(r) \in 0..Len(r) /\ Len(r) - 1 = Len(acts)
  BY <1>2, <1>5
<1>7. G[Len(r)] = Put(G[Len(r) - 1], r[Len(r)], by)
  BY <1>4, <1>6
<1> QED BY <1>1, <1>2, <1>3, <1>4, <1>6, <1>7

LEMMA GroupedEmpty == \A by : Grouped(<<>>, by) = <<>>
<1> SUFFICES ASSUME NEW by PROVE Grouped(<<>>, by) = <<>>
  OBVIOUS
<1>1. PICK q : q = <<>>
  OBVIOUS
<1>2. q \in Seq({}) /\ Len(q) = 0
  BY <1>1
<1>3. PICK F : /\ F = [n \in 0..Len(q) |-> IF n = 0 THEN <<>> ELSE Put(F[n - 1], q[n], by)]
               /\ Grouped(q, by) = F[Len(q)]
  BY <1>2, GroupedFcn
<1>4. F[0] = <<>>
  BY <1>2, <1>3
<1> QED BY <1>1, <1>2, <1>3, <1>4

-----------------------------------------------------------------------------
(* The acts for a device, and what they set.                               *)
Own(acts, d) == Sift(acts, {a \in ToSet(acts) : a.dev = d})
SetsOf(own) == [n \in DOMAIN own |-> [id |-> own[n].id, val |-> own[n].val]]
RequestFor(acts, d, by) == [by |-> by, dev |-> d, sets |-> SetsOf(Own(acts, d))]

(* The first act for each device, by its number.                           *)
FirstOf(acts, i) == \A j \in 1..(i - 1) : acts[j].dev # acts[i].dev
Order(acts) == Sift([i \in DOMAIN acts |-> i], {i \in DOMAIN acts : FirstOf(acts, i)})

LEMMA AsksIs ==
  ASSUME NEW acts, NEW by
  PROVE  Asks(acts, by) = [n \in DOMAIN Order(acts) |-> RequestFor(acts, acts[Order(acts)[n]].dev, by)]
BY DEF Asks, Order, FirstOf, RequestFor, SetsOf, Own

(* There is one for each device.                                           *)
LEMMA OrderProps ==
  ASSUME NEW A, NEW acts \in Seq(A)
  PROVE  /\ Order(acts) \in Seq(1..Len(acts))
         /\ \A j \in 1..Len(acts) : \E n \in DOMAIN Order(acts) : acts[Order(acts)[n]].dev = acts[j].dev
<1>1. Len(acts) \in Nat /\ DOMAIN acts = 1..Len(acts)
  BY LenProperties
<1>2. PICK q : q = [i \in DOMAIN acts |-> i]
  OBVIOUS
<1>3. q \in Seq(1..Len(acts)) /\ Len(q) = Len(acts) /\ \A i \in 1..Len(acts) : q[i] = i
  <2>1. q = [i \in 1..Len(acts) |-> i]
    BY <1>1, <1>2
  <2> QED BY <1>1, <2>1, IsASeq
<1>4. PICK P : P = {i \in DOMAIN acts : FirstOf(acts, i)}
  OBVIOUS
<1>5. PICK o : o = Order(acts)
  OBVIOUS
<1>6. o \in Seq(1..Len(acts)) /\ ToSet(o) = ToSet(q) \cap P
  BY <1>2, <1>3, <1>4, <1>5, SiftProps DEF Order
<1>7. ASSUME NEW j \in 1..Len(acts)
      PROVE  \E n \in DOMAIN o : acts[o[n]].dev = acts[j].dev
  <2> DEFINE T == {i \in 1..Len(acts) : acts[i].dev = acts[j].dev}
  <2>1. PICK i \in T : \A m \in T : i <= m
    <3>1. T \in SUBSET Nat /\ T # {}
      BY <1>1
    <3> HIDE DEF T
    <3> QED BY <3>1, LeastNat
  <2>2. FirstOf(acts, i)
    <3> SUFFICES ASSUME NEW k \in 1..(i - 1), acts[k].dev = acts[i].dev PROVE FALSE
      BY DEF FirstOf
    <3>1. k \in T /\ k < i
      BY <1>1, <2>1
    <3> QED BY <3>1, <2>1, <1>1
  <2>3. i \in ToSet(q) /\ i \in P
    BY <1>1, <1>2, <1>4, <2>2 DEF ToSet
  <2>4. PICK n \in DOMAIN o : o[n] = i
    BY <2>3, <1>6 DEF ToSet
  <2> QED BY <2>1, <2>4
<1> QED BY <1>5, <1>6, <1>7

(* One more act comes last of those for its device, ...                    *)
LEMMA OwnAppend ==
  ASSUME NEW A, NEW acts \in Seq(A), NEW a \in A, NEW d
  PROVE  /\ Own(acts, d) \in Seq(A)
         /\ Own(Append(acts, a), d) = IF a.dev = d THEN Append(Own(acts, d), a) ELSE Own(acts, d)
<1>1. PICK r : r = Append(acts, a)
  OBVIOUS
<1>2. /\ r \in Seq(A) /\ DOMAIN r = 1..(Len(acts) + 1) /\ Len(acts) \in Nat /\ DOMAIN acts = 1..Len(acts)
      /\ \A i \in 1..Len(acts) : r[i] = acts[i]
      /\ r[Len(acts) + 1] = a
  BY <1>1, AppendProperties, LenProperties
<1>3. PICK P : P = {x \in ToSet(acts) : x.dev = d}
  OBVIOUS
<1>4. PICK R : R = {x \in ToSet(r) : x.dev = d}
  OBVIOUS
<1>5. Sift(r, R) = IF a \in R THEN Append(Sift(acts, R), a) ELSE Sift(acts, R)
  BY <1>1, SiftAppend
<1>6. a \in R <=> a.dev = d
  BY <1>2, <1>4 DEF ToSet
<1>7. Sift(acts, R) = Sift(acts, P)
  <2>1. \A i \in 1..Len(acts) : acts[i] \in R <=> acts[i] \in P
    <3> SUFFICES ASSUME NEW i \in 1..Len(acts) PROVE acts[i] \in R <=> acts[i] \in P
      OBVIOUS
    <3>1. acts[i] \in ToSet(acts) /\ acts[i] \in ToSet(r)
      BY <1>2 DEF ToSet
    <3> QED BY <3>1, <1>3, <1>4
  <2> QED BY <2>1, SiftSame
<1>8. Sift(acts, P) \in Seq(A)
  BY SiftProps
<1>9. Own(acts, d) = Sift(acts, P) /\ Own(r, d) = Sift(r, R)
  BY <1>3, <1>4 DEF Own
<1> QED BY <1>1, <1>5, <1>6, <1>7, <1>8, <1>9

(* ... and first, if there was none.                                       *)
LEMMA OwnNone ==
  ASSUME NEW A, NEW acts \in Seq(A), NEW d, \A j \in 1..Len(acts) : acts[j].dev # d
  PROVE  Own(acts, d) = <<>>
<1>1. PICK P : P = {x \in ToSet(acts) : x.dev = d}
  OBVIOUS
<1>2. P = {}
  BY <1>1, LenProperties DEF ToSet
<1>3. Sift(acts, P) \in Seq(A) /\ ToSet(Sift(acts, P)) = {}
  BY <1>2, SiftProps
<1>4. PICK s \in Seq(A) : s = Sift(acts, P)
  BY <1>3
<1>5. DOMAIN s = {}
  BY <1>3, <1>4 DEF ToSet
<1>6. s = <<>>
  BY <1>5, LenProperties, EmptySeq
<1> QED BY <1>1, <1>4, <1>6 DEF Own

LEMMA OrderAppend ==
  ASSUME NEW A, NEW acts \in Seq(A), NEW a \in A
  PROVE  Order(Append(acts, a)) = IF \A j \in 1..Len(acts) : acts[j].dev # a.dev
                                  THEN Append(Order(acts), Len(acts) + 1) ELSE Order(acts)
<1>1. PICK r : r = Append(acts, a)
  OBVIOUS
<1>2. /\ r \in Seq(A) /\ DOMAIN r = 1..(Len(acts) + 1) /\ Len(acts) \in Nat /\ DOMAIN acts = 1..Len(acts)
      /\ \A i \in 1..Len(acts) : r[i] = acts[i]
      /\ r[Len(acts) + 1] = a
  BY <1>1, AppendProperties, LenProperties
<1>3. PICK n : n = Len(acts) + 1
  OBVIOUS
<1>4. PICK q : q = [i \in DOMAIN acts |-> i]
  OBVIOUS
<1>5. PICK u : u = [i \in DOMAIN r |-> i]
  OBVIOUS
<1>6. /\ q \in Seq(1..n) /\ Len(q) = Len(acts) /\ \A i \in 1..Len(acts) : q[i] = i
      /\ n \in 1..n
  <2>1. q = [i \in 1..Len(acts) |-> i]
    BY <1>2, <1>4
  <2>2. \A i \in 1..Len(acts) : i \in 1..n
    BY <1>2, <1>3
  <2> QED BY <1>2, <1>3, <2>1, <2>2, IsASeq
<1>7. u = Append(q, n)
  <2>1. u = [i \in 1..n |-> i]
    BY <1>2, <1>3, <1>5
  <2>2. u \in Seq(1..n) /\ Len(u) = n
    BY <1>2, <1>3, <2>1, IsASeq
  <2>3. /\ Append(q, n) \in Seq(1..n) /\ Len(Append(q, n)) = Len(q) + 1
        /\ \A i \in 1..Len(q) : Append(q, n)[i] = q[i]
        /\ Append(q, n)[Len(q) + 1] = n
    BY <1>6, AppendProperties
  <2>4. ASSUME NEW i \in 1..n PROVE u[i] = Append(q, n)[i]
    <3>1. i \in 1..Len(acts) \/ i = Len(acts) + 1
      BY <1>2, <1>3
    <3> QED BY <3>1, <2>1, <2>3, <1>2, <1>3, <1>6
  <2> QED BY <2>2, <2>3, <2>4, <1>3, <1>6, SeqEqual
<1>8. PICK P : P = {i \in DOMAIN acts : FirstOf(acts, i)}
  OBVIOUS
<1>9. PICK R : R = {i \in DOMAIN r : FirstOf(r, i)}
  OBVIOUS
<1>10. Sift(u, R) = IF n \in R THEN Append(Sift(q, R), n) ELSE Sift(q, R)
  <2>1. PICK N : N = 1..n
    OBVIOUS
  <2>2. q \in Seq(N) /\ n \in N
    BY <1>6, <2>1
  <2>3. Sift(Append(q, n), R) = IF n \in R THEN Append(Sift(q, R), n) ELSE Sift(q, R)
    BY <2>2, SiftAppend
  <2> QED BY <2>3, <1>7
<1>11. n \in R <=> \A j \in 1..Len(acts) : acts[j].dev # a.dev
  BY <1>2, <1>3, <1>9 DEF FirstOf
<1>12. Sift(q, R) = Sift(q, P)
  <2>1. ASSUME NEW i \in 1..Len(acts) PROVE i \in R <=> i \in P
    <3>1. \A j \in 1..i : r[j] = acts[j] /\ j \in Int
      BY <1>2
    <3>2. FirstOf(r, i) <=> FirstOf(acts, i)
      BY <3>1, <1>2 DEF FirstOf
    <3> QED BY <3>2, <1>2, <1>8, <1>9
  <2>2. \A i \in 1..Len(q) : q[i] \in R <=> q[i] \in P
    BY <2>1, <1>6
  <2> QED BY <2>2, <1>6, SiftSame
<1>13. Order(acts) = Sift(q, P) /\ Order(r) = Sift(u, R)
  BY <1>4, <1>5, <1>8, <1>9 DEF Order
<1> QED BY <1>1, <1>3, <1>10, <1>11, <1>12, <1>13

(* One more value to set.                                                  *)
LEMMA SetsOfAppend ==
  ASSUME NEW A, NEW own \in Seq(A), NEW a \in A
  PROVE  SetsOf(Append(own, a)) = Append(SetsOf(own), [id |-> a.id, val |-> a.val])
<1> DEFINE Set(x) == [id |-> x.id, val |-> x.val]
           T == {Set(x) : x \in A}
<1>1. PICK r : r = Append(own, a)
  OBVIOUS
<1>2. /\ r \in Seq(A) /\ Len(r) = Len(own) + 1 /\ Len(own) \in Nat /\ DOMAIN own = 1..Len(own)
      /\ DOMAIN r = 1..(Len(own) + 1)
      /\ \A i \in 1..Len(own) : r[i] = own[i] /\ own[i] \in A
      /\ r[Len(own) + 1] = a
  BY <1>1, AppendProperties, LenProperties, ElementOfSeq
<1>3. PICK s : s = SetsOf(own)
  OBVIOUS
<1>4. s = [n \in 1..Len(own) |-> Set(own[n])]
  BY <1>2, <1>3 DEF SetsOf
<1>5. SetsOf(r) = [n \in 1..(Len(own) + 1) |-> Set(r[n])]
  BY <1>2 DEF SetsOf
<1>6. \A n \in 1..(Len(own) + 1) : Set(r[n]) \in T
  <2> SUFFICES ASSUME NEW n \in 1..(Len(own) + 1) PROVE r[n] \in A
    OBVIOUS
  <2> QED BY <1>2
<1>7. \A n \in 1..Len(own) : Set(own[n]) \in T
  <2> SUFFICES ASSUME NEW n \in 1..Len(own) PROVE own[n] \in A
    OBVIOUS
  <2> QED BY <1>2
<1>8. Set(a) \in T
  OBVIOUS
<1> HIDE DEF T, Set
<1>9. s \in Seq(T) /\ Len(s) = Len(own)
  BY <1>2, <1>4, <1>7, IsASeq
<1>10. /\ Append(s, Set(a)) \in Seq(T) /\ Len(Append(s, Set(a))) = Len(s) + 1
       /\ \A i \in 1..Len(s) : Append(s, Set(a))[i] = s[i]
       /\ Append(s, Set(a))[Len(s) + 1] = Set(a)
  BY <1>8, <1>9, AppendProperties
<1>11. SetsOf(r) \in Seq(T) /\ Len(SetsOf(r)) = Len(own) + 1
  BY <1>2, <1>5, <1>6, IsASeq
<1>12. ASSUME NEW i \in 1..(Len(own) + 1) PROVE SetsOf(r)[i] = Append(s, Set(a))[i]
  <2>1. i \in 1..Len(own) \/ i = Len(own) + 1
    BY <1>2
  <2> QED BY <2>1, <1>2, <1>4, <1>5, <1>9, <1>10
<1>13. SetsOf(r) = Append(s, Set(a))
  BY <1>9, <1>10, <1>11, <1>12, SeqEqual
<1> QED BY <1>1, <1>3, <1>13 DEF Set

LEMMA RequestForAppend ==
  ASSUME NEW A, NEW acts \in Seq(A), NEW a \in A, NEW d, NEW by
  PROVE  RequestFor(Append(acts, a), d, by) =
           IF a.dev = d
           THEN [RequestFor(acts, d, by) EXCEPT !.sets = Append(@, [id |-> a.id, val |-> a.val])]
           ELSE RequestFor(acts, d, by)
<1>1. PICK own \in Seq(A) : own = Own(acts, d)
  BY OwnAppend
<1>2. Own(Append(acts, a), d) = IF a.dev = d THEN Append(own, a) ELSE own
  BY <1>1, OwnAppend
<1>3. SetsOf(Append(own, a)) = Append(SetsOf(own), [id |-> a.id, val |-> a.val])
  BY SetsOfAppend
<1>4. RequestFor(acts, d, by) = [by |-> by, dev |-> d, sets |-> SetsOf(own)]
  BY <1>1 DEF RequestFor
<1>5. CASE a.dev = d
  <2>1. RequestFor(Append(acts, a), d, by) =
          [by |-> by, dev |-> d, sets |-> Append(SetsOf(own), [id |-> a.id, val |-> a.val])]
    BY <1>2, <1>3, <1>5 DEF RequestFor
  <2>2. PICK u : u = SetsOf(own)
    OBVIOUS
  <2>3. PICK x : x = [id |-> a.id, val |-> a.val]
    OBVIOUS
  <2>4. PICK q : q = RequestFor(acts, d, by)
    OBVIOUS
  <2>5. q = [by |-> by, dev |-> d, sets |-> u]
    BY <1>4, <2>2, <2>4
  <2>6. [q EXCEPT !.sets = Append(@, x)] = [by |-> by, dev |-> d, sets |-> Append(u, x)]
    <3>1. PICK v : v = Append(u, x)
      OBVIOUS
    <3>2. q.sets = u
      BY <2>5
    <3>3. [q EXCEPT !.sets = v] = [by |-> by, dev |-> d, sets |-> v]
      BY <2>5
    <3>4. Append(q.sets, x) = v
      BY <3>1, <3>2
    <3> QED BY <3>1, <3>3, <3>4
  <2> QED BY <2>1, <2>2, <2>3, <2>4, <2>6, <1>5
<1>6. CASE a.dev # d
  BY <1>2, <1>4, <1>6 DEF RequestFor
<1> QED BY <1>5, <1>6

LEMMA RequestForOther ==
  ASSUME NEW A, NEW acts \in Seq(A), NEW a \in A, NEW d, NEW by, a.dev # d
  PROVE  RequestFor(Append(acts, a), d, by) = RequestFor(acts, d, by)
<1>1. Own(Append(acts, a), d) = Own(acts, d)
  BY OwnAppend
<1> QED BY <1>1 DEF RequestFor

LEMMA AsksAppend ==
  ASSUME NEW A, NEW acts \in Seq(A), NEW a \in A, NEW by
  PROVE  Asks(Append(acts, a), by) = Put(Asks(acts, by), a, by)
<1>1. PICK r : r = Append(acts, a)
  OBVIOUS
<1>2. /\ r \in Seq(A) /\ Len(acts) \in Nat
      /\ \A i \in 1..Len(acts) : r[i] = acts[i]
      /\ r[Len(acts) + 1] = a
  BY <1>1, AppendProperties, LenProperties
<1>3. PICK o : o = Order(acts)
  OBVIOUS
<1>4. /\ o \in Seq(1..Len(acts)) /\ DOMAIN o = 1..Len(o) /\ Len(o) \in Nat
      /\ \A n \in DOMAIN o : o[n] \in 1..Len(acts)
      /\ \A j \in 1..Len(acts) : \E n \in DOMAIN o : acts[o[n]].dev = acts[j].dev
  BY <1>3, OrderProps, LenProperties, ElementOfSeq
<1> DEFINE New == \A j \in 1..Len(acts) : acts[j].dev # a.dev
           Old(n) == RequestFor(acts, acts[o[n]].dev, by)
<1>5. PICK q : q = Asks(acts, by)
  OBVIOUS
<1>6. q = [n \in 1..Len(o) |-> Old(n)]
  BY <1>3, <1>4, <1>5, AsksIs
<1>7. \A n \in 1..Len(o) : q[n].dev = acts[o[n]].dev
  BY <1>6 DEF RequestFor
<1>8. PICK set : set = [id |-> a.id, val |-> a.val]
  OBVIOUS
<1>9. PICK known : known = {i \in DOMAIN q : q[i].dev = a.dev}
  OBVIOUS
<1>10. known = {i \in 1..Len(o) : acts[o[i]].dev = a.dev}
  BY <1>6, <1>7, <1>9
<1>11. known = {} <=> New
  BY <1>4, <1>10
<1>12. Put(q, a, by) = IF known = {} THEN Append(q, [by |-> by, dev |-> a.dev, sets |-> <<set>>])
                       ELSE [i \in DOMAIN q |-> IF i \in known THEN [q[i] EXCEPT !.sets = Append(@, set)] ELSE q[i]]
  BY <1>8, <1>9 DEF Put, Joined
<1>13. CASE New
  <2>1. PICK m : m = Len(acts) + 1
    OBVIOUS
  <2>2. PICK p : p = Order(r)
    OBVIOUS
  <2>3. p = Append(o, m)
    BY <1>1, <1>3, <1>13, <2>1, <2>2, OrderAppend
  <2>4. /\ Len(p) = Len(o) + 1 /\ DOMAIN p = 1..(Len(o) + 1)
        /\ \A n \in 1..Len(o) : p[n] = o[n]
        /\ p[Len(o) + 1] = m
    <3>1. PICK N : N = 1..m
      OBVIOUS
    <3>2. o \in Seq(N) /\ m \in N
      <4>1. \A i \in 1..Len(acts) : i \in N
        BY <1>2, <2>1, <3>1
      <4>2. \A n \in 1..Len(o) : o[n] \in N
        BY <4>1, <1>4
      <4>3. o = [n \in 1..Len(o) |-> o[n]]
        BY <1>4
      <4> QED BY <4>2, <4>3, <1>2, <1>4, <2>1, <3>1, IsASeq
    <3> QED BY <3>2, <2>3, AppendProperties, LenProperties
  <2>5. Asks(r, by) = [n \in 1..(Len(o) + 1) |-> RequestFor(r, r[p[n]].dev, by)]
    BY <2>2, <2>4, AsksIs
  <2>6. ASSUME NEW n \in 1..Len(o) PROVE RequestFor(r, r[p[n]].dev, by) = q[n]
    <3>1. r[p[n]] = acts[o[n]] /\ acts[o[n]].dev # a.dev
      BY <1>2, <1>4, <1>13, <2>4
    <3>2. RequestFor(r, acts[o[n]].dev, by) = RequestFor(acts, acts[o[n]].dev, by)
      <4>1. PICK d : d = acts[o[n]].dev
        OBVIOUS
      <4>2. a.dev # d
        BY <3>1, <4>1
      <4>3. RequestFor(r, d, by) = RequestFor(acts, d, by)
        BY <1>1, <4>2, RequestForOther
      <4> QED BY <4>1, <4>3
    <3> QED BY <3>1, <3>2, <1>6
  <2>7. RequestFor(r, r[p[Len(o) + 1]].dev, by) = [by |-> by, dev |-> a.dev, sets |-> <<set>>]
    <3>1. r[p[Len(o) + 1]] = a
      BY <1>2, <2>1, <2>4
    <3>2. Own(r, a.dev) = Append(<<>>, a)
      <4>1. Own(acts, a.dev) = <<>>
        BY <1>13, OwnNone
      <4> QED BY <4>1, <1>1, OwnAppend
    <3>3. SetsOf(Append(<<>>, a)) = Append(SetsOf(<<>>), set)
      <4>1. PICK e \in Seq(A) : e = <<>>
        <5>1. <<>> \in Seq(A)
          OBVIOUS
        <5> QED BY <5>1
      <4>2. SetsOf(Append(e, a)) = Append(SetsOf(e), set)
        BY <1>8, SetsOfAppend
      <4> QED BY <4>1, <4>2
    <3>4. SetsOf(<<>>) = <<>>
      BY DEF SetsOf
    <3>5. SetsOf(Own(r, a.dev)) = <<set>>
      BY <3>2, <3>3, <3>4
    <3> QED BY <3>1, <3>5 DEF RequestFor
  <2>8. PICK x : x = [by |-> by, dev |-> a.dev, sets |-> <<set>>]
    OBVIOUS
  <2>9. PICK Q : Q = ToSet(q) \cup {x}
    OBVIOUS
  <2>10. /\ q \in Seq(Q) /\ Len(q) = Len(o) /\ x \in Q
    <3>1. \A n \in 1..Len(o) : q[n] \in Q
      BY <1>6, <2>9 DEF ToSet
    <3>2. q = [n \in 1..Len(o) |-> q[n]]
      BY <1>6
    <3> QED BY <3>1, <3>2, <1>4, <2>9, IsASeq
  <2>11. /\ Append(q, x) \in Seq(Q) /\ Len(Append(q, x)) = Len(o) + 1
         /\ \A i \in 1..Len(o) : Append(q, x)[i] = q[i]
         /\ Append(q, x)[Len(o) + 1] = x
    BY <2>10, AppendProperties
  <2>12. ASSUME NEW n \in 1..(Len(o) + 1) PROVE Asks(r, by)[n] = Append(q, x)[n]
    <3>1. CASE n \in 1..Len(o)
      BY <3>1, <2>5, <2>6, <2>11
    <3>2. CASE n = Len(o) + 1
      BY <3>2, <2>5, <2>7, <2>8, <2>11
    <3>3. n \in 1..Len(o) \/ n = Len(o) + 1
      <4>1. Len(o) \in Nat
        BY <1>4
      <4> QED BY <4>1
    <3> QED BY <3>1, <3>2, <3>3
  <2>13. Append(q, x) = [n \in 1..(Len(o) + 1) |-> Append(q, x)[n]]
    <3>1. DOMAIN Append(q, x) = 1..(Len(o) + 1)
      BY <2>11, LenProperties
    <3>2. PICK z \in Seq(Q) : z = Append(q, x)
      BY <2>11
    <3>3. z = [n \in DOMAIN z |-> z[n]]
      BY LenProperties
    <3> QED BY <3>1, <3>2, <3>3
  <2>14. PICK z : z = Append(q, x)
    OBVIOUS
  <2>15. Asks(r, by) = z
    <3>1. z = [n \in 1..(Len(o) + 1) |-> z[n]]
      BY <2>13, <2>14
    <3>2. \A n \in 1..(Len(o) + 1) : Asks(r, by)[n] = z[n]
      BY <2>12, <2>14
    <3>3. Asks(r, by) = [n \in 1..(Len(o) + 1) |-> Asks(r, by)[n]]
      BY <2>5
    <3> QED BY <3>1, <3>2, <3>3
  <2> QED BY <1>1, <1>5, <1>11, <1>12, <1>13, <2>8, <2>14, <2>15
<1>14. CASE ~New
  <2>1. Order(r) = o
    BY <1>1, <1>3, <1>14, OrderAppend
  <2>2. Asks(r, by) = [n \in 1..Len(o) |-> RequestFor(r, r[o[n]].dev, by)]
    BY <1>4, <2>1, AsksIs
  <2>3. Put(q, a, by) = [i \in 1..Len(o) |-> IF i \in known THEN [q[i] EXCEPT !.sets = Append(@, set)] ELSE q[i]]
    BY <1>6, <1>11, <1>12, <1>14
  <2>4. ASSUME NEW n \in 1..Len(o)
        PROVE  RequestFor(r, r[o[n]].dev, by) =
                 IF n \in known THEN [q[n] EXCEPT !.sets = Append(@, set)] ELSE q[n]
    <3>1. r[o[n]].dev = acts[o[n]].dev
      BY <1>2, <1>4
    <3>2. PICK d : d = acts[o[n]].dev
      OBVIOUS
    <3>3. RequestFor(r, d, by) =
            IF a.dev = d THEN [RequestFor(acts, d, by) EXCEPT !.sets = Append(@, set)] ELSE RequestFor(acts, d, by)
      BY <1>1, <1>8, RequestForAppend
    <3>4. q[n] = RequestFor(acts, d, by) /\ (n \in known <=> d = a.dev)
      BY <1>6, <1>10, <3>2
    <3> QED BY <3>1, <3>2, <3>3, <3>4
  <2> HIDE DEF Old
  <2>5. Asks(r, by) = Put(q, a, by)
    BY <2>2, <2>3, <2>4
  <2> QED BY <1>1, <1>5, <2>5
<1> QED BY <1>13, <1>14

(* execute_action asks for what it is said to ask for.                     *)
LEMMA GroupedIsAsked ==
  ASSUME NEW A, NEW by
  PROVE  \A acts \in Seq(A) : Grouped(acts, by) = Asks(acts, by)
<1> DEFINE Good(acts) == Grouped(acts, by) = Asks(acts, by)
           T == {Len(acts) : acts \in {o \in Seq(A) : ~Good(o)}}
<1> SUFFICES ASSUME T # {} PROVE FALSE
  OBVIOUS
<1>1. PICK n \in T : \A m \in T : n <= m
  <2>1. T \in SUBSET Nat
    BY LenProperties
  <2> HIDE DEF T
  <2> QED BY <2>1, LeastNat
<1>2. PICK acts \in Seq(A) : n = Len(acts) /\ ~Good(acts)
  BY <1>1
<1>3. acts # <<>>
  <2> SUFFICES ASSUME acts = <<>> PROVE Good(acts)
    BY <1>2
  <2>1. Order(<<>>) = <<>>
    <3>1. [i \in DOMAIN <<>> |-> i] = <<>>
      OBVIOUS
    <3> QED BY <3>1, SiftEmpty DEF Order
  <2>2. Asks(<<>>, by) = <<>>
    BY <2>1, AsksIs
  <2> QED BY <2>2, GroupedEmpty
<1>4. PICK o \in Seq(A), a \in A : acts = Append(o, a) /\ Len(o) = Len(acts) - 1
  BY <1>3, FrontAndLast
<1>5. Good(o)
  <2> SUFFICES ASSUME ~Good(o) PROVE FALSE
    OBVIOUS
  <2>1. Len(o) \in T
    OBVIOUS
  <2>2. Len(o) \in Nat /\ Len(acts) \in Nat
    BY LenProperties
  <2> HIDE DEF T
  <2> QED BY <1>1, <1>2, <1>4, <2>1, <2>2
<1> HIDE DEF T
<1>6. Good(acts)
  BY <1>4, <1>5, GroupedAppend, AsksAppend
<1> QED BY <1>2, <1>6

-----------------------------------------------------------------------------
(* A scene runs.                                                           *)

(* All requests there are: those of scenes, and those of linkages.         *)
OfScene(s) == UNION {ToSet(Grouped(Actions[s][i].acts, id)) : i \in DOMAIN Actions[s], id \in 1..MaxRun}
OfLink(l) == [by |-> 0, dev |-> l.act.dev,
              sets |-> IF l.action THEN <<>> ELSE <<[id |-> l.act.id, val |-> l.act.val]>>]
OfLinks == {OfLink(l) : l \in UNION {ToSet(Links[d]) : d \in Dev}}
Request == (UNION {OfScene(s) : s \in Scene}) \cup OfLinks

RunRecord == [id : 0..MaxRun, scene : Scene \cup {0}, at : Nat, delay : Nat, slept : Nat,
              step : {"idle", "check", "sleep", "push"}, todo : Seq(Request)]

RunTypes ==
  /\ count \in [DOMAIN Bound -> Nat] /\ count["run"] <= MaxRun /\ online \subseteq Dev
  /\ pool \in Seq([id : 1..MaxRun, scene : Scene])
  /\ run \in [Worker -> RunRecord]
  /\ fifo \in Seq(Request)
  /\ carried \in [1..MaxRun -> Seq(Request)]
  /\ acted \in [1..MaxRun -> Seq(Nat)]

(* Each run has a number of its own.                                       *)
RunsApart ==
  /\ \A i \in DOMAIN pool : pool[i].id <= count["run"]
  /\ \A i, j \in DOMAIN pool : pool[i].id = pool[j].id => i = j
  /\ \A w \in Worker : run[w].step # "idle" =>
       /\ run[w].id \in 1..count["run"]
       /\ \A i \in DOMAIN pool : pool[i].id # run[w].id
       /\ \A v \in Worker : run[v].step # "idle" /\ run[v].id = run[w].id => v = w

(* What the async thread has taken from a run, and is about to take.       *)
UnderWay(c, f, id) == c[id] \o Of(f, id)

(* A run that has not begun has done nothing.                              *)
Unborn(id) == id > count["run"] \/ \E i \in DOMAIN pool : pool[i].id = id
NothingYet == \A id \in 1..MaxRun : Unborn(id) => acted[id] = <<>> /\ UnderWay(carried, fifo, id) = <<>>

(* What the actions a of the scene s ask for.                              *)
Asked(a, s, id) == FlattenSeq([n \in DOMAIN a |-> Asks(Actions[s][a[n]].acts, id)])

(* What a run r has done so far, if it executed the actions a and asked    *)
(* for u: it has slept as long as the longest delay of these, ...          *)
Slept(r, a) ==
  /\ r.slept = r.delay
  /\ \A n \in DOMAIN a : Actions[r.scene][a[n]].delay <= r.delay
  /\ r.delay = 0 \/ \E n \in DOMAIN a : Actions[r.scene][a[n]].delay = r.delay
  /\ r.step = "sleep" => r.delay < Actions[r.scene][r.at].delay

(* ... and asked for what they say, but for what it has still to push.     *)
Course(r, a, u) ==
  /\ r.scene \in Scene /\ r.at # 0 /\ Slept(r, a)
  /\ r.step \in {"sleep", "push"} => r.at \in DOMAIN Actions[r.scene]
  /\ r.step = "push" => a # <<>>
  /\ r.step # "push" => r.todo = <<>>
  /\ \A i \in DOMAIN r.todo : r.todo[i].by = r.id
  /\ \A n \in DOMAIN a : a[n] \in DOMAIN Actions[r.scene]
  /\ u \o r.todo = Asked(a, r.scene, r.id)

RunsGoOn ==
  \A w \in Worker : run[w].step # "idle" =>
    Course(run[w], acted[run[w].id], UnderWay(carried, fifo, run[w].id))

RunInv == RunTypes /\ RunsApart /\ NothingYet /\ RunsGoOn

(* Scenes and their actions are lists.                                     *)
LEMMA SceneLists ==
  ASSUME NEW s \in Scene
  PROVE  /\ DOMAIN Actions[s] = 1..Len(Actions[s]) /\ Len(Actions[s]) \in Nat
         /\ \A i \in DOMAIN Actions[s] :
              /\ Actions[s][i].delay \in Nat
              /\ Actions[s][i].acts \in Seq(ToSet(Actions[s][i].acts))
<1>1. /\ Actions[s] \in Seq(ToSet(Actions[s]))
      /\ \A i \in DOMAIN Actions[s] : /\ Actions[s][i].delay \in Nat
                                      /\ Actions[s][i].acts \in Seq(ToSet(Actions[s][i].acts))
  BY AutomationAssumption DEF IsList
<1> QED BY <1>1, LenProperties

(* The requests for an action are those that it asks for, in the run's     *)
(* name.                                                                   *)
LEMMA ActionAsks ==
  ASSUME NEW s \in Scene, NEW i \in DOMAIN Actions[s], NEW id \in 1..MaxRun
  PROVE  /\ Grouped(Actions[s][i].acts, id) = Asks(Actions[s][i].acts, id)
         /\ Grouped(Actions[s][i].acts, id) \in Seq(Request)
         /\ \A n \in DOMAIN Grouped(Actions[s][i].acts, id) : Grouped(Actions[s][i].acts, id)[n].by = id
<1>0. PICK A : A = ToSet(Actions[s][i].acts)
  OBVIOUS
<1>1. PICK acts \in Seq(A) : acts = Actions[s][i].acts
  BY <1>0, SceneLists
<1>2. Grouped(acts, id) = Asks(acts, id)
  BY GroupedIsAsked
<1>3. PICK q : q = Grouped(acts, id)
  OBVIOUS
<1>4. PICK o : o = Order(acts)
  OBVIOUS
<1>5. o \in Seq(1..Len(acts)) /\ DOMAIN o = 1..Len(o) /\ Len(o) \in Nat
  BY <1>4, OrderProps, LenProperties
<1>6. q = [n \in 1..Len(o) |-> RequestFor(acts, acts[o[n]].dev, id)]
  BY <1>2, <1>3, <1>4, <1>5, AsksIs
<1>7. \A n \in DOMAIN q : q[n].by = id
  BY <1>6 DEF RequestFor
<1>8. q \in Seq(Request)
  <2>1. ToSet(q) \subseteq Request
    <3>1. ToSet(q) \subseteq OfScene(s)
      BY <1>1, <1>3 DEF OfScene
    <3> QED BY <3>1 DEF Request
  <2>2. \A n \in 1..Len(o) : q[n] \in Request
    BY <2>1, <1>6 DEF ToSet
  <2>3. q = [n \in 1..Len(o) |-> q[n]]
    BY <1>6
  <2> QED BY <2>2, <2>3, <1>5, IsASeq
<1> QED BY <1>1, <1>2, <1>3, <1>7, <1>8

(* The requests of a run in a queue.                                       *)
LEMMA OfProps ==
  ASSUME NEW S, NEW q \in Seq(S), NEW id
  PROVE  /\ Of(q, id) \in Seq(S)
         /\ (\A i \in 1..Len(q) : q[i].by # id) => Of(q, id) = <<>>
<1>1. PICK P : P = {x \in ToSet(q) : x.by = id}
  OBVIOUS
<1>2. PICK s : s = Sift(q, P)
  OBVIOUS
<1>3. s \in Seq(S) /\ ToSet(s) = ToSet(q) \cap P
  BY <1>2, SiftProps
<1>4. ASSUME \A i \in 1..Len(q) : q[i].by # id PROVE s = <<>>
  <2>1. P = {}
    BY <1>1, <1>4, LenProperties DEF ToSet
  <2>2. DOMAIN s = {}
    BY <2>1, <1>3 DEF ToSet
  <2> QED BY <2>2, <1>3, LenProperties, EmptySeq
<1> QED BY <1>1, <1>2, <1>3, <1>4 DEF Of

LEMMA OfConcat ==
  ASSUME NEW S, NEW q \in Seq(S), NEW r \in Seq(S), NEW id
  PROVE  Of(q \o r, id) = Of(q, id) \o Of(r, id)
<1>1. PICK u \in Seq(S) : u = q \o r
  BY ConcatProperties
<1>2. PICK P : P = {x \in ToSet(q) : x.by = id}
  OBVIOUS
<1>3. PICK R : R = {x \in ToSet(r) : x.by = id}
  OBVIOUS
<1>4. PICK U : U = {x \in ToSet(u) : x.by = id}
  OBVIOUS
<1>5. ToSet(u) = ToSet(q) \cup ToSet(r)
  BY <1>1, BothQueues
<1>6. Sift(u, U) = Sift(q, U) \o Sift(r, U)
  BY <1>1, SiftConcat
<1>7. Sift(q, U) = Sift(q, P)
  <2>1. \A i \in 1..Len(q) : q[i] \in U <=> q[i] \in P
    BY <1>2, <1>4, <1>5, ToSetProps
  <2> QED BY <2>1, SiftSame
<1>8. Sift(r, U) = Sift(r, R)
  <2>1. \A i \in 1..Len(r) : r[i] \in U <=> r[i] \in R
    BY <1>3, <1>4, <1>5, ToSetProps
  <2> QED BY <2>1, SiftSame
<1> QED BY <1>1, <1>2, <1>3, <1>4, <1>6, <1>7, <1>8 DEF Of

LEMMA OfOne ==
  ASSUME NEW S, NEW x \in S, NEW id
  PROVE  Of(<<x>>, id) = IF x.by = id THEN <<x>> ELSE <<>>
<1>1. PICK q \in Seq(S) : q = <<x>>
  <2>1. <<x>> \in Seq(S)
    OBVIOUS
  <2> QED BY <2>1
<1>2. Len(q) = 1 /\ q[1] = x
  BY <1>1
<1>3. CASE x.by # id
  <2>1. \A i \in 1..Len(q) : q[i].by # id
    BY <1>2, <1>3
  <2>2. Of(q, id) = <<>>
    BY <2>1, OfProps
  <2> QED BY <1>1, <1>3, <2>2
<1>4. CASE x.by = id
  <2>1. PICK P : P = {y \in ToSet(q) : y.by = id}
    OBVIOUS
  <2>2. x \in P
    BY <1>2, <1>4, <2>1, ToSetProps
  <2>3. PICK e \in Seq(S) : e = <<>>
    <3>1. <<>> \in Seq(S)
      OBVIOUS
    <3> QED BY <3>1
  <2>4. q = Append(e, x)
    BY <1>1, <2>3
  <2>5. Sift(Append(e, x), P) = Append(Sift(e, P), x)
    BY <2>2, SiftAppend
  <2>6. Sift(e, P) = <<>>
    BY <2>3, SiftEmpty
  <2>7. Sift(q, P) = <<x>>
    BY <2>4, <2>5, <2>6
  <2> QED BY <1>1, <1>4, <2>1, <2>7 DEF Of
<1> QED BY <1>3, <1>4

(* What linkages ask for is not a run's.                                   *)
LEMMA LinksAsk ==
  ASSUME NEW there \in SUBSET Dev, NEW d, NEW e
  PROVE  /\ Triggered(there, d, e) \in Seq(Request)
         /\ \A i \in 1..Len(Triggered(there, d, e)) : Triggered(there, d, e)[i].by = 0
<1>1. CASE ~(d \in there /\ mode \in DevModes[d])
  <2>1. Triggered(there, d, e) = <<>>
    BY <1>1 DEF Triggered
  <2> QED BY <2>1
<1>2. CASE d \in there /\ mode \in DevModes[d]
  <2>1. PICK L : L = ToSet(Links[d])
    OBVIOUS
  <2>2. PICK l \in Seq(L) : l = Links[d]
    BY <1>2, <2>1, AutomationAssumption DEF IsList
  <2>3. PICK P : P = {x \in L : x.event = e /\ mode \in x.modes}
    OBVIOUS
  <2>4. PICK hit \in Seq(L) : hit = Sift(l, P)
    BY SiftProps
  <2>5. PICK t : t = Triggered(there, d, e)
    OBVIOUS
  <2>6. t = [i \in DOMAIN hit |-> OfLink(hit[i])]
    BY <1>2, <2>1, <2>2, <2>3, <2>4, <2>5 DEF Triggered, OfLink
  <2>7. /\ DOMAIN hit = 1..Len(hit) /\ Len(hit) \in Nat
        /\ \A i \in DOMAIN hit : hit[i] \in L
    BY LenProperties, ElementOfSeq
  <2>8. \A i \in 1..Len(hit) : OfLink(hit[i]) \in Request
    <3> SUFFICES ASSUME NEW i \in 1..Len(hit) PROVE OfLink(hit[i]) \in Request
      OBVIOUS
    <3>1. PICK x : x = hit[i]
      OBVIOUS
    <3>2. x \in UNION {ToSet(Links[o]) : o \in Dev}
      BY <1>2, <2>1, <2>7, <3>1
    <3>3. OfLink(x) \in OfLinks
      BY <3>2 DEF OfLinks
    <3>4. OfLinks \subseteq Request
      BY DEF Request
    <3> QED BY <3>1, <3>3, <3>4
  <2>9. t \in Seq(Request) /\ Len(t) = Len(hit)
    <3> HIDE DEF OfLink
    <3> QED BY <2>6, <2>7, <2>8, IsASeq
  <2>10. \A i \in 1..Len(t) : t[i].by = 0
    BY <2>6, <2>7, <2>9 DEF OfLink
  <2> QED BY <2>5, <2>9, <2>10
<1> QED BY <1>1, <1>2

(* So they change nothing of what is under way for a run.                  *)
LEMMA LinksPass ==
  ASSUME NEW t \in Seq(Request), \A i \in 1..Len(t) : t[i].by = 0,
         NEW f \in Seq(Request), NEW c \in [1..MaxRun -> Seq(Request)]
  PROVE  /\ f \o t \in Seq(Request)
         /\ \A id \in 1..MaxRun : UnderWay(c, f \o t, id) = UnderWay(c, f, id)
<1>1. f \o t \in Seq(Request)
  BY ConcatProperties
<1>2. ASSUME NEW id \in 1..MaxRun PROVE UnderWay(c, f \o t, id) = UnderWay(c, f, id)
  <2>1. Of(t, id) = <<>>
    <3>1. \A i \in 1..Len(t) : t[i].by # id
      OBVIOUS
    <3> QED BY <3>1, OfProps
  <2>2. Of(f \o t, id) = Of(f, id) \o Of(t, id)
    BY OfConcat
  <2>3. Of(f, id) \in Seq(Request)
    BY OfProps
  <2>4. Of(f, id) \o <<>> = Of(f, id)
    BY <2>3, ConcatEmptySeq
  <2> QED BY <2>1, <2>2, <2>4 DEF UnderWay
<1> QED BY <1>1, <1>2

(* Three queues make up one, however they are put together.                *)
LEMMA JoinedQueues ==
  ASSUME NEW p \in Seq(Request), NEW q \in Seq(Request), NEW r \in Seq(Request)
  PROVE  (p \o q) \o r = p \o (q \o r)
<1>1. PICK S : S = Request
  OBVIOUS
<1>2. PICK a \in Seq(S), b \in Seq(S), c \in Seq(S) : a = p /\ b = q /\ c = r
  BY <1>1
<1>3. (a \o b) \o c = a \o (b \o c)
  BY ConcatAssociative, SMTT(30)
<1> QED BY <1>2, <1>3

(* The async thread takes a request, which stays what is under way.        *)
LEMMA TakesPass ==
  ASSUME RunTypes, Takes
  PROVE  /\ fifo' \in Seq(Request) /\ carried' \in [1..MaxRun -> Seq(Request)]
         /\ \A id \in 1..MaxRun : UnderWay(carried', fifo', id) = UnderWay(carried, fifo, id)
<1>1. fifo \in Seq(Request) /\ carried \in [1..MaxRun -> Seq(Request)] /\ fifo # <<>>
  BY DEF RunTypes, Takes
<1>2. PICK x \in Request, t \in Seq(Request) : x = Head(fifo) /\ t = Tail(fifo)
  BY <1>1, PopHead
<1>3. fifo' = t /\ fifo = <<x>> \o t
  <2>1. fifo' = t
    BY <1>2 DEF Takes
  <2> QED BY <2>1, <1>1, <1>2, HeadFirst
<1>4. carried' = IF x.by = 0 THEN carried ELSE [carried EXCEPT ![x.by] = Append(@, x)]
  BY <1>2 DEF Takes
<1>5. carried' \in [1..MaxRun -> Seq(Request)]
  <2>1. \A id \in 1..MaxRun : Append(carried[id], x) \in Seq(Request)
    BY <1>1, AppendProperties
  <2> QED BY <1>1, <1>4, <2>1
<1>6. ASSUME NEW id \in 1..MaxRun
      PROVE  UnderWay(carried', t, id) = UnderWay(carried, fifo, id)
  <2>1. PICK c \in Seq(Request) : c = carried[id]
    BY <1>1
  <2>2. PICK o \in Seq(Request) : o = Of(t, id)
    BY OfProps
  <2>3. PICK h \in Seq(Request) : h = <<x>>
    <3>1. <<x>> \in Seq(Request)
      OBVIOUS
    <3> QED BY <3>1
  <2>4. Of(fifo, id) = Of(h, id) \o o
    <3>1. fifo = h \o t
      BY <1>3, <2>3
    <3>2. Of(h \o t, id) = Of(h, id) \o Of(t, id)
      <4>1. PICK S : S = Request
        OBVIOUS
      <4>2. h \in Seq(S) /\ t \in Seq(S)
        BY <4>1
      <4>3. \A p, q \in Seq(S) : \A n : Of(p \o q, n) = Of(p, n) \o Of(q, n)
        BY OfConcat
      <4> QED BY <4>2, <4>3
    <3> QED BY <2>2, <3>1, <3>2
  <2>5. CASE x.by # id
    <3>1. Of(h, id) = <<>>
      BY <2>3, <2>5, OfOne
    <3>2. <<>> \o o = o
      BY ConcatEmptySeq
    <3>3. carried'[id] = c
      BY <1>1, <1>4, <2>1, <2>5
    <3> QED BY <2>1, <2>2, <2>4, <3>1, <3>2, <3>3 DEF UnderWay
  <2>6. CASE x.by = id
    <3>1. Of(h, id) = h
      BY <2>3, <2>6, OfOne
    <3>2. carried'[id] = c \o h
      <4>1. carried'[id] = Append(c, x)
        BY <1>1, <1>4, <2>1, <2>6
      <4> QED BY <4>1, <2>3, AppendIsConcat
    <3>3. (c \o h) \o o = c \o (h \o o)
      BY JoinedQueues, Zenon
    <3> QED BY <2>1, <2>2, <2>4, <3>1, <3>2, <3>3 DEF UnderWay
  <2> QED BY <2>5, <2>6
<1> QED BY <1>3, <1>5, <1>6

(* Steps that are not of scenes leave the runs as they are.                *)
LEMMA Bystanders ==
  ASSUME RunInv, UNCHANGED scenes,
         count' \in [DOMAIN Bound -> Nat], count'["run"] = count["run"], online' \subseteq Dev,
         fifo' \in Seq(Request), carried' \in [1..MaxRun -> Seq(Request)],
         \A id \in 1..MaxRun : UnderWay(carried', fifo', id) = UnderWay(carried, fifo, id)
  PROVE  RunInv'
<1>1. pool' = pool /\ run' = run /\ acted' = acted
  BY DEF scenes
<1>2. RunTypes'
  BY <1>1 DEF RunInv, RunTypes, RunRecord, Bound
<1>3. RunsApart'
  BY <1>1 DEF RunInv, RunsApart
<1>4. NothingYet'
  BY <1>1 DEF RunInv, NothingYet, Unborn
<1>5. RunsGoOn'
  <2> SUFFICES ASSUME NEW w \in Worker, run[w].step # "idle"
               PROVE  Course(run[w], acted[run[w].id], UnderWay(carried', fifo', run[w].id))
    BY <1>1 DEF RunsGoOn
  <2>1. run[w].id \in 1..MaxRun
    <3>1. count["run"] \in Nat /\ count["run"] <= MaxRun
      BY DEF RunInv, RunTypes, Bound
    <3>2. run[w].id \in 1..count["run"]
      BY DEF RunInv, RunsApart
    <3> QED BY <3>1, <3>2, AutomationAssumption
  <2>2. UnderWay(carried', fifo', run[w].id) = UnderWay(carried, fifo, run[w].id)
    BY <2>1
  <2> QED BY <2>2 DEF RunInv, RunsGoOn
<1> QED BY <1>2, <1>3, <1>4, <1>5 DEF RunInv

(* A thread of the pool goes on with its run, or ends it.                  *)
LEMMA RunStep ==
  ASSUME RunInv, NEW w \in Worker, run[w].step # "idle",
         NEW r \in RunRecord, run' = [run EXCEPT ![w] = r],
         r.step # "idle" => r.id = run[w].id,
         UNCHANGED <<pool, count, carried, online>>,
         fifo' \in Seq(Request), acted' \in [1..MaxRun -> Seq(Nat)],
         \A id \in 1..MaxRun : id # run[w].id =>
           acted'[id] = acted[id] /\ UnderWay(carried, fifo', id) = UnderWay(carried, fifo, id),
         r.step # "idle" => Course(r, acted'[r.id], UnderWay(carried, fifo', r.id))
  PROVE  RunInv'
<1>0. carried' = carried
  OBVIOUS
<1>1. count["run"] \in Nat /\ count["run"] <= MaxRun /\ MaxRun \in Nat
  BY AutomationAssumption DEF RunInv, RunTypes, Bound
<1>2. \A v \in Worker : run[v].step # "idle" => run[v].id \in 1..count["run"] /\ run[v].id \in 1..MaxRun
  BY <1>1 DEF RunInv, RunsApart
<1>3. /\ run' \in [Worker -> RunRecord] /\ run'[w] = r
      /\ \A v \in Worker : v # w => run'[v] = run[v]
  BY DEF RunInv, RunTypes
<1>4. RunTypes'
  BY <1>3 DEF RunInv, RunTypes
<1>5. RunsApart'
  <2>1. \A v \in Worker : run'[v].step # "idle" => run[v].step # "idle" /\ run'[v].id = run[v].id
    BY <1>3
  <2> QED BY <2>1 DEF RunInv, RunsApart
<1>6. NothingYet'
  <2> SUFFICES ASSUME NEW id \in 1..MaxRun, Unborn(id)'
               PROVE  acted'[id] = <<>> /\ UnderWay(carried, fifo', id) = <<>>
    BY <1>0 DEF NothingYet
  <2>1. Unborn(id)
    BY DEF Unborn
  <2>2. id # run[w].id
    BY <1>1, <1>2, <2>1 DEF RunInv, RunsApart, Unborn
  <2> QED BY <2>1, <2>2 DEF RunInv, NothingYet
<1>7. RunsGoOn'
  <2> SUFFICES ASSUME NEW v \in Worker, run'[v].step # "idle"
               PROVE  Course(run'[v], acted'[run'[v].id], UnderWay(carried, fifo', run'[v].id))
    BY <1>0 DEF RunsGoOn
  <2>1. CASE v = w
    BY <1>3, <2>1
  <2>2. CASE v # w
    <3>1. run'[v] = run[v] /\ run[v].step # "idle"
      BY <1>3, <2>2
    <3>2. run[v].id # run[w].id /\ run[v].id \in 1..MaxRun
      BY <1>2, <2>2, <3>1 DEF RunInv, RunsApart
    <3>3. /\ acted'[run[v].id] = acted[run[v].id]
          /\ UnderWay(carried, fifo', run[v].id) = UnderWay(carried, fifo, run[v].id)
      BY <3>2
    <3> QED BY <3>1, <3>3 DEF RunInv, RunsGoOn
  <2> QED BY <2>1, <2>2
<1> QED BY <1>4, <1>5, <1>6, <1>7 DEF RunInv

(* A client enters a scene.                                                *)
LEMMA EnterSceneStep ==
  ASSUME RunInv, NEW s \in Scene, EnterScene(s)
  PROVE  RunInv'
<1>0. /\ run' = run /\ acted' = acted /\ fifo' = fifo /\ carried' = carried /\ online' = online
  BY DEF EnterScene, requests, devices
<1>1. count["run"] \in Nat /\ count["run"] < MaxRun /\ MaxRun \in Nat
  BY AutomationAssumption DEF RunInv, RunTypes, Bound, EnterScene, Counted
<1>2. count' = [count EXCEPT !["run"] = @ + 1]
  BY DEF EnterScene, Counted
<1>3. count' \in [DOMAIN Bound -> Nat] /\ count'["run"] = count["run"] + 1 /\ count'["run"] <= MaxRun
  BY <1>1, <1>2 DEF RunInv, RunTypes, Bound
<1>4. PICK x : x = [id |-> count["run"] + 1, scene |-> s]
  OBVIOUS
<1>5. PICK P : P = [id : 1..MaxRun, scene : Scene]
  OBVIOUS
<1>6. x \in P /\ pool \in Seq(P) /\ pool' = Append(pool, x)
  <2>1. pool \in Seq(P)
    BY <1>5 DEF RunInv, RunTypes
  <2>2. x \in P
    <3>1. count["run"] + 1 \in 1..MaxRun
      BY <1>1
    <3> QED BY <3>1, <1>4, <1>5
  <2>3. pool' = Append(pool, x)
    BY <1>4 DEF EnterScene
  <2> QED BY <2>1, <2>2, <2>3
<1>7. /\ pool' \in Seq(P) /\ DOMAIN pool' = 1..(Len(pool) + 1) /\ Len(pool) \in Nat /\ DOMAIN pool = 1..Len(pool)
      /\ \A i \in 1..Len(pool) : pool'[i] = pool[i] /\ pool[i] \in P
      /\ pool'[Len(pool) + 1] = x
  BY <1>6, AppendProperties, LenProperties, ElementOfSeq
<1>8. RunTypes'
  BY <1>0, <1>3, <1>5, <1>7 DEF RunInv, RunTypes
<1>9. \A i \in DOMAIN pool : pool[i].id <= count["run"] /\ pool[i].id \in 1..MaxRun
  BY <1>5, <1>7 DEF RunInv, RunsApart
<1>10. \A i \in DOMAIN pool' : (i \in DOMAIN pool /\ pool'[i] = pool[i]) \/ (i = Len(pool) + 1 /\ pool'[i].id = count["run"] + 1)
  BY <1>4, <1>7
<1>11. RunsApart'
  <2>1. \A i \in DOMAIN pool' : pool'[i].id <= count'["run"]
    BY <1>1, <1>3, <1>9, <1>10
  <2>2. ASSUME NEW i \in DOMAIN pool', NEW j \in DOMAIN pool', pool'[i].id = pool'[j].id
        PROVE  i = j
    <3>1. CASE i \in DOMAIN pool /\ j \in DOMAIN pool /\ pool'[i] = pool[i] /\ pool'[j] = pool[j]
      BY <3>1, <2>2 DEF RunInv, RunsApart
    <3>2. CASE ~(i \in DOMAIN pool /\ j \in DOMAIN pool /\ pool'[i] = pool[i] /\ pool'[j] = pool[j])
      BY <3>2, <2>2, <1>1, <1>9, <1>10
    <3> QED BY <3>1, <3>2
  <2>3. ASSUME NEW w \in Worker, run[w].step # "idle"
        PROVE  /\ run[w].id \in 1..count'["run"]
               /\ \A i \in DOMAIN pool' : pool'[i].id # run[w].id
    <3>1. run[w].id \in 1..count["run"] /\ \A i \in DOMAIN pool : pool[i].id # run[w].id
      BY <2>3 DEF RunInv, RunsApart
    <3> QED BY <3>1, <1>1, <1>3, <1>10
  <2>4. \A w \in Worker : run[w].step # "idle" =>
          \A v \in Worker : run[v].step # "idle" /\ run[v].id = run[w].id => v = w
    BY DEF RunInv, RunsApart
  <2> QED BY <1>0, <2>1, <2>2, <2>3, <2>4 DEF RunsApart
<1>12. NothingYet'
  <2>1. ASSUME NEW id \in 1..MaxRun, Unborn(id)' PROVE Unborn(id)
    <3>1. CASE id > count["run"]
      BY <3>1 DEF Unborn
    <3>2. CASE ~(id > count["run"])
      <4>1. ~(id > count'["run"]) /\ id # count["run"] + 1
        BY <3>2, <1>1, <1>3
      <4>2. PICK i \in DOMAIN pool' : pool'[i].id = id
        BY <2>1, <4>1 DEF Unborn
      <4>3. i \in DOMAIN pool /\ pool[i].id = id
        BY <4>1, <4>2, <1>10
      <4> QED BY <4>3 DEF Unborn
    <3> QED BY <3>1, <3>2
  <2> QED BY <1>0, <2>1 DEF RunInv, NothingYet
<1>13. RunsGoOn'
  BY <1>0 DEF RunInv, RunsGoOn
<1> QED BY <1>8, <1>11, <1>12, <1>13 DEF RunInv

(* A thread begins with one that waits.                                    *)
LEMMA StartStep ==
  ASSUME RunInv, NEW w \in Worker, Start(w)
  PROVE  RunInv'
<1>0. /\ acted' = acted /\ fifo' = fifo /\ carried' = carried /\ online' = online /\ count' = count
      /\ pool # <<>> /\ pool' = Tail(pool)
  BY DEF Start, requests, devices
<1>1. count["run"] \in Nat /\ count["run"] <= MaxRun /\ MaxRun \in Nat
  BY AutomationAssumption DEF RunInv, RunTypes, Bound
<1>2. PICK P : P = [id : 1..MaxRun, scene : Scene]
  OBVIOUS
<1>3. PICK x \in P : x = Head(pool)
  <2>1. pool \in Seq(P) /\ pool # <<>>
    BY <1>0, <1>2 DEF RunInv, RunTypes
  <2> QED BY <2>1, PopHead
<1>4. /\ pool' \in Seq(P) /\ Len(pool) \in Nat \ {0} /\ DOMAIN pool = 1..Len(pool)
      /\ DOMAIN pool' = 1..(Len(pool) - 1) /\ x = pool[1]
      /\ \A i \in DOMAIN pool' : pool'[i] = pool[i + 1] /\ i + 1 \in DOMAIN pool /\ i + 1 # 1
  <2>1. pool \in Seq(P)
    BY <1>2 DEF RunInv, RunTypes
  <2>2. /\ Tail(pool) \in Seq(P) /\ Len(pool) \in Nat \ {0} /\ Len(Tail(pool)) = Len(pool) - 1
        /\ x = pool[1] /\ \A i \in 1..(Len(pool) - 1) : Tail(pool)[i] = pool[i + 1]
    BY <2>1, <1>0, <1>3, PopHead
  <2>3. DOMAIN Tail(pool) = 1..(Len(pool) - 1) /\ DOMAIN pool = 1..Len(pool)
    BY <2>1, <2>2, LenProperties
  <2> QED BY <2>2, <2>3, <1>0
<1>5. PICK o : o = Idle
  OBVIOUS
<1>6. PICK r : r = [o EXCEPT !.id = x.id, !.scene = x.scene, !.at = 1, !.step = "check"]
  OBVIOUS
<1>7. /\ run[w].step = "idle" /\ run' = [run EXCEPT ![w] = r]
      /\ r \in RunRecord
      /\ r.id = x.id /\ r.scene = x.scene /\ r.at = 1 /\ r.delay = 0 /\ r.slept = 0
      /\ r.step = "check" /\ r.todo = <<>>
  <2>1. run[w].step = "idle" /\ run' = [run EXCEPT ![w] = r]
    BY <1>3, <1>5, <1>6 DEF Start
  <2>2. o \in RunRecord /\ o.delay = 0 /\ o.slept = 0 /\ o.todo = <<>>
    <3>1. <<>> \in Seq(Request)
      OBVIOUS
    <3> QED BY <3>1, <1>1, <1>5 DEF Idle, RunRecord
  <2>3. r \in RunRecord
    <3>1. x.id \in 0..MaxRun /\ x.scene \in Scene \cup {0}
      BY <1>1, <1>2, <1>3
    <3> QED BY <1>6, <2>2, <3>1 DEF RunRecord
  <2>4. /\ r.id = x.id /\ r.scene = x.scene /\ r.at = 1 /\ r.delay = 0 /\ r.slept = 0
        /\ r.step = "check" /\ r.todo = <<>>
    BY <1>6, <2>2 DEF RunRecord
  <2> QED BY <2>1, <2>3, <2>4
<1>8. /\ run' \in [Worker -> RunRecord] /\ run'[w] = r
      /\ \A v \in Worker : v # w => run'[v] = run[v]
  BY <1>7 DEF RunInv, RunTypes
<1>9. RunTypes'
  BY <1>0, <1>2, <1>4, <1>8 DEF RunInv, RunTypes
<1>10. \A i \in DOMAIN pool : pool[i].id <= count["run"] /\ pool[i].id \in 1..MaxRun
  <2>1. \A i \in DOMAIN pool : pool[i] \in P
    BY <1>2, <1>4, ElementOfSeq DEF RunInv, RunTypes
  <2> QED BY <2>1, <1>2 DEF RunInv, RunsApart
<1>11. /\ x.id \in 1..count["run"] /\ x.id \in 1..MaxRun
       /\ \A i \in DOMAIN pool' : pool'[i].id # x.id
       /\ \A v \in Worker : run[v].step # "idle" => run[v].id # x.id
  <2>1. 1 \in DOMAIN pool
    BY <1>4
  <2>2. x.id \in 1..count["run"] /\ x.id \in 1..MaxRun
    BY <2>1, <1>1, <1>4, <1>10
  <2>3. \A i \in DOMAIN pool' : pool'[i].id # x.id
    BY <2>1, <1>4 DEF RunInv, RunsApart
  <2>4. \A v \in Worker : run[v].step # "idle" => run[v].id # x.id
    BY <2>1, <1>4 DEF RunInv, RunsApart
  <2> QED BY <2>2, <2>3, <2>4
<1>12. RunsApart'
  <2>1. \A i \in DOMAIN pool' : pool'[i].id <= count["run"]
    BY <1>4, <1>10
  <2>2. \A i, j \in DOMAIN pool' : pool'[i].id = pool'[j].id => i = j
    <3> SUFFICES ASSUME NEW i \in DOMAIN pool', NEW j \in DOMAIN pool', pool'[i].id = pool'[j].id
                 PROVE  i = j
      OBVIOUS
    <3>1. pool[i + 1].id = pool[j + 1].id /\ i + 1 \in DOMAIN pool /\ j + 1 \in DOMAIN pool
      BY <1>4
    <3>2. i + 1 = j + 1
      BY <3>1 DEF RunInv, RunsApart
    <3> QED BY <3>2, <1>4
  <2>3. ASSUME NEW v \in Worker, run'[v].step # "idle"
        PROVE  /\ run'[v].id \in 1..count["run"]
               /\ \A i \in DOMAIN pool' : pool'[i].id # run'[v].id
               /\ \A u \in Worker : run'[u].step # "idle" /\ run'[u].id = run'[v].id => u = v
    <3>1. CASE v = w
      <4>1. run'[v].id = x.id
        BY <3>1, <1>7, <1>8
      <4>2. \A u \in Worker : u # w /\ run'[u].step # "idle" => run'[u].id # x.id
        BY <1>8, <1>11
      <4> QED BY <3>1, <4>1, <4>2, <1>11
    <3>2. CASE v # w
      <4>1. run'[v] = run[v] /\ run[v].step # "idle"
        BY <2>3, <3>2, <1>8
      <4>2. run[v].id # x.id /\ run'[w].id = x.id
        BY <4>1, <1>7, <1>8, <1>11
      <4>3. \A i \in DOMAIN pool' : pool'[i].id # run[v].id
        BY <4>1, <1>4 DEF RunInv, RunsApart
      <4>4. ASSUME NEW u \in Worker, run'[u].step # "idle", run'[u].id = run[v].id PROVE u = v
        <5>1. u # w
          BY <4>2, <4>4
        <5>2. run'[u] = run[u]
          BY <5>1, <1>8
        <5> QED BY <4>1, <4>4, <5>2 DEF RunInv, RunsApart
      <4>5. run[v].id \in 1..count["run"]
        BY <4>1 DEF RunInv, RunsApart
      <4> QED BY <4>1, <4>3, <4>4, <4>5
    <3> QED BY <3>1, <3>2
  <2> QED BY <1>0, <2>1, <2>2, <2>3 DEF RunsApart
<1>13. NothingYet'
  <2>1. ASSUME NEW id \in 1..MaxRun, Unborn(id)' PROVE Unborn(id)
    BY <2>1, <1>0, <1>4 DEF Unborn
  <2> QED BY <1>0, <2>1 DEF RunInv, NothingYet
<1>14. RunsGoOn'
  <2> SUFFICES ASSUME NEW v \in Worker, run'[v].step # "idle"
               PROVE  Course(run'[v], acted[run'[v].id], UnderWay(carried, fifo, run'[v].id))
    BY <1>0 DEF RunsGoOn
  <2>1. CASE v = w
    <3>1. run'[v] = r /\ r.id = x.id /\ r.scene = x.scene /\ x.scene \in Scene
      BY <2>1, <1>2, <1>3, <1>7, <1>8
    <3>2. Unborn(x.id)
      <4>1. 1 \in DOMAIN pool
        BY <1>4
      <4> QED BY <4>1, <1>4 DEF Unborn
    <3>3. acted[x.id] = <<>> /\ UnderWay(carried, fifo, x.id) = <<>>
      BY <3>2, <1>11 DEF RunInv, NothingYet
    <3>4. Asked(<<>>, x.scene, x.id) = <<>>
      <4>1. PICK q : q = [n \in DOMAIN <<>> |-> Asks(Actions[x.scene][<<>>[n]].acts, x.id)]
        OBVIOUS
      <4>2. q = <<>>
        BY <4>1
      <4>3. FlattenSeq(q) = q
        BY <4>2 DEF FlattenSeq
      <4> QED BY <4>1, <4>2, <4>3 DEF Asked
    <3>5. Slept(r, <<>>)
      BY <1>7 DEF Slept
    <3>6. <<>> \o r.todo = Asked(<<>>, r.scene, r.id)
      BY <3>1, <3>4, <1>7
    <3>7. Course(r, <<>>, <<>>)
      BY <3>1, <3>5, <3>6, <1>7 DEF Course
    <3> QED BY <3>1, <3>3, <3>7
  <2>2. CASE v # w
    <3>1. run'[v] = run[v]
      BY <2>2, <1>8
    <3> QED BY <3>1 DEF RunInv, RunsGoOn
  <2> QED BY <2>1, <2>2
<1> QED BY <1>9, <1>12, <1>13, <1>14 DEF RunInv

(* One more action is executed.                                            *)
LEMMA AskedAppend ==
  ASSUME NEW s \in Scene, NEW id \in 1..MaxRun, NEW a \in Seq(Nat),
         \A n \in DOMAIN a : a[n] \in DOMAIN Actions[s],
         NEW i \in DOMAIN Actions[s]
  PROVE  Asked(Append(a, i), s, id) = Asked(a, s, id) \o Asks(Actions[s][i].acts, id)
<1> DEFINE Ask(j) == Asks(Actions[s][j].acts, id)
<1>1. \A j \in DOMAIN Actions[s] : Ask(j) \in Seq(Request)
  BY ActionAsks
<1> HIDE DEF Ask
<1>2. PICK D : D = DOMAIN Actions[s]
  OBVIOUS
<1>3. /\ i \in Nat /\ DOMAIN a = 1..Len(a) /\ Len(a) \in Nat
  BY SceneLists, LenProperties
<1>4. PICK b : b = Append(a, i)
  OBVIOUS
<1>5. /\ DOMAIN b = 1..(Len(a) + 1)
      /\ \A n \in 1..Len(a) : b[n] = a[n]
      /\ b[Len(a) + 1] = i
  BY <1>3, <1>4, AppendProperties, LenProperties
<1>6. PICK q : q = [n \in DOMAIN a |-> Ask(a[n])]
  OBVIOUS
<1>7. PICK p : p = [n \in DOMAIN b |-> Ask(b[n])]
  OBVIOUS
<1>8. PICK R : R = Seq(Request)
  OBVIOUS
<1>9. \A n \in 1..Len(a) : Ask(a[n]) \in R
  BY <1>1, <1>3, <1>8
<1>10. q \in Seq(R) /\ Len(q) = Len(a) /\ Ask(i) \in R
  BY <1>1, <1>3, <1>6, <1>8, <1>9, IsASeq
<1>11. p = Append(q, Ask(i))
  <2>1. /\ Append(q, Ask(i)) \in Seq(R) /\ Len(Append(q, Ask(i))) = Len(a) + 1
        /\ \A n \in 1..Len(a) : Append(q, Ask(i))[n] = q[n]
        /\ Append(q, Ask(i))[Len(a) + 1] = Ask(i)
    BY <1>10, AppendProperties
  <2>2. \A n \in 1..(Len(a) + 1) : p[n] = Ask(b[n])
    BY <1>5, <1>7
  <2>3. ASSUME NEW n \in 1..(Len(a) + 1) PROVE p[n] = Append(q, Ask(i))[n]
    <3>1. CASE n \in 1..Len(a)
      <4>1. p[n] = Ask(a[n])
        BY <2>2, <3>1, <1>5
      <4> QED BY <4>1, <2>1, <3>1, <1>3, <1>6
    <3>2. CASE n = Len(a) + 1
      <4>1. p[n] = Ask(i)
        BY <2>2, <3>2, <1>5
      <4> QED BY <4>1, <2>1, <3>2
    <3>3. n \in 1..Len(a) \/ n = Len(a) + 1
      BY <1>3
    <3> QED BY <3>1, <3>2, <3>3
  <2>4. p \in Seq(R) /\ Len(p) = Len(a) + 1
    <3>1. \A n \in 1..(Len(a) + 1) : Ask(b[n]) \in R
      <4> SUFFICES ASSUME NEW n \in 1..(Len(a) + 1) PROVE Ask(b[n]) \in R
        OBVIOUS
      <4>1. n \in 1..Len(a) \/ n = Len(a) + 1
        BY <1>3
      <4> QED BY <4>1, <1>5, <1>9, <1>10
    <3>2. p = [n \in 1..(Len(a) + 1) |-> Ask(b[n])]
      BY <1>5, <1>7
    <3>3. Len(a) + 1 \in Nat
      BY <1>3
    <3> QED BY <3>1, <3>2, <3>3, IsASeq
  <2> QED BY <2>1, <2>3, <2>4, SeqEqual
<1>12. FlattenSeq(Append(q, Ask(i))) = FlattenSeq(q) \o Ask(i)
  BY <1>8, <1>10, FlattenAppend
<1>13. Asked(a, s, id) = FlattenSeq(q) /\ Asked(b, s, id) = FlattenSeq(p)
  BY <1>6, <1>7 DEF Asked, Ask
<1>14. Asked(b, s, id) = Asked(a, s, id) \o Ask(i)
  BY <1>11, <1>12, <1>13
<1> QED BY <1>4, <1>14 DEF Ask

(* execute_action.                                                         *)
LEMMA ExecutesStep ==
  ASSUME RunInv, NEW w \in Worker, run[w].step \in {"check", "sleep"},
         NEW r \in RunRecord, r.id = run[w].id, r.scene = run[w].scene, r.at = run[w].at,
         r.slept = r.delay, run[w].delay <= r.delay,
         r.delay = run[w].delay \/ r.delay = Actions[r.scene][r.at].delay,
         r.at \in DOMAIN Actions[r.scene], Actions[r.scene][r.at].delay <= r.delay,
         Executes(w, r), UNCHANGED <<pool, requests, devices, modes, count>>
  PROVE  RunInv'
<1>0. fifo' = fifo /\ carried' = carried /\ online' = online /\ pool' = pool /\ count' = count
  BY DEF requests, devices
<1>1. PICK a : a = acted[r.id]
  OBVIOUS
<1>2. PICK u : u = UnderWay(carried, fifo, r.id)
  OBVIOUS
<1>3. Course(run[w], a, u)
  BY <1>1, <1>2 DEF RunInv, RunsGoOn
<1>4. r.id \in 1..MaxRun /\ r.scene \in Scene
  <2>1. count["run"] \in Nat /\ count["run"] <= MaxRun /\ MaxRun \in Nat
    BY AutomationAssumption DEF RunInv, RunTypes, Bound
  <2>2. r.id \in 1..count["run"]
    BY DEF RunInv, RunsApart
  <2>3. r.scene \in Scene
    BY <1>3 DEF Course
  <2> QED BY <2>1, <2>2, <2>3
<1>5. a \in Seq(Nat) /\ \A n \in DOMAIN a : a[n] \in DOMAIN Actions[r.scene]
  BY <1>1, <1>3, <1>4 DEF RunInv, RunTypes, Course
<1>6. PICK b : b = Append(a, r.at)
  OBVIOUS
<1>7. r.at \in Nat /\ r.at # 0
  BY <1>3 DEF Course, RunRecord
<1>8. /\ b \in Seq(Nat) /\ DOMAIN b = 1..(Len(a) + 1) /\ Len(a) \in Nat /\ b # <<>>
      /\ DOMAIN a = 1..Len(a)
      /\ \A n \in 1..Len(a) : b[n] = a[n]
      /\ b[Len(a) + 1] = r.at
  BY <1>5, <1>6, <1>7, AppendProperties, LenProperties
<1>9. PICK q : q = Grouped(Actions[r.scene][r.at].acts, r.id)
  OBVIOUS
<1>10. /\ q \in Seq(Request) /\ \A n \in DOMAIN q : q[n].by = r.id
       /\ q = Asks(Actions[r.scene][r.at].acts, r.id)
  BY <1>4, <1>9, ActionAsks
<1>11. PICK o : o = [r EXCEPT !.step = "push", !.todo = q]
  OBVIOUS
<1>12. o \in RunRecord
  BY <1>10, <1>11 DEF RunRecord
<1>13. /\ o.id = r.id /\ o.scene = r.scene /\ o.at = r.at /\ o.delay = r.delay /\ o.slept = r.slept
       /\ o.step = "push" /\ o.todo = q
  BY <1>11 DEF RunRecord
<1>14. run' = [run EXCEPT ![w] = o] /\ acted' = [acted EXCEPT ![r.id] = b]
  BY <1>1, <1>6, <1>9, <1>11 DEF Executes, Current
<1>15. /\ acted' \in [1..MaxRun -> Seq(Nat)] /\ acted'[r.id] = b
       /\ \A id \in 1..MaxRun : id # r.id => acted'[id] = acted[id]
  BY <1>4, <1>8, <1>14 DEF RunInv, RunTypes
<1>16. u = Asked(a, r.scene, r.id)
  <2>1. run[w].todo = <<>> /\ u \o run[w].todo = Asked(a, r.scene, r.id)
    BY <1>3 DEF Course
  <2>2. u \in Seq(Request)
    <3>1. Of(fifo, r.id) \in Seq(Request) /\ carried[r.id] \in Seq(Request)
      BY <1>4, OfProps DEF RunInv, RunTypes
    <3> QED BY <3>1, <1>2, ConcatProperties DEF UnderWay
  <2> QED BY <2>1, <2>2, ConcatEmptySeq
<1>17. u \o q = Asked(b, r.scene, r.id)
  <2>1. Asked(b, r.scene, r.id) = Asked(a, r.scene, r.id) \o Asks(Actions[r.scene][r.at].acts, r.id)
    BY <1>4, <1>5, <1>6, AskedAppend
  <2> QED BY <2>1, <1>10, <1>16
<1>18. \A n \in DOMAIN b : b[n] \in DOMAIN Actions[r.scene]
  BY <1>5, <1>8
<1>19. Slept(o, b)
  <2>1. /\ \A n \in DOMAIN a : Actions[r.scene][a[n]].delay <= run[w].delay
        /\ run[w].delay = 0 \/ \E n \in DOMAIN a : Actions[r.scene][a[n]].delay = run[w].delay
    BY <1>3 DEF Course, Slept
  <2>2. \A n \in DOMAIN b : Actions[r.scene][b[n]].delay \in Nat
    BY <1>4, <1>18, SceneLists
  <2>3. run[w].delay \in Nat /\ r.delay \in Nat
    BY DEF RunInv, RunTypes, RunRecord
  <2>4. ASSUME NEW n \in DOMAIN b PROVE Actions[r.scene][b[n]].delay <= r.delay
    <3>1. CASE n \in DOMAIN a
      <4>1. b[n] = a[n]
        BY <3>1, <1>8
      <4>2. Actions[r.scene][b[n]].delay <= run[w].delay
        BY <3>1, <4>1, <2>1
      <4> QED BY <4>2, <2>2, <2>3
    <3>2. CASE n = Len(a) + 1
      BY <3>2, <1>8
    <3>3. n \in DOMAIN a \/ n = Len(a) + 1
      BY <1>8
    <3> QED BY <3>1, <3>2, <3>3
  <2>5. r.delay = 0 \/ \E n \in DOMAIN b : Actions[r.scene][b[n]].delay = r.delay
    <3>1. CASE r.delay = Actions[r.scene][r.at].delay
      <4>1. Len(a) + 1 \in DOMAIN b
        BY <1>8
      <4> QED BY <3>1, <4>1, <1>8
    <3>2. CASE r.delay = run[w].delay /\ run[w].delay # 0
      <4>1. PICK n \in DOMAIN a : Actions[r.scene][a[n]].delay = run[w].delay
        BY <3>2, <2>1
      <4>2. n \in DOMAIN b /\ b[n] = a[n]
        BY <4>1, <1>8
      <4> QED BY <3>2, <4>1, <4>2
    <3> QED BY <3>1, <3>2
  <2> QED BY <2>4, <2>5, <1>13 DEF Slept
<1>20. Course(o, b, u)
  BY <1>4, <1>7, <1>8, <1>10, <1>13, <1>17, <1>18, <1>19 DEF Course
<1>21. UnderWay(carried, fifo', r.id) = u
  BY <1>0, <1>2
<1> QED
  <2>1. fifo' \in Seq(Request)
    BY <1>0 DEF RunInv, RunTypes
  <2>2. \A id \in 1..MaxRun : id # run[w].id =>
          acted'[id] = acted[id] /\ UnderWay(carried, fifo', id) = UnderWay(carried, fifo, id)
    BY <1>0, <1>15
  <2>3. Course(o, acted'[o.id], UnderWay(carried, fifo', o.id))
    BY <1>13, <1>15, <1>20, <1>21
  <2> QED BY <1>0, <1>12, <1>13, <1>14, <1>15, <2>1, <2>2, <2>3, RunStep

LEMMA CheckStep ==
  ASSUME RunInv, NEW w \in Worker, Check(w)
  PROVE  RunInv'
<1>0. /\ pool' = pool /\ count' = count /\ UNCHANGED <<pool, requests, devices, modes, count>>
      /\ fifo' = fifo /\ carried' = carried /\ online' = online
  BY DEF Check, requests, devices
<1>1. PICK r \in RunRecord : r = run[w]
  BY DEF RunInv, RunTypes
<1>2. PICK a : a = acted[r.id]
  OBVIOUS
<1>3. PICK u : u = UnderWay(carried, fifo, r.id)
  OBVIOUS
<1>4. r.step = "check" /\ r.at <= Len(Actions[r.scene])
  BY <1>1 DEF Check
<1>5. Course(r, a, u)
  BY <1>1, <1>2, <1>3, <1>4 DEF RunInv, RunsGoOn
<1>6. r.scene \in Scene /\ r.at \in DOMAIN Actions[r.scene] /\ r.at \in Nat \ {0}
  <2>1. r.scene \in Scene /\ r.at \in Nat \ {0}
    BY <1>1, <1>5 DEF Course, RunRecord
  <2> QED BY <2>1, <1>4, SceneLists
<1>7. PICK d : d = Actions[r.scene][r.at].delay
  OBVIOUS
<1>8. d \in Nat /\ r.delay \in Nat
  BY <1>1, <1>6, <1>7, SceneLists DEF RunRecord
<1>9. ASSUME NEW o \in RunRecord, run' = [run EXCEPT ![w] = o], o.id = r.id, o.step # "idle",
             acted' = acted, Course(o, a, u)
      PROVE  RunInv'
  <2>1. acted' \in [1..MaxRun -> Seq(Nat)] /\ fifo' \in Seq(Request)
    BY <1>0, <1>9 DEF RunInv, RunTypes
  <2>2. \A id \in 1..MaxRun : id # run[w].id =>
          acted'[id] = acted[id] /\ UnderWay(carried, fifo', id) = UnderWay(carried, fifo, id)
    BY <1>0, <1>9
  <2>3. acted'[o.id] = a /\ UnderWay(carried, fifo', o.id) = u
    BY <1>0, <1>2, <1>3, <1>9
  <2>4. run[w].step # "idle" /\ o.id = run[w].id
    BY <1>1, <1>4, <1>9
  <2>5. UNCHANGED <<pool, count, carried, online>>
    BY <1>0
  <2>6. o.step # "idle" => Course(o, acted'[o.id], UnderWay(carried, fifo', o.id))
    BY <1>9, <2>3
  <2> QED BY <1>9, <2>1, <2>2, <2>4, <2>5, <2>6, RunStep
<1>10. CASE run' = [run EXCEPT ![w] = Skipped(@, Current(w))] /\ acted' = acted
  <2>1. PICK o : o = [r EXCEPT !.at = @ + 1]
    OBVIOUS
  <2>2. o \in RunRecord
    BY <1>6, <2>1 DEF RunRecord
  <2>3. /\ o.id = r.id /\ o.scene = r.scene /\ o.at = r.at + 1 /\ o.delay = r.delay /\ o.slept = r.slept
        /\ o.step = r.step /\ o.todo = r.todo
    BY <2>1 DEF RunRecord
  <2>4. run' = [run EXCEPT ![w] = o]
    BY <1>1, <1>10, <2>1 DEF Skipped
  <2>5. Course(o, a, u)
    BY <1>4, <1>5, <1>6, <2>3 DEF Course, Slept
  <2> QED BY <1>4, <1>9, <1>10, <2>2, <2>3, <2>4, <2>5
<1>11. CASE r.delay < d /\ run' = [run EXCEPT ![w].step = "sleep"] /\ acted' = acted
  <2>1. PICK o : o = [r EXCEPT !.step = "sleep"]
    OBVIOUS
  <2>2. o \in RunRecord
    BY <2>1 DEF RunRecord
  <2>3. /\ o.id = r.id /\ o.scene = r.scene /\ o.at = r.at /\ o.delay = r.delay /\ o.slept = r.slept
        /\ o.step = "sleep" /\ o.todo = r.todo
    BY <2>1 DEF RunRecord
  <2>4. run' = [run EXCEPT ![w] = o]
    BY <1>1, <1>11, <2>1
  <2>5. Course(o, a, u)
    BY <1>4, <1>5, <1>6, <1>7, <1>11, <2>3 DEF Course, Slept
  <2> QED BY <1>9, <1>11, <2>2, <2>3, <2>4, <2>5
<1>12. CASE ~(r.delay < d) /\ Executes(w, r)
  <2>1. r.slept = r.delay /\ run[w].delay <= r.delay /\ d <= r.delay
    BY <1>1, <1>5, <1>8, <1>12 DEF Course, Slept
  <2> QED BY <1>0, <1>1, <1>4, <1>6, <1>7, <1>12, <2>1, ExecutesStep
<1> QED BY <1>1, <1>7, <1>10, <1>11, <1>12 DEF Check, Current

LEMMA SleepStep ==
  ASSUME RunInv, NEW w \in Worker, Sleep(w)
  PROVE  RunInv'
<1>0. UNCHANGED <<pool, requests, devices, modes, count>>
  BY DEF Sleep
<1>1. PICK r \in RunRecord : r = run[w]
  BY DEF RunInv, RunTypes
<1>2. r.step = "sleep"
  BY <1>1 DEF Sleep
<1>3. Course(r, acted[r.id], UnderWay(carried, fifo, r.id))
  BY <1>1, <1>2 DEF RunInv, RunsGoOn
<1>4. /\ r.scene \in Scene /\ r.at \in DOMAIN Actions[r.scene]
      /\ r.slept = r.delay /\ r.delay < Actions[r.scene][r.at].delay
  BY <1>2, <1>3 DEF Course, Slept
<1>5. PICK d \in Nat : d = Actions[r.scene][r.at].delay
  BY <1>4, SceneLists
<1>6. PICK o : o = [r EXCEPT !.slept = @ + (d - r.delay), !.delay = d]
  OBVIOUS
<1>7. r.delay \in Nat /\ r.slept \in Nat /\ r.slept + (d - r.delay) = d
  BY <1>4 DEF RunRecord
<1>8. o \in RunRecord
  BY <1>6, <1>7 DEF RunRecord
<1>9. o.id = r.id /\ o.scene = r.scene /\ o.at = r.at /\ o.delay = d /\ o.slept = d
  BY <1>6, <1>7 DEF RunRecord
<1>10. Executes(w, o)
  BY <1>1, <1>5, <1>6 DEF Sleep, Current
<1>11. run[w].delay <= o.delay /\ d <= o.delay
  BY <1>1, <1>4, <1>5, <1>7, <1>9
<1> QED BY <1>0, <1>1, <1>2, <1>4, <1>5, <1>8, <1>9, <1>10, <1>11, ExecutesStep

LEMMA EndSceneStep ==
  ASSUME RunInv, NEW w \in Worker, EndScene(w)
  PROVE  RunInv'
<1>0. /\ pool' = pool /\ count' = count /\ acted' = acted
      /\ fifo' = fifo /\ carried' = carried /\ online' = online
  BY DEF EndScene, requests, devices
<1>1. PICK i : i = Idle
  OBVIOUS
<1>2. i \in RunRecord /\ i.step = "idle"
  <2>1. <<>> \in Seq(Request)
    OBVIOUS
  <2> QED BY <2>1, <1>1, AutomationAssumption DEF Idle, RunRecord
<1>3. run[w].step # "idle" /\ run' = [run EXCEPT ![w] = i]
  BY <1>1 DEF EndScene
<1>4. acted' \in [1..MaxRun -> Seq(Nat)] /\ fifo' \in Seq(Request)
  BY <1>0 DEF RunInv, RunTypes
<1>5. \A id \in 1..MaxRun : id # run[w].id =>
        acted'[id] = acted[id] /\ UnderWay(carried, fifo', id) = UnderWay(carried, fifo, id)
  BY <1>0
<1>6. UNCHANGED <<pool, count, carried, online>>
  BY <1>0
<1>7. i.step # "idle" => i.id = run[w].id
  BY <1>2
<1>8. i.step # "idle" => Course(i, acted'[i.id], UnderWay(carried, fifo', i.id))
  BY <1>2
<1> QED BY <1>2, <1>3, <1>4, <1>5, <1>6, <1>7, <1>8, RunStep

(* A request of a run enters the FIFO; it is one of that run only.         *)
LEMMA PushStep ==
  ASSUME RunInv, NEW w \in Worker, Push(w)
  PROVE  RunInv'
<1>0. /\ pool' = pool /\ count' = count /\ acted' = acted
      /\ carried' = carried /\ online' = online
  BY DEF Push, devices
<1>1. PICK r \in RunRecord : r = run[w]
  BY DEF RunInv, RunTypes
<1>2. PICK a : a = acted[r.id]
  OBVIOUS
<1>3. PICK u : u = UnderWay(carried, fifo, r.id)
  OBVIOUS
<1>4. r.step = "push"
  BY <1>1 DEF Push
<1>5. Course(r, a, u)
  BY <1>1, <1>2, <1>3, <1>4 DEF RunInv, RunsGoOn
<1>6. r.id \in 1..MaxRun /\ r.at \in Nat /\ r.at # 0
  <2>1. count["run"] \in Nat /\ count["run"] <= MaxRun /\ MaxRun \in Nat
    BY AutomationAssumption DEF RunInv, RunTypes, Bound
  <2>2. r.id \in 1..count["run"]
    BY <1>1, <1>4 DEF RunInv, RunsApart
  <2> QED BY <2>1, <2>2, <1>5 DEF Course, RunRecord
<1>7. PICK q \in Seq(Request) : q = r.todo
  BY DEF RunRecord
<1>8. fifo \in Seq(Request) /\ carried \in [1..MaxRun -> Seq(Request)]
  BY DEF RunInv, RunTypes
<1>9. PICK s : s = SubSeq(q, 1, Min({1, Len(q)}))
  OBVIOUS
<1>10. fifo' = fifo \o s
  BY <1>1, <1>7, <1>9 DEF Push
<1>11. PICK t : t = IF Len(q) <= 1 THEN <<>> ELSE Tail(q)
  OBVIOUS
<1>12. Len(q) \in Nat /\ DOMAIN q = 1..Len(q) /\ \A n \in 1..Len(q) : q[n].by = r.id
  BY <1>5, <1>7, LenProperties DEF Course
<1>13. /\ s \in Seq(Request) /\ t \in Seq(Request) /\ q = s \o t
       /\ \A n \in 1..Len(s) : s[n].by = r.id
       /\ \A n \in DOMAIN t : t[n].by = r.id
       /\ s = <<>> \/ \E x \in Request : s = <<x>> /\ x.by = r.id
  <2>1. CASE Len(q) = 0
    <3>1. Min({1, Len(q)}) = 0
      <4>1. {1, Len(q)} = {0, 1}
        BY <2>1
      <4>2. 0 \in {0, 1} /\ \A y \in {0, 1} : 0 <= y
        OBVIOUS
      <4>3. \A x \in {0, 1} : (\A y \in {0, 1} : x <= y) => x = 0
        OBVIOUS
      <4> QED BY <4>1, <4>2, <4>3 DEF Min
    <3>2. q = <<>> /\ s = <<>> /\ t = <<>>
      BY <2>1, <3>1, <1>9, <1>11, EmptySeq, SubSeqEmpty
    <3>3. <<>> \in Seq(Request)
      OBVIOUS
    <3> QED BY <3>2, <3>3, ConcatEmptySeq
  <2>2. CASE Len(q) # 0
    <3>1. Min({1, Len(q)}) = 1
      <4>1. 1 \in {1, Len(q)} /\ \A y \in {1, Len(q)} : 1 <= y
        BY <2>2, <1>12
      <4>2. \A x \in {1, Len(q)} : (\A y \in {1, Len(q)} : x <= y) => x = 1
        <5>1. PICK n \in Nat \ {0} : n = Len(q)
          BY <2>2, <1>12
        <5>2. \A x \in {1, n} : x <= 1 => x = 1
          OBVIOUS
        <5> QED BY <5>1, <5>2
      <4> QED BY <4>1, <4>2 DEF Min
    <3>2. q # <<>>
      BY <2>2, EmptySeq
    <3>3. PICK x \in Request : x = Head(q) /\ x = q[1]
      BY <3>2, PopHead
    <3>4. x.by = r.id
      BY <3>3, <1>12, <2>2
    <3>5. s = <<x>>
      <4>1. s = SubSeq(q, 1, 1)
        BY <1>9, <3>1
      <4>2. \A i \in 1..1 : q[i] \in Request
        BY <3>3
      <4>3. s \in Seq(Request) /\ Len(s) = 1 /\ s[1] = x
        BY <4>1, <4>2, <3>3, SubSeqProperties
      <4>4. <<x>> \in Seq(Request) /\ Len(<<x>>) = 1 /\ <<x>>[1] = x
        OBVIOUS
      <4> QED BY <4>3, <4>4, SeqEqual
    <3>6. t = Tail(q)
      <4>1. CASE Len(q) = 1
        <5>1. Tail(q) \in Seq(Request) /\ Len(Tail(q)) = 0
          BY <4>1, <3>2, PopHead
        <5>2. Tail(q) = <<>>
          BY <5>1, EmptySeq
        <5> QED BY <4>1, <5>2, <1>11
      <4>2. CASE Len(q) # 1
        <5>1. \A n \in Nat : n # 0 /\ n # 1 => ~(n <= 1)
          OBVIOUS
        <5>2. ~(Len(q) <= 1)
          BY <5>1, <4>2, <2>2, <1>12
        <5> QED BY <5>2, <1>11
      <4> QED BY <4>1, <4>2
    <3>7. t \in Seq(Request) /\ Len(t) = Len(q) - 1 /\ \A i \in 1..(Len(q) - 1) : t[i] = q[i + 1]
      BY <3>2, <3>6, PopHead
    <3>8. \A n \in DOMAIN t : t[n].by = r.id
      <4>1. DOMAIN t = 1..(Len(q) - 1)
        BY <3>7, LenProperties
      <4>2. \A n \in 1..(Len(q) - 1) : n + 1 \in 1..Len(q)
        BY <1>12
      <4> QED BY <4>1, <4>2, <3>7, <1>12
    <3>9. q = s \o t
      BY <3>2, <3>3, <3>5, <3>6, HeadFirst
    <3>10. s \in Seq(Request) /\ Len(s) = 1 /\ s[1] = x
      BY <3>5
    <3> QED BY <3>4, <3>5, <3>7, <3>8, <3>9, <3>10
  <2> QED BY <2>1, <2>2
<1>14. fifo' \in Seq(Request)
  BY <1>8, <1>10, <1>13, ConcatProperties
<1>15. \A id : Of(fifo', id) = Of(fifo, id) \o Of(s, id)
  BY <1>8, <1>10, <1>13, OfConcat
<1>16. ASSUME NEW id \in 1..MaxRun, id # run[w].id
       PROVE  UnderWay(carried, fifo', id) = UnderWay(carried, fifo, id)
  <2>1. \A n \in 1..Len(s) : s[n].by # id
    BY <1>1, <1>13, <1>16
  <2>2. Of(s, id) = <<>>
    BY <2>1, <1>13, OfProps
  <2>3. PICK o \in Seq(Request) : o = Of(fifo, id)
    BY <1>8, OfProps
  <2>4. o \o <<>> = o
    BY ConcatEmptySeq
  <2> QED BY <2>2, <2>3, <2>4, <1>15 DEF UnderWay
<1>17. UnderWay(carried, fifo', r.id) = u \o s
  <2>1. Of(s, r.id) = s
    <3>1. CASE s = <<>>
      <4>1. \A n \in 1..Len(<<>>) : <<>>[n].by # r.id
        OBVIOUS
      <4>2. <<>> \in Seq(Request)
        OBVIOUS
      <4>3. Of(<<>>, r.id) = <<>>
        BY <4>1, <4>2, OfProps
      <4> QED BY <3>1, <4>3
    <3>2. CASE s # <<>>
      <4>1. PICK x \in Request : s = <<x>> /\ x.by = r.id
        BY <3>2, <1>13
      <4>2. Of(<<x>>, r.id) = <<x>>
        BY <4>1, OfOne
      <4> QED BY <4>1, <4>2
    <3> QED BY <3>1, <3>2
  <2>2. PICK o \in Seq(Request) : o = Of(fifo, r.id)
    BY <1>8, OfProps
  <2>3. PICK c \in Seq(Request) : c = carried[r.id]
    BY <1>6, <1>8
  <2>4. (c \o o) \o s = c \o (o \o s)
    <3>1. s \in Seq(Request)
      BY <1>13
    <3> QED BY <3>1, JoinedQueues, Zenon
  <2> QED BY <2>1, <2>2, <2>3, <2>4, <1>3, <1>15 DEF UnderWay
<1>18. (u \o s) \o t = u \o r.todo
  <2>1. u \in Seq(Request)
    <3>1. Of(fifo, r.id) \in Seq(Request) /\ carried[r.id] \in Seq(Request)
      BY <1>6, <1>8, OfProps
    <3> QED BY <3>1, <1>3, ConcatProperties DEF UnderWay
  <2>2. s \in Seq(Request) /\ t \in Seq(Request) /\ r.todo = s \o t
    BY <1>7, <1>13
  <2>3. (u \o s) \o t = u \o (s \o t)
    BY <2>1, <2>2, JoinedQueues, Zenon
  <2> QED BY <2>2, <2>3
<1>19. PICK o : o = Pushed(r)
  OBVIOUS
<1>20. run' = [run EXCEPT ![w] = o]
  BY <1>1, <1>19 DEF Push
<1>21. /\ o \in RunRecord /\ o.id = r.id /\ o.scene = r.scene /\ o.delay = r.delay /\ o.slept = r.slept
       /\ o.todo = t
       /\ \/ Len(q) <= 1 /\ o.at = r.at + 1 /\ o.step = "check"
          \/ ~(Len(q) <= 1) /\ o.at = r.at /\ o.step = "push"
  <2>1. CASE Len(q) <= 1
    <3>1. o = [r EXCEPT !.todo = t, !.at = @ + 1, !.step = "check"]
      BY <2>1, <1>7, <1>11, <1>19 DEF Pushed
    <3>2. o \in RunRecord
      <4>1. PICK n \in Nat : n = r.at + 1
        BY <1>6
      <4>2. PICK p \in RunRecord : p = [r EXCEPT !.at = n]
        BY DEF RunRecord
      <4>3. PICK v \in RunRecord : v = [p EXCEPT !.todo = t]
        BY <1>13 DEF RunRecord
      <4>4. [v EXCEPT !.step = "check"] \in RunRecord
        BY DEF RunRecord
      <4>5. o = [v EXCEPT !.step = "check"]
        BY <3>1, <4>1, <4>2, <4>3 DEF RunRecord
      <4> QED BY <4>4, <4>5
    <3>3. /\ o.id = r.id /\ o.scene = r.scene /\ o.delay = r.delay /\ o.slept = r.slept
          /\ o.todo = t /\ o.at = r.at + 1 /\ o.step = "check"
      BY <3>1 DEF RunRecord
    <3> QED BY <2>1, <3>2, <3>3
  <2>2. CASE ~(Len(q) <= 1)
    <3>1. o = [r EXCEPT !.todo = t]
      BY <2>2, <1>7, <1>11, <1>19 DEF Pushed
    <3>2. o \in RunRecord
      BY <3>1, <1>13 DEF RunRecord
    <3>3. /\ o.id = r.id /\ o.scene = r.scene /\ o.delay = r.delay /\ o.slept = r.slept
          /\ o.todo = t /\ o.at = r.at /\ o.step = "push"
      BY <3>1, <1>4 DEF RunRecord
    <3> QED BY <2>2, <3>2, <3>3
  <2> QED BY <2>1, <2>2
<1>22. Course(o, a, u \o s)
  <2>1. (u \o s) \o o.todo = Asked(a, o.scene, o.id)
    BY <1>5, <1>18, <1>21 DEF Course
  <2>2. Slept(o, a)
    BY <1>5, <1>21 DEF Course, Slept
  <2>3. o.step # "push" => o.todo = <<>>
    BY <1>11, <1>21
  <2> QED BY <1>4, <1>5, <1>6, <1>13, <1>21, <2>1, <2>2, <2>3 DEF Course
<1> QED
  <2>1. acted' \in [1..MaxRun -> Seq(Nat)]
    BY <1>0 DEF RunInv, RunTypes
  <2>2. \A id \in 1..MaxRun : id # run[w].id =>
          acted'[id] = acted[id] /\ UnderWay(carried, fifo', id) = UnderWay(carried, fifo, id)
    BY <1>0, <1>16
  <2>3. run[w].step # "idle" /\ o.id = run[w].id
    BY <1>1, <1>4, <1>21
  <2>4. UNCHANGED <<pool, count, carried, online>>
    BY <1>0
  <2>5. acted'[o.id] = a /\ UnderWay(carried, fifo', o.id) = u \o s
    BY <1>0, <1>2, <1>17, <1>21
  <2>6. o.step # "idle" => Course(o, acted'[o.id], UnderWay(carried, fifo', o.id))
    BY <1>22, <2>5
  <2> QED BY <1>14, <1>20, <1>21, <2>1, <2>2, <2>3, <2>4, <2>6, RunStep

(* What the async thread does with a request is none of a run's business,  *)
(* once it has taken it.                                                   *)
LEMMA TakeSteps ==
  ASSUME RunInv,
         \/ TakeUnknown \/ TakeSend \/ TakeMode \/ TakeRefused \/ TakeFrame \/ TakeChannel \/ TakeKey
  PROVE  RunInv'
<1>1. Takes /\ UNCHANGED <<scenes, count, online>>
  <2>1. CASE TakeUnknown
    BY <2>1 DEF TakeUnknown, devices
  <2>2. CASE TakeSend
    BY <2>2 DEF TakeSend, devices
  <2>3. CASE TakeMode
    BY <2>3 DEF TakeMode, devices
  <2>4. CASE TakeRefused
    BY <2>4 DEF TakeRefused, devices
  <2>5. CASE TakeFrame
    BY <2>5 DEF TakeFrame
  <2>6. CASE TakeChannel
    BY <2>6 DEF TakeChannel
  <2>7. CASE TakeKey
    BY <2>7 DEF TakeKey
  <2> QED BY <2>1, <2>2, <2>3, <2>4, <2>5, <2>6, <2>7
<1>2. count' = count /\ online' = online /\ UNCHANGED scenes
  BY <1>1
<1>3. /\ fifo' \in Seq(Request) /\ carried' \in [1..MaxRun -> Seq(Request)]
      /\ \A id \in 1..MaxRun : UnderWay(carried', fifo', id) = UnderWay(carried, fifo, id)
  BY <1>1, TakesPass DEF RunInv
<1>4. count' \in [DOMAIN Bound -> Nat] /\ count'["run"] = count["run"] /\ online' \subseteq Dev
  BY <1>2 DEF RunInv, RunTypes
<1> QED BY <1>2, <1>3, <1>4, Bystanders

(* Steps that leave the runs and the requests alone.                       *)
LEMMA Elsewhere ==
  ASSUME RunInv, UNCHANGED <<scenes, fifo, carried>>,
         count' \in [DOMAIN Bound -> Nat], count'["run"] = count["run"], online' \subseteq Dev
  PROVE  RunInv'
<1>1. fifo' = fifo /\ carried' = carried /\ UNCHANGED scenes
  OBVIOUS
<1>2. fifo' \in Seq(Request) /\ carried' \in [1..MaxRun -> Seq(Request)]
  BY <1>1 DEF RunInv, RunTypes
<1>3. \A id \in 1..MaxRun : UnderWay(carried', fifo', id) = UnderWay(carried, fifo, id)
  BY <1>1
<1> QED BY <1>1, <1>2, <1>3, Bystanders

(* Things that are counted, other than runs.                               *)
LEMMA CountedType ==
  ASSUME RunInv, NEW k \in {"unasked", "lost"}, Counted(k)
  PROVE  count' \in [DOMAIN Bound -> Nat] /\ count'["run"] = count["run"]
<1>1. count' = [count EXCEPT ![k] = @ + 1] /\ count \in [DOMAIN Bound -> Nat]
  BY DEF Counted, RunInv, RunTypes
<1> QED BY <1>1 DEF Bound

LEMMA AsyncRuns ==
  ASSUME RunInv, AsyncThread
  PROVE  RunInv'
<1>0. count \in [DOMAIN Bound -> Nat] /\ online \subseteq Dev
  BY DEF RunInv, RunTypes
<1>1. CASE \/ TakeUnknown \/ TakeSend \/ TakeMode \/ TakeRefused \/ TakeFrame \/ TakeChannel \/ TakeKey
  BY <1>1, TakeSteps
<1>2. CASE AnswerLost
  <2>1. UNCHANGED <<scenes, fifo, carried, online>> /\ Counted("lost")
    BY <1>2 DEF AnswerLost
  <2> QED BY <2>1, <1>0, CountedType, Elsewhere
<1>3. CASE \/ Announce \/ DeviceApplies \/ Refused \/ Answered \/ FrameSent \/ FrameFails
           \/ FrameUnanswered \/ FrameAnswered \/ KeysPressed \/ ChannelSet
  <2>1. UNCHANGED <<scenes, fifo, carried, online, count>>
    BY <1>3 DEF Announce, DeviceApplies, Refused, Answered, FrameSent, FrameFails, FrameUnanswered,
                FrameAnswered, KeysPressed, ChannelSet, devices
  <2> QED BY <2>1, <1>0, Elsewhere
<1> QED BY <1>1, <1>2, <1>3 DEF AsyncThread

(* An event, or a device that is there again, brings requests of linkages. *)
LEMMA LinkageStep ==
  ASSUME RunInv, NEW there \in SUBSET Dev, NEW d, NEW e,
         fifo' = fifo \o Triggered(there, d, e), UNCHANGED <<scenes, carried, count>>, online' \subseteq Dev
  PROVE  RunInv'
<1>1. /\ fifo \in Seq(Request) /\ carried \in [1..MaxRun -> Seq(Request)]
      /\ carried' = carried /\ count' = count /\ UNCHANGED scenes
  BY DEF RunInv, RunTypes
<1>2. /\ fifo' \in Seq(Request)
      /\ \A id \in 1..MaxRun : UnderWay(carried, fifo', id) = UnderWay(carried, fifo, id)
  <2>1. PICK t \in Seq(Request) : t = Triggered(there, d, e) /\ \A i \in 1..Len(t) : t[i].by = 0
    BY LinksAsk
  <2>2. fifo' = fifo \o t
    BY <2>1
  <2>3. PICK f \in Seq(Request), c \in [1..MaxRun -> Seq(Request)] : f = fifo /\ c = carried
    BY <1>1
  <2>4. f \o t \in Seq(Request)
    BY ConcatProperties
  <2>5. \A id \in 1..MaxRun : UnderWay(c, f \o t, id) = UnderWay(c, f, id)
    BY <2>1, LinksPass
  <2> QED BY <2>2, <2>3, <2>4, <2>5
<1>3. /\ count' \in [DOMAIN Bound -> Nat] /\ count'["run"] = count["run"]
      /\ carried' \in [1..MaxRun -> Seq(Request)]
  BY <1>1 DEF RunInv, RunTypes
<1>4. \A id \in 1..MaxRun : UnderWay(carried', fifo', id) = UnderWay(carried, fifo, id)
  BY <1>1, <1>2
<1> QED BY <1>1, <1>2, <1>3, <1>4, Bystanders

LEMMA MonitorRuns ==
  ASSUME RunInv, Monitor
  PROVE  RunInv'
<1>0. count \in [DOMAIN Bound -> Nat] /\ online \in SUBSET Dev
  BY DEF RunInv, RunTypes
<1>1. CASE SensorEvent
  <2>1. PICK d, e : d = Head(packets).dev /\ e = Head(packets).event
    OBVIOUS
  <2>2. PICK there \in SUBSET Dev : there = online
    BY <1>0
  <2>3. /\ fifo' = fifo \o Triggered(there, d, e) /\ UNCHANGED <<scenes, carried, count>>
        /\ online' \subseteq Dev
    BY <1>1, <2>1, <2>2 DEF SensorEvent
  <2> QED BY <2>3, LinkageStep
<1>2. CASE PacketLost
  <2>1. UNCHANGED <<scenes, fifo, carried, online>>
    BY <1>2 DEF PacketLost, requests
  <2>2. count' = [count EXCEPT !["lost"] = @ + 1] \/ count' = count
    BY <1>2 DEF PacketLost
  <2>3. count' \in [DOMAIN Bound -> Nat] /\ count'["run"] = count["run"]
    <3>1. CASE count' = [count EXCEPT !["lost"] = @ + 1]
      BY <3>1, <1>0 DEF Bound
    <3> QED BY <2>2, <3>1, <1>0
  <2> QED BY <2>1, <2>3, <1>0, Elsewhere
<1>3. CASE StatusChanged \/ ModeKey \/ MonitorAnnounce
  <2>1. UNCHANGED <<scenes, fifo, carried, online, count>>
    BY <1>3 DEF StatusChanged, ModeKey, MonitorAnnounce, requests, devices
  <2> QED BY <2>1, <1>0, Elsewhere
<1> QED BY <1>1, <1>2, <1>3 DEF Monitor

LEMMA DeviceRuns ==
  ASSUME RunInv,
         \/ \E k \in Key : \E v \in Value[k] : ByHand(k, v) \/ ByHandUnseen(k, v)
         \/ \E d \in Wifi : \/ \E e \in Event : Reports(d, e)
                           \/ \E m \in Mode : PressMode(d, m)
                           \/ GoOffline(d) \/ ComeOnline(d)
  PROVE  RunInv'
<1>0. count \in [DOMAIN Bound -> Nat] /\ online \in SUBSET Dev
  BY DEF RunInv, RunTypes
<1>1. CASE \E d \in Wifi : ComeOnline(d)
  <2>1. PICK d \in Wifi : ComeOnline(d)
    BY <1>1
  <2>2. PICK there \in SUBSET Dev : there = online \cup {d}
    BY <1>0 DEF Wifi
  <2>3. online' = there /\ UNCHANGED <<scenes, carried, count>>
    BY <2>1, <2>2 DEF ComeOnline
  <2>4. fifo' = fifo \o Triggered(online', d, "online")
    BY <2>1 DEF ComeOnline
  <2>5. fifo' = fifo \o Triggered(there, d, "online")
    BY <2>3, <2>4
  <2> QED BY <2>3, <2>5, LinkageStep
<1>2. CASE ~\E d \in Wifi : ComeOnline(d)
  <2>1. UNCHANGED <<scenes, fifo, carried>> /\ Counted("unasked") /\ online' \subseteq online
    BY <1>2 DEF ByHand, ByHandUnseen, Reports, PressMode, GoOffline, requests
  <2> QED BY <2>1, <1>0, CountedType, Elsewhere
<1> QED BY <1>1, <1>2

LEMMA RunsKept ==
  ASSUME RunInv, [Next]_vars
  PROVE  RunInv'
<1>1. CASE \E s \in Scene : EnterScene(s)
  BY <1>1, EnterSceneStep
<1>2. CASE \E w \in Worker : Scenes(w)
  BY <1>2, StartStep, CheckStep, SleepStep, PushStep, EndSceneStep DEF Scenes
<1>3. CASE AsyncThread
  BY <1>3, AsyncRuns
<1>4. CASE Monitor
  BY <1>4, MonitorRuns
<1>5. CASE \/ \E k \in Key : \E v \in Value[k] : ByHand(k, v) \/ ByHandUnseen(k, v)
           \/ \E d \in Wifi : \/ \E e \in Event : Reports(d, e)
                             \/ \E m \in Mode : PressMode(d, m)
                             \/ GoOffline(d) \/ ComeOnline(d)
  BY <1>5, DeviceRuns
<1>6. CASE UNCHANGED vars
  <2>1. UNCHANGED <<scenes, fifo, carried, count, online>>
    BY <1>6 DEF vars, requests, devices
  <2>2. count' \in [DOMAIN Bound -> Nat] /\ online' \subseteq Dev
    BY <2>1 DEF RunInv, RunTypes
  <2> QED BY <2>1, <2>2, Elsewhere
<1> QED BY <1>1, <1>2, <1>3, <1>4, <1>5, <1>6 DEF Next

LEMMA InitRuns == Init => RunInv
<1> SUFFICES ASSUME Init PROVE RunInv
  OBVIOUS
<1>1. /\ pool = <<>> /\ fifo = <<>> /\ online = Dev
      /\ acted = [r \in 1..MaxRun |-> <<>>] /\ carried = [r \in 1..MaxRun |-> <<>>]
      /\ \A w \in Worker : run[w] = Idle
      /\ run = [w \in Worker |-> Idle] /\ count = [k \in DOMAIN Bound |-> 0]
  BY DEF Init
<1>2. Idle \in RunRecord /\ Idle.step = "idle"
  <2>1. <<>> \in Seq(Request)
    OBVIOUS
  <2> QED BY <2>1, AutomationAssumption DEF Idle, RunRecord
<1>3. <<>> \in Seq(Request) /\ <<>> \in Seq(Nat) /\ <<>> \in Seq([id : 1..MaxRun, scene : Scene])
  OBVIOUS
<1>4. count["run"] = 0 /\ MaxRun \in Nat
  BY <1>1, AutomationAssumption DEF Bound
<1>5. RunTypes
  BY <1>1, <1>2, <1>3, <1>4 DEF RunTypes
<1>6. RunsApart /\ RunsGoOn
  BY <1>1, <1>2 DEF RunsApart, RunsGoOn
<1>7. NothingYet
  <2>1. \A id : Of(<<>>, id) = <<>>
    <3> SUFFICES ASSUME NEW id PROVE Of(<<>>, id) = <<>>
      OBVIOUS
    <3> QED BY SiftEmpty DEF Of
  <2>2. <<>> \o <<>> = <<>>
    BY <1>3, ConcatEmptySeq
  <2> QED BY <1>1, <2>1, <2>2 DEF NothingYet, UnderWay
<1> QED BY <1>5, <1>6, <1>7 DEF RunInv

LEMMA AsWritten == RunInv => RunsAsWritten
<1> SUFFICES ASSUME RunInv, NEW w \in Worker
             PROVE  /\ run[w].step # "idle" => RequestsInOrder(run[w])
                    /\ run[w].step = "push" => DelaysAddUp(run[w])
  BY DEF RunsAsWritten
<1>1. CASE run[w].step # "idle"
  <2>1. PICK r \in RunRecord : r = run[w]
    BY DEF RunInv, RunTypes
  <2>2. PICK a : a = acted[r.id]
    OBVIOUS
  <2>3. Course(r, a, UnderWay(carried, fifo, r.id))
    BY <1>1, <2>1, <2>2 DEF RunInv, RunsGoOn
  <2>4. r.id \in 1..MaxRun
    <3>1. count["run"] \in Nat /\ count["run"] <= MaxRun /\ MaxRun \in Nat
      BY AutomationAssumption DEF RunInv, RunTypes, Bound
    <3>2. r.id \in 1..count["run"]
      BY <1>1, <2>1 DEF RunInv, RunsApart
    <3> QED BY <3>1, <3>2
  <2>5. RequestsInOrder(r)
    <3>1. UnderWay(carried, fifo, r.id) \o r.todo = Asked(a, r.scene, r.id)
      BY <2>3 DEF Course
    <3> QED BY <3>1, <2>2 DEF UnderWay, Asked, RequestsInOrder
  <2>6. ASSUME r.step = "push" PROVE DelaysAddUp(r)
    <3>1. /\ a # <<>> /\ r.slept = r.delay
          /\ \A n \in DOMAIN a : Actions[r.scene][a[n]].delay <= r.delay
          /\ r.delay = 0 \/ \E n \in DOMAIN a : Actions[r.scene][a[n]].delay = r.delay
          /\ r.scene \in Scene /\ \A n \in DOMAIN a : a[n] \in DOMAIN Actions[r.scene]
      BY <2>3, <2>6 DEF Course, Slept
    <3>2. \E n \in DOMAIN a : Actions[r.scene][a[n]].delay = r.delay
      <4>1. CASE r.delay = 0
        <5>1. a \in Seq(Nat)
          BY <2>2, <2>4 DEF RunInv, RunTypes
        <5>2. 1 \in DOMAIN a
          BY <3>1, <5>1, PopHead, LenProperties
        <5>3. Actions[r.scene][a[1]].delay \in Nat /\ Actions[r.scene][a[1]].delay <= 0
          BY <3>1, <4>1, <5>2, SceneLists
        <5> QED BY <4>1, <5>2, <5>3
      <4> QED BY <3>1, <4>1
    <3> QED BY <3>1, <3>2, <2>2 DEF DelaysAddUp
  <2> QED BY <2>1, <2>5, <2>6
<1> QED BY <1>1

(* Scenes do what they say, however runs, linkages and devices interleave: *)
(* what the async thread has taken of a run, what waits in the FIFO and    *)
(* what the run has still to push is what the actions it executed ask for, *)
(* each once and in order; and it sleeps as long as the longest delay of   *)
(* these, whatever it skipped in between (scene_handler,                   *)
(* execute_action).                                                        *)
THEOREM ScenesRunAsWritten == Spec => []RunsAsWritten
<1>1. Init => RunInv
  BY InitRuns
<1>2. RunInv /\ [Next]_vars => RunInv'
  BY RunsKept
<1>3. RunInv => RunsAsWritten
  BY AsWritten
<1> QED BY <1>1, <1>2, <1>3, PTL DEF Spec
=============================================================================
