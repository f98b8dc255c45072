--------------------------- MODULE DeviceRegistry ---------------------------
(***************************************************************************)
(* The device registry of core_daemon (device.c): the queue of online      *)
(* devices, the queue of known but offline ones (offq), the id counter,    *)
(* the infrared links between devices and the XML file they are saved in.  *)
(*                                                                         *)
(* Every handler (dev_online, dev_offline, dev_removed, dev_recovered,     *)
(* set_dev_cfg, load_config, one round of recover_dev) is one action. The  *)
(* network is up before the devices are loaded: a client's command may     *)
(* save the configuration before load_config, and in the middle of it.     *)
(* The daemon may die between two of them, while save_config writes the    *)
(* file, or inside dev_online after the new device was announced and       *)
(* before it was saved; it then starts again from the file.                *)
(***************************************************************************)
EXTENDS Integers, Sequences, FiniteSets, SequencesExt

CONSTANTS
  Wifi,        \* MACs of the devices the virtual-switch driver discovers
  Zigbee,      \* MACs of the devices the Zigbee driver discovers
  Remote,      \* those whose dev_type is HSB_DEV_TYPE_REMOTE_CTL
  ZeroMac,     \* the all-zero MAC that every infrared device has
  Appliance,   \* the infrared appliances clients may add
  Location,    \* the non-empty locations a client may configure
  Unknown,     \* the location of default_config, "unknown"
  NoLoc,       \* the empty location
  MaxId,       \* bound: ids the counter may hand out
  MaxRestart   \* bound: how often the daemon may die

ASSUME RegistryAssumption ==
  /\ MaxId \in Nat /\ MaxRestart \in Nat
  /\ Remote \subseteq Wifi \cup Zigbee
  /\ Wifi \cap Zigbee = {}
  /\ ZeroMac \notin Wifi \cup Zigbee
  /\ Appliance \cap (Wifi \cup Zigbee) = {}
  /\ Unknown \in Location
  /\ NoLoc \notin Location

VARIABLES
  queue,       \* gl_dev_cb.queue: ids of the online devices, oldest first
  offq,        \* gl_dev_cb.offq: ids of the known devices that are offline
  dev,         \* the HSB_DEV_T of each id; Blank when there is none
  dev_id,      \* gl_dev_cb.dev_id: the next id to hand out
  drivers,     \* gl_dev_cb.driverq: ids of the registered drivers
  boot,        \* where init_dev_module is
  rid,         \* recover_dev's local id: its position in offq
  file,        \* the devices in the configuration file, in file order
  restarts,    \* how often the daemon has died
  owner,       \* history: the device an id was announced for; NULL when that
               \* was deleted, or lost with the file
  behind,      \* history: a save in the middle of the load left out devices
  shifted      \* history: a device left offq while recover_dev scanned it

registry == <<queue, offq, dev, dev_id>>
vars == <<queue, offq, dev, dev_id, drivers, boot, rid, file, restarts,
          owner, behind, shifted>>

Id == 1..MaxId
NULL == 0

(* HSB_DRV_ID_CJ_WIFI, HSB_DRV_ID_CJ_ZIGBEE and HSB_DRV_ID_IR. *)
VsDrv == 1
CzDrv == 2
IrDrv == 3

DrvOf(m) == IF m \in Wifi THEN VsDrv ELSE IF m \in Zigbee THEN CzDrv ELSE IrDrv
TypeOf(m) == IF m \in Remote THEN "remote" ELSE IF m = ZeroMac THEN "ir" ELSE "other"

Mac == Wifi \cup Zigbee \cup {ZeroMac}

(* What a device really is: the code knows the appliances by no name.      *)
Owner == Wifi \cup Zigbee \cup Appliance
MacOf(w) == IF w \in Appliance THEN ZeroMac ELSE w

(* Appliances that nobody has added are alike: the next one is any of them. *)
Added == {owner[d] : d \in Id}
Nameable(a) ==
  \/ a \in Added
  \/ a \notin Added /\ a = CHOOSE x \in Appliance \ Added : TRUE

(* Nobody may rely on the ids of S any longer. *)
Forgotten(S) == [d \in Id |-> IF d \in S THEN NULL ELSE owner[d]]

(* An unused id has no device. *)
Blank == [mac |-> ZeroMac, loc |-> NoLoc, state |-> "offline", ir_dev |-> NULL]

Device == [mac : Mac, loc : Location \cup {NoLoc},
           state : {"online", "offline"}, ir_dev : Id \cup {NULL}]

(* What make_dev_node writes of a device; its driver id and type are those *)
(* of its MAC.                                                             *)
Record == [id : Id, mac : Mac, loc : Location \cup {NoLoc}]

-----------------------------------------------------------------------------
(* Queues. *)

(* The position of the first element of q that is in S. *)
FirstAt(q, S) ==
  CHOOSE i \in DOMAIN q : q[i] \in S /\ \A j \in 1..(i - 1) : q[j] \notin S

(* Faulty: offline devices are not written. *)
SavedOnlineOnly(D, q, o) ==
  [i \in DOMAIN q |-> [id |-> q[i], mac |-> D[q[i]].mac, loc |-> D[q[i]].loc]]

(* The file save_config writes: the online devices, then the offline ones. *)
Saved(D, q, o) ==
  LET ids == q \o o
  IN [i \in DOMAIN ids |-> [id  |-> ids[i],
                            mac |-> D[ids[i]].mac,
                            loc |-> D[ids[i]].loc]]

-----------------------------------------------------------------------------
(* Infrared links. *)

SameRoom(D, a, b) == D[a].loc # NoLoc /\ D[a].loc = D[b].loc

(* The online remote controls that share a room with device d. *)
RemotesFor(D, q, d) ==
  {r \in ToSet(q) : r # d /\ SameRoom(D, d, r) /\ TypeOf(D[r].mac) = "remote"}

(* link_device: an infrared device takes the first online remote of its    *)
(* room, or none; other devices are left alone.                            *)
LinkDevice(D, q, d) ==
  IF DrvOf(D[d].mac) # IrDrv THEN D
  ELSE LET rs == RemotesFor(D, q, d)
       IN [D EXCEPT ![d].ir_dev = IF rs = {} THEN NULL ELSE q[FirstAt(q, rs)]]

(* Faulty: an offline remote stays the remote of the devices that used it. *)
UpdateLinkKeepsOffline(D, q, p) ==
  IF TypeOf(D[p].mac) # "remote" \/ D[p].state = "offline" THEN D
  ELSE [x \in Id |->
          IF x \in ToSet(q) /\ x # p /\ SameRoom(D, p, x)
          THEN [D[x] EXCEPT !.ir_dev = p] ELSE D[x]]

(* Faulty: no other remote is looked for when one goes offline. *)
UpdateLinkForgets(D, q, p) ==
  IF TypeOf(D[p].mac) # "remote" THEN D
  ELSE [x \in Id |->
          IF x \notin ToSet(q) \/ x = p THEN D[x]
          ELSE IF D[p].state = "online"
               THEN IF SameRoom(D, p, x) THEN [D[x] EXCEPT !.ir_dev = p] ELSE D[x]
               ELSE IF D[x].ir_dev = p THEN [D[x] EXCEPT !.ir_dev = NULL] ELSE D[x]]

(* update_link: a remote that went offline is replaced in the devices that *)
(* used it; one that is online becomes the remote of its whole room.       *)
UpdateLink(D, q, p) ==
  IF TypeOf(D[p].mac) # "remote" THEN D
  ELSE [x \in Id |->
          IF x \notin ToSet(q) \/ x = p THEN D[x]
          ELSE IF D[p].state = "online"
               THEN IF SameRoom(D, p, x) THEN [D[x] EXCEPT !.ir_dev = p] ELSE D[x]
               ELSE IF D[x].ir_dev = p
                    THEN LinkDevice([D EXCEPT ![x].ir_dev = NULL], q, x)[x]
                    ELSE D[x]]

-----------------------------------------------------------------------------
Init ==
  /\ queue = <<>> /\ offq = <<>>
  /\ dev = [d \in Id |-> Blank]
  /\ dev_id = 1
  /\ drivers = {}
  /\ boot = "load"
  /\ rid = 0
  /\ file = <<>>
  /\ restarts = 0
  /\ owner = [d \in Id |-> NULL]
  /\ behind = FALSE
  /\ shifted = FALSE

-----------------------------------------------------------------------------
(* Starting: init_dev_module. *)

(* Faulty: the counter stops at the largest id that was read. *)
NextFreeIsLargest(ids, n) ==
  /\ n = 1 \/ n \in ids
  /\ \A d \in ids : d <= n

(* n is load_config's max_devid after it has read devices with these ids. *)
NextFree(ids, n) ==
  /\ n = 1 \/ n - 1 \in ids
  /\ \A d \in ids : d < n

(* load_config with parse_dev: every record becomes an offline device,     *)
(* except those with an empty location, whose empty XML element makes      *)
(* parse_dev fail. The counter goes past the largest id that was read.     *)
(* Meanwhile the configuration may be saved, with the k devices read so    *)
(* far: by add_scene when a scene is read, behind all devices, and by the  *)
(* handlers of SET_SCENE and DEL_SCENE, at any time.                       *)
LoadConfig ==
  /\ boot = "load"
  /\ LET kept == {i \in DOMAIN file : file[i].loc # NoLoc}
         ids  == {file[i].id : i \in kept}
     IN \E order \in [1..Cardinality(kept) -> kept], n \in 1..(MaxId + 1) :
          /\ \A i, j \in DOMAIN order : i < j => order[i] < order[j]
          /\ NextFree(ids, n)
          /\ offq' = [i \in DOMAIN order |-> file[order[i]].id]
          /\ dev' = [d \in Id |->
                       IF d \in ids
                       THEN LET r == file[CHOOSE i \in kept : file[i].id = d]
                            IN [mac |-> r.mac, loc |-> r.loc,
                                state |-> "offline", ir_dev |-> NULL]
                       ELSE Blank]
          /\ dev_id' = n
          /\ owner' = Forgotten({file[i].id : i \in DOMAIN file} \ ids)
          /\ \/ UNCHANGED <<file, behind>>
             \/ \E k \in 0..Len(offq') :
                  /\ file' = Saved(dev', <<>>, SubSeq(offq', 1, k))
                  /\ behind' = (k < Len(offq'))
  /\ boot' = "drivers"
  /\ UNCHANGED <<queue, drivers, rid, restarts, shifted>>

(* init_virtual_switch_drv, init_cz_drv and init_ir_drv, one after the     *)
(* other: the Zigbee driver registers only if its UART is there.           *)
InitDrivers ==
  /\ boot = "drivers"
  /\ \/ drivers = {} /\ drivers' = {VsDrv} /\ UNCHANGED boot
     \/ drivers = {VsDrv} /\ drivers' = {VsDrv, CzDrv} /\ UNCHANGED boot
     \/ drivers # {} /\ drivers' = drivers \cup {IrDrv} /\ boot' = "recover"
  /\ rid' = 0
  /\ shifted' = FALSE
  /\ UNCHANGED <<registry, file, restarts, owner, behind>>

(* A device joins the online queue and the links are brought up to date:   *)
(* the common tail of dev_online and dev_recovered.                        *)
Join(d, D, q) ==
  /\ queue' = Append(q, d)
  /\ dev' = LET L == LinkDevice(D, Append(q, d), d)
            IN UpdateLink(L, Append(q, d), d)

(* Faulty: the position moves on after a device was taken out, too. *)
RecoverStepSkips ==
  /\ boot = "recover" /\ rid < Len(offq)
  /\ LET d == offq[rid + 1]
     IN /\ DrvOf(dev[d].mac) \in drivers
        /\ rid' = rid + 1
        /\ IF DrvOf(dev[d].mac) = IrDrv
           THEN /\ offq' = RemoveAt(offq, rid + 1)
                /\ Join(d, [dev EXCEPT ![d].state = "online"], queue)
           ELSE UNCHANGED <<queue, offq, dev>>
  /\ UNCHANGED <<dev_id, drivers, boot, file, restarts, owner, behind, shifted>>

(* Faulty: a device that cannot be recovered is tried again for ever. *)
RecoverStepRetries ==
  /\ boot = "recover" /\ rid < Len(offq)
  /\ LET d == offq[rid + 1]
     IN /\ DrvOf(dev[d].mac) = IrDrv
        /\ offq' = RemoveAt(offq, rid + 1)
        /\ Join(d, [dev EXCEPT ![d].state = "online"], queue)
  /\ UNCHANGED <<dev_id, drivers, boot, rid, file, restarts, owner, behind, shifted>>

(* ir_recover_dev, which knows both types of appliance, and dev_recovered: *)
(* the device at place i of offq is online again.                          *)
Recovered(i) ==
  /\ offq' = RemoveAt(offq, i)
  /\ Join(offq[i], [dev EXCEPT ![offq[i]].state = "online"], queue)

(* One round of recover_dev's loop. Infrared devices are recovered; the    *)
(* other drivers have no recover_dev and their devices are skipped.        *)
RecoverStep ==
  /\ boot = "recover"
  /\ rid < Len(offq)
  /\ LET d == offq[rid + 1]
     IN /\ DrvOf(dev[d].mac) \in drivers
        /\ \/ DrvOf(dev[d].mac) = IrDrv /\ Recovered(rid + 1) /\ UNCHANGED rid
           \/ /\ DrvOf(dev[d].mac) # IrDrv
              /\ rid' = rid + 1
              /\ UNCHANGED <<queue, offq, dev>>
  /\ UNCHANGED <<dev_id, drivers, boot, file, restarts, owner, behind, shifted>>

(* recover_dev's loop is waiting for a driver that is not registered. *)
Stuck ==
  /\ boot = "recover" /\ rid < Len(offq)
  /\ DrvOf(dev[offq[rid + 1]].mac) \notin drivers

(* The round that finds no driver: it logs and starts again at the same id. *)
RecoverSpin == Stuck /\ UNCHANGED vars

(* The loop ends and the daemon probes for devices. *)
RecoverDone ==
  /\ boot = "recover"
  /\ rid >= Len(offq)
  /\ boot' = "up"
  /\ UNCHANGED <<registry, drivers, rid, file, restarts, owner, behind, shifted>>

-----------------------------------------------------------------------------
(* Running. *)

(* The offline devices dev_online takes for the one with MAC m. *)
Offline(m) == {d \in ToSet(offq) : dev[d].mac = m}

IsOnline(m) == \E d \in ToSet(queue) : dev[d].mac = m

(* Faulty: a new device is not saved. *)
NewDeviceUnsaved(w, loc) ==
  /\ Offline(MacOf(w)) = {} /\ dev_id <= MaxId
  /\ dev_id' = dev_id + 1
  /\ Join(dev_id, [dev EXCEPT ![dev_id] = [mac |-> MacOf(w), loc |-> loc,
                                           state |-> "online", ir_dev |-> NULL]],
          queue)
  /\ owner' = [owner EXCEPT ![dev_id] = w]
  /\ UNCHANGED <<offq, drivers, boot, rid, file, restarts, behind, shifted>>

(* dev_online for a device that is not in offq: a new id, the given        *)
(* location, a NEW_ADD event and save_config.                              *)
NewDevice(w, loc) ==
  /\ Offline(MacOf(w)) = {}
  /\ dev_id <= MaxId
  /\ dev_id' = dev_id + 1
  /\ Join(dev_id, [dev EXCEPT ![dev_id] = [mac |-> MacOf(w), loc |-> loc,
                                           state |-> "online", ir_dev |-> NULL]],
          queue)
  /\ file' = Saved(dev', queue', offq) /\ behind' = FALSE
  /\ owner' = [owner EXCEPT ![dev_id] = w]
  /\ UNCHANGED <<offq, drivers, boot, rid, restarts, shifted>>

(* dev_online for a device in offq: it keeps the id and configuration of   *)
(* the first one there with its MAC. Nothing is saved.                     *)
Return(w) ==
  /\ Offline(MacOf(w)) # {}
  /\ LET i == FirstAt(offq, Offline(MacOf(w)))
     IN /\ offq' = RemoveAt(offq, i)
        /\ Join(offq[i], [dev EXCEPT ![offq[i]].state = "online"], queue)
        /\ owner' = [owner EXCEPT ![offq[i]] = w]
  /\ shifted' = (shifted \/ boot = "recover")
  /\ UNCHANGED <<dev_id, drivers, boot, rid, file, restarts, behind>>

(* _register_device of the two radio drivers, on a discovery response of a *)
(* device the driver does not know as online.                              *)
Register(m) ==
  /\ m \in Wifi \cup Zigbee
  /\ DrvOf(m) \in drivers
  /\ ~IsOnline(m)
  /\ NewDevice(m, Unknown) \/ Return(m)

(* HSB_CMD_ADD_DEV for the infrared driver: ir_add_dev, dev_online. *)
AddIr(a, loc) ==
  /\ IrDrv \in drivers /\ Nameable(a)
  /\ NewDevice(a, loc) \/ Return(a)

(* dev_offline, when a radio driver has not heard from a device in time. *)
DevOffline(m) ==
  /\ m \in Wifi \cup Zigbee
  /\ IsOnline(m)
  /\ LET i == FirstAt(queue, {d \in ToSet(queue) : dev[d].mac = m})
         d == queue[i]
         q == RemoveAt(queue, i)
     IN /\ queue' = q
        /\ offq' = Append(offq, d)
        /\ dev' = UpdateLink([dev EXCEPT ![d].state = "offline"], q, d)
  /\ UNCHANGED <<dev_id, drivers, boot, rid, file, restarts, owner, behind, shifted>>

(* HSB_CMD_DEL_DEV: del_dev, ir_del_dev, dev_removed. Only the infrared    *)
(* driver deletes devices. Nothing is saved.                               *)
DevRemoved(d) ==
  /\ d \in ToSet(queue)
  /\ DrvOf(dev[d].mac) = IrDrv
  /\ LET q == RemoveAt(queue, FirstAt(queue, {d}))
     IN /\ queue' = q
        /\ dev' = [UpdateLink([dev EXCEPT ![d].state = "offline"], q, d)
                     EXCEPT ![d] = Blank]
  /\ owner' = Forgotten({d})
  /\ UNCHANGED <<offq, dev_id, drivers, boot, rid, file, restarts, behind, shifted>>

(* HSB_CMD_SET_CONFIG: set_dev_cfg. *)
SetDevCfg(d, loc) ==
  /\ d \in ToSet(queue)
  /\ LET D == LinkDevice([dev EXCEPT ![d].loc = loc], queue, d)
     IN dev' = UpdateLink(D, queue, d)
  /\ file' = Saved(dev', queue, offq) /\ behind' = FALSE
  /\ UNCHANGED <<queue, offq, dev_id, drivers, boot, rid, restarts, owner, shifted>>

(* A command that saves the configuration and needs no device: SET_SCENE,  *)
(* DEL_SCENE. Before the load it writes an empty registry over the file.   *)
SetScene ==
  /\ file' = Saved(dev, queue, offq) /\ behind' = FALSE
  /\ owner' = Forgotten(IF boot = "load" THEN Id ELSE {})
  /\ UNCHANGED <<registry, drivers, boot, rid, restarts, shifted>>

-----------------------------------------------------------------------------
(* Dying. *)

(* The process starts again with nothing but the file f. *)
Restart(f) ==
  /\ restarts < MaxRestart
  /\ restarts' = restarts + 1
  /\ queue' = <<>> /\ offq' = <<>>
  /\ dev' = [d \in Id |-> Blank]
  /\ dev_id' = 1
  /\ drivers' = {}
  /\ boot' = "load"
  /\ rid' = 0
  /\ behind' = FALSE /\ shifted' = FALSE
  /\ file' = f

(* The devices a save in the middle of the load left out. *)
LeftOut ==
  IF behind THEN (ToSet(queue) \cup ToSet(offq)) \ {file[i].id : i \in DOMAIN file} ELSE {}

(* A file that is cut short cannot be parsed: load_config returns without  *)
(* a device, as from an empty one.                                         *)
Unreadable == <<>>

(* The process dies outside save_config. *)
Crash == Restart(file) /\ owner' = Forgotten(LeftOut)

(* The process dies while save_config, for a new configuration, timer,     *)
(* channel or scene, writes the file over the old one.                     *)
CrashSaving ==
  /\ Restart(Unreadable)
  /\ owner' = Forgotten(Id)

(* The process dies in dev_online after dev_updated announced the new      *)
(* device to the clients and before save_config has written it, or while   *)
(* it does. Nobody may rely on the new id, unless another has it already.  *)
CrashUnsaved(w) ==
  /\ DrvOf(MacOf(w)) \in drivers
  /\ w \notin Appliance => ~IsOnline(w)
  /\ Offline(MacOf(w)) = {}
  /\ dev_id <= MaxId
  /\ \/ /\ Restart(file)
        /\ owner' = [Forgotten(LeftOut) EXCEPT ![dev_id] = IF @ = NULL THEN NULL ELSE w]
     \/ Restart(Unreadable) /\ owner' = Forgotten(Id)

-----------------------------------------------------------------------------
Next ==
  \/ LoadConfig
  \/ InitDrivers
  \/ RecoverStep
  \/ RecoverSpin
  \/ RecoverDone
  \/ \E m \in Wifi \cup Zigbee : Register(m)
  \/ \E a \in Appliance, loc \in Location \cup {NoLoc} : AddIr(a, loc)
  \/ \E m \in Wifi \cup Zigbee : DevOffline(m)
  \/ \E d \in Id : DevRemoved(d)
  \/ \E d \in Id, loc \in Location \cup {NoLoc} : SetDevCfg(d, loc)
  \/ SetScene
  \/ Crash
  \/ CrashSaving
  \/ \E w \in Owner : CrashUnsaved(w)

Spec == Init /\ [][Next]_vars

(* The main thread keeps running: recover_dev's loop makes its next round. *)
FairSpec == Spec /\ WF_vars(RecoverStep \/ RecoverDone)

-----------------------------------------------------------------------------
(* Properties. *)

(* Every variable has its type. *)
TypeOK ==
  /\ queue \in Seq(Id) /\ offq \in Seq(Id)
  /\ dev \in [Id -> Device]
  /\ dev_id \in 1..(MaxId + 1)
  /\ drivers \in SUBSET {VsDrv, CzDrv, IrDrv}
  /\ boot \in {"load", "drivers", "recover", "up"}
  /\ rid \in Nat
  /\ file \in Seq(Record)
  /\ restarts \in 0..MaxRestart
  /\ owner \in [Id -> Owner \cup {NULL}]
  /\ behind \in BOOLEAN /\ shifted \in BOOLEAN

(* No two devices of the registry share an id, and every id in use is      *)
(* below the counter, so the next device gets an unused one: across        *)
(* dev_online's two branches, dev_recovered, deletions and reloads.        *)
UniqueIds ==
  /\ IsInjective(queue) /\ IsInjective(offq)
  /\ ToSet(queue) \cap ToSet(offq) = {}
  /\ boot # "load" => \A d \in ToSet(queue) \cup ToSet(offq) : d < dev_id

(* No two records of the file have one id: a reload never merges devices. *)
FileIdsUnique == \A i, j \in DOMAIN file : file[i].id = file[j].id => i = j

(* The queue a device is in and its state flag agree (update_link decides  *)
(* by the flag, link_device by the queue).                                 *)
StateMatchesQueue ==
  /\ \A d \in ToSet(queue) : dev[d].state = "online"
  /\ \A d \in ToSet(offq) : dev[d].state = "offline"

(* The remote an online infrared device sends through (gree_set_status     *)
(* calls set_action on it) is another device that is online, and is a      *)
(* remote control.                                                         *)
LinkSound ==
  \A d \in ToSet(queue) :
    DrvOf(dev[d].mac) = IrDrv /\ dev[d].ir_dev # NULL =>
      /\ dev[d].ir_dev \in ToSet(queue)
      /\ TypeOf(dev[dev[d].ir_dev].mac) = "remote"

(* An online infrared device that shares its room with an online remote    *)
(* has a remote: no order of joining, leaving and moving leaves it with    *)
(* none.                                                                   *)
LinkComplete ==
  \A d \in ToSet(queue) :
    DrvOf(dev[d].mac) = IrDrv /\ RemotesFor(dev, queue, d) # {} =>
      dev[d].ir_dev # NULL

(* Outside a load, the file describes every device of the registry with    *)
(* the configuration it has: what a client was told is in the file, though *)
(* dev_offline, dev_recovered and the return of a device save nothing. But *)
(* a save of a client's command in the middle of the load leaves devices   *)
(* out, until the next one.                                                *)
FileCurrent ==
  boot # "load" /\ ~behind =>
    \A d \in ToSet(queue) \cup ToSet(offq) :
      \E i \in DOMAIN file :
        file[i] = [id |-> d, mac |-> dev[d].mac, loc |-> dev[d].loc]

(* An infrared device that waits in offq for recover_dev. *)
Waits(d) == d \in ToSet(offq) /\ dev[d].mac = ZeroMac

(* An id a client has seen (scenes, timers and linkages refer to devices   *)
(* by id) is not given to another device, over restarts too, unless its    *)
(* device was deleted, could not be read back, or was never saved, or the  *)
(* file was lost: cut short by a death in save_config, or written before   *)
(* or in the middle of the load. Nor is it given to another appliance,     *)
(* unless that is added while the first one waits for recover_dev: all     *)
(* infrared devices have one MAC.                                          *)
IdKeepsOwner ==
  [][\A d \in Id : owner[d] # NULL /\ owner'[d] \notin {owner[d], NULL} => Waits(d)]_vars

(* Once start-up is over no infrared device is left in offq, unless        *)
(* another device was taken out of offq while recover_dev was walking it   *)
(* by position.                                                            *)
AllRecovered ==
  boot = "up" /\ ~shifted => Offline(ZeroMac) = {}

(* recover_dev ends, whatever comes and goes meanwhile, or it spins on a   *)
(* device whose driver failed to load, or the daemon dies.                 *)
RecoveryEnds == boot = "recover" ~> (boot # "recover" \/ Stuck)

=============================================================================
