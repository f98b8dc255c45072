----------------------------- MODULE HubDevices -----------------------------
(***************************************************************************)
(* The devices of the Python hub (src/src/python): the manager's table by  *)
(* device id, the table of drv_orange by short address, the configuration  *)
(* (hsb_config) and its file, and the Zigbee devices that announce         *)
(* themselves, keep alive, leave and come back under another address.      *)
(*                                                                         *)
(* All handlers run in the thread of hsb_manager, one item of its queue    *)
(* after the other, so each is one action. An exception nobody catches     *)
(* ends that thread; the process lives on, deaf, until it is restarted.    *)
(*                                                                         *)
(* hsb_config.devices is one dict with keys of two types: the records read *)
(* from the file have strings for keys (old), the records of this run have *)
(* integers (new). The file gets both, and the parser keeps the later one. *)
(* A record shares the attrs dict of the device object it was made from    *)
(* (live), and its channels dict if that was not empty. The name and the   *)
(* location of a device are one value here, and so are its channels.       *)
(***************************************************************************)
EXTENDS Integers

CONSTANTS
  Mac, Addr,    \* Zigbee devices, short addresses
  Val,          \* values of the attributes, and of the channels, of a device
  Default,      \* those a device object is created with; no channels
  Patience,     \* seconds without a keepalive before a device is given up (10)
  Kept,         \* infrared devices an earlier run left in the file
  MaxCmd,       \* bound: commands of clients that change something
  MaxRestart    \* bound: restarts

ASSUME HubAssumption ==
  /\ Mac \cap {"ir"} = {} /\ Addr \cap {"ir", "off"} = {}   \* Ir, Off
  /\ Default \in Val /\ Patience \in Nat
  /\ Kept \in Nat /\ MaxCmd \in Nat /\ MaxRestart \in Nat

VARIABLES
  alive,     \* the manager's thread runs
  at,        \* the address each device has on the air
  air,       \* discover responses on their way: <<device, address>>
  drv,       \* drv_orange.devices: the object at each address
  table,     \* hsb_manager.devices: id |-> the address of the object, or Ir
  old, new,  \* hsb_config.devices: the records with string, integer keys
  live,      \* ids whose record in new shares the object's attrs
  file,      \* devices.json, as hsb_config.load would read it
  first,     \* hsb_manager.first_devid
  cmds, restarts,  \* counters for the bounds
  last,      \* history: what a client last set of each device
  dirty,     \* history: devices set since the record was made that counts
  owner,     \* history: id |-> the device that got it
  buried     \* history: ids deleted before anything was saved in this run

tables == <<drv, table>>
config == <<old, new, live, file>>
history == <<last, dirty, owner, buried>>
bounds == <<cmds, restarts>>
vars == <<alive, at, air, tables, config, first, bounds, history>>

Off == "off"
Ir == "ir"
Setting == [attrs : Val, channels : Val]
Plain == [attrs |-> Default, channels |-> Default]
None == [mac |-> Ir, id |-> 0, attr |-> Plain, ticks |-> 0]
Empty == [i \in {} |-> Plain]

(* Dicts: del f[i], f[i] = v, and {**g, **f}. *)
Without(f, i) == [j \in DOMAIN f \ {i} |-> f[j]]
Put(f, i, v) == [j \in DOMAIN f \cup {i} |-> IF j = i THEN v ELSE f[j]]
Over(f, g) == [j \in DOMAIN f \cup DOMAIN g |-> IF j \in DOMAIN f THEN f[j] ELSE g[j]]

Who(i) == IF table[i] = Ir THEN Ir ELSE drv[table[i]].mac
Attr(i) == IF table[i] = Ir THEN Plain ELSE drv[table[i]].attr
Ghost(a) == drv[a] # None /\ (drv[a].id \in DOMAIN table => table[drv[a].id] # a)

(* find_device_by_smac: the records with string keys come first. *)
Records(m) == {r \in {<<i, old>> : i \in DOMAIN old} \cup {<<i, new>> : i \in DOMAIN new} :
                 r[2][r[1]].who = m}
RecordOf(m) == IF \E i \in DOMAIN old : old[i].who = m
               THEN old[CHOOSE i \in DOMAIN old : old[i].who = m]
               ELSE new[CHOOSE i \in DOMAIN new : new[i].who = m]
IdOf(m) == IF \E i \in DOMAIN old : old[i].who = m
           THEN CHOOSE i \in DOMAIN old : old[i].who = m
           ELSE CHOOSE i \in DOMAIN new : new[i].who = m

(* Faulty: the largest id in use. *)
FirstTaken(f) == IF DOMAIN f = {} THEN 1 ELSE CHOOSE n \in DOMAIN f : \A i \in DOMAIN f : i <= n

(* get_max_devid *)
FirstFree(f) == IF DOMAIN f = {} THEN 1
                ELSE 1 + CHOOSE n \in DOMAIN f : \A i \in DOMAIN f : i <= n
-----------------------------------------------------------------------------
Init ==
  /\ alive = TRUE
  /\ at = [m \in Mac |-> Off] /\ air = {}
  /\ drv = [a \in Addr |-> None] /\ table = [i \in 1..Kept |-> Ir]
  /\ old = [i \in 1..Kept |-> [who |-> Ir, attr |-> Plain]]
  /\ new = Empty /\ live = {} /\ file = old
  /\ first = FirstFree(file) /\ cmds = 0 /\ restarts = 0
  /\ last = [m \in Mac |-> Plain] /\ dirty = {}
  /\ owner = table /\ buried = {}

(* save_devices: a record of every device of the table, and the file. *)
Saved(t, d) ==
  /\ new' = Over([i \in DOMAIN t |->
                    IF t[i] = Ir THEN [who |-> Ir, attr |-> Plain]
                    ELSE [who |-> d[t[i]].mac, attr |-> d[t[i]].attr]], new)
  /\ live' = DOMAIN t
  /\ file' = Over(new', old)
  /\ dirty' = dirty \ {m \in Mac : \E i \in DOMAIN t \ DOMAIN old :
                           t[i] # Ir /\ d[t[i]].mac = m /\ d[t[i]].attr = last'[m]}

(* An exception ends the manager's thread: what arrives is never taken. *)
Dies == alive' = FALSE /\ air' = {}

-----------------------------------------------------------------------------
(* The devices. *)

(* A device is switched on under some free address and announces itself.   *)
(* Bounds: a device has one response on its way at a time, and nothing     *)
(* goes on around a hub that no longer listens.                            *)
PowerOn(m, a) ==
  /\ alive /\ at[m] = Off /\ \A n \in Mac : at[n] # a
  /\ \A b \in Addr : <<m, b>> \notin air
  /\ at' = [at EXCEPT ![m] = a]
  /\ air' = air \cup {<<m, a>>}
  /\ UNCHANGED <<alive, tables, config, first, bounds, history>>

PowerOff(m) ==
  /\ alive /\ at[m] # Off
  /\ at' = [at EXCEPT ![m] = Off]
  /\ UNCHANGED <<alive, air, tables, config, first, bounds, history>>

Lose(m, a) ==
  /\ alive /\ <<m, a>> \in air
  /\ air' = air \ {<<m, a>>}
  /\ UNCHANGED <<alive, at, tables, config, first, bounds, history>>

-----------------------------------------------------------------------------
(* The handlers of drv_orange. *)

(* on_keepalive: an unknown address is asked to introduce itself; the      *)
(* device that has the address answers.                                    *)
Keepalive(m) ==
  /\ alive /\ at[m] # Off
  /\ IF drv[at[m]] = None
     THEN /\ \A b \in Addr : <<m, b>> \notin air
          /\ air' = air \cup {<<m, at[m]>>}
          /\ UNCHANGED drv
     ELSE drv' = [drv EXCEPT ![at[m]].ticks = 0] /\ UNCHANGED air
  /\ UNCHANGED <<alive, at, table, config, first, bounds, history>>

(* Faulty: an entry of the driver's table is overwritten. *)
FreeAlways(a) == TRUE
Free(a) == drv[a] = None

(* Faulty: the stored settings are not given to the device. *)
RestoredNot(m) == Plain
Restored(m) == RecordOf(m).attr

(* on_discover_resp, hsb_driver.add_device and hsb_manager.add_device of a *)
(* device the configuration knows: it gets its id and its settings back.   *)
Rejoin(m, a) ==
  /\ alive /\ <<m, a>> \in air /\ Free(a)
  /\ Records(m) # {}
  /\ LET i == IdOf(m) IN
       /\ drv' = [drv EXCEPT ![a] = [mac |-> m, id |-> i, attr |-> Restored(m), ticks |-> 0]]
       /\ table' = Put(table, i, a)
       /\ live' = live \ {i}
  /\ air' = air \ {<<m, a>>}
  /\ UNCHANGED <<alive, at, old, new, file, first, bounds, history>>

(* The same of a device it does not know. *)
NewDevice(m, a) ==
  /\ alive /\ <<m, a>> \in air /\ Free(a)
  /\ Records(m) = {}
  /\ drv' = [drv EXCEPT ![a] = [mac |-> m, id |-> first, attr |-> Plain, ticks |-> 0]]
  /\ table' = Put(table, first, a)
  /\ first' = first + 1
  /\ air' = air \ {<<m, a>>}
  /\ last' = [last EXCEPT ![m] = Plain]
  /\ Saved(table', drv')
  /\ owner' = Over(owner, [i \in {first} |-> m])
  /\ buried' = buried \ {first}
  /\ UNCHANGED <<alive, at, old, bounds>>

(* A response from an address that has an entry changes nothing. *)
Ignored(m, a) ==
  /\ alive /\ <<m, a>> \in air /\ ~Free(a)
  /\ air' = air \ {<<m, a>>}
  /\ UNCHANGED <<alive, at, tables, config, first, bounds, history>>

(* on_update and on_reply: for an unknown address discover() is called     *)
(* without its argument; the answer to a SET goes to on_set_result, which  *)
(* no device has. Both raise an exception. Any other frame of the two      *)
(* kinds leaves the tables as they are.                                    *)
Update(m) ==
  /\ alive /\ at[m] # Off
  /\ drv[at[m]] = None
  /\ Dies
  /\ UNCHANGED <<at, tables, config, first, bounds, history>>

ReplyToSet(m) ==
  /\ alive /\ at[m] # Off
  /\ drv[at[m]] # None
  /\ Dies
  /\ UNCHANGED <<at, tables, config, first, bounds, history>>

-----------------------------------------------------------------------------
(* One second without work: keepalive. The devices in the manager's table  *)
(* that came from the driver grow older; those that were silent for too    *)
(* long leave both tables (hsb_driver.del_device, manager.del_device).     *)
Tick ==
  /\ alive
  /\ LET aged == [a \in Addr |-> IF drv[a] = None \/ Ghost(a) THEN drv[a]
                                 ELSE [drv[a] EXCEPT !.ticks = @ + 1]]
         silent == {a \in Addr : aged[a].ticks > Patience}
         gone == {aged[a].id : a \in silent}
     IN  /\ drv' = [a \in Addr |-> IF a \in silent THEN None ELSE aged[a]]
         /\ table' = [i \in DOMAIN table \ gone |-> table[i]]
         /\ live' = live \ gone
  /\ UNCHANGED <<alive, at, air, old, new, file, first, bounds, history>>

(* check_timers at the first idle second of a day: a device without timers *)
(* makes hsb_dev_timers.check use a variable it has not assigned.          *)
Midnight ==
  /\ alive /\ DOMAIN table # {}
  /\ Dies
  /\ UNCHANGED <<at, tables, config, first, bounds, history>>

-----------------------------------------------------------------------------
(* Commands of clients. *)
Command == cmds < MaxCmd /\ cmds' = cmds + 1

(* get_ob puts the channels into a record only if there are any: a record  *)
(* r without channels does not see those its object is given later.        *)
Shared(r, v) == [v EXCEPT !.channels = IF r.channels = Default THEN Default ELSE @]

(* set_devices: the object changes, and with it what its record shares;    *)
(* the file does not. Channels are added and changed, never removed.       *)
SetDevice(i, v) ==
  /\ alive /\ i \in DOMAIN table /\ table[i] # Ir
  /\ Command /\ v # Attr(i)
  /\ v.channels = Default => Attr(i).channels = Default
  /\ drv' = [drv EXCEPT ![table[i]].attr = v]
  /\ last' = [last EXCEPT ![Who(i)] = v]
  /\ dirty' = IF i \in live \ DOMAIN old /\ Shared(new[i].attr, v) = v
              THEN dirty \ {Who(i)} ELSE dirty \cup {Who(i)}
  /\ new' = IF i \in live THEN [new EXCEPT ![i].attr = Shared(@, v)] ELSE new
  /\ UNCHANGED <<alive, at, air, table, old, live, file, first, restarts, owner, buried>>

(* add_devices: an infrared device; it has no MAC, so its id is new. *)
AddIr ==
  /\ alive /\ Command
  /\ table' = Put(table, first, Ir)
  /\ first' = first + 1
  /\ UNCHANGED last
  /\ Saved(table', drv)
  /\ owner' = Over(owner, [i \in {first} |-> Ir])
  /\ buried' = buried \ {first}
  /\ UNCHANGED <<alive, at, air, drv, old, restarts>>

(* The same with a value for its endpoint: set_ob looks for a remote       *)
(* through a manager the device does not have yet.                         *)
AddIrWithValue ==
  /\ alive /\ Command
  /\ Dies
  /\ UNCHANGED <<at, tables, config, first, restarts, history>>

(* Faulty: the file keeps the record. *)
ErasedInMemory(i) == old' = Without(old, i) /\ UNCHANGED file

(* hsb_config.del_device: the record with a string key, if there is one. *)
Erased(i) ==
  IF i \in DOMAIN old
  THEN old' = Without(old, i) /\ file' = Over(new, old')
  ELSE UNCHANGED <<old, file>>

(* del_devices: any device leaves the manager's table, not the driver's. *)
DelDevice(i) ==
  /\ alive /\ i \in DOMAIN table
  /\ Command
  /\ table' = Without(table, i)
  /\ live' = live \ {i}
  /\ Erased(i)
  /\ owner' = Without(owner, i)
  /\ buried' = IF new = Empty THEN buried \cup {i} ELSE buried
  /\ UNCHANGED <<alive, at, air, drv, new, first, restarts, last, dirty>>

-----------------------------------------------------------------------------
(* hsbapp is started again: hsb_config, then load_config. *)
Start(f) ==
  /\ restarts < MaxRestart
  /\ restarts' = restarts + 1
  /\ alive' = TRUE /\ air' = {}
  /\ drv' = [a \in Addr |-> None]
  /\ old' = f /\ new' = Empty /\ live' = {} /\ file' = f
  /\ table' = [i \in {j \in DOMAIN f : f[j].who = Ir} |-> Ir]
  /\ first' = FirstFree(f)
  /\ last' = [m \in Mac |-> IF \E i \in DOMAIN f : f[i].who = m
                            THEN f[CHOOSE i \in DOMAIN f : f[i].who = m].attr
                            ELSE Plain]
  /\ dirty' = {}
  /\ UNCHANGED <<at, cmds>>

Restart == Start(file) /\ UNCHANGED <<owner, buried>>

(* The process dies between the truncation of the file and the write that  *)
(* add_devices is about to make: the file cannot be parsed.                *)
CrashSaving ==
  /\ alive
  /\ Start(Empty)
  /\ owner' = Empty /\ buried' = {}

Next ==
  \/ \E m \in Mac, a \in Addr :
       PowerOn(m, a) \/ Lose(m, a) \/ Rejoin(m, a) \/ NewDevice(m, a) \/ Ignored(m, a)
  \/ \E m \in Mac : PowerOff(m) \/ Keepalive(m) \/ Update(m) \/ ReplyToSet(m)
  \/ Tick \/ Midnight \/ AddIr \/ AddIrWithValue \/ Restart \/ CrashSaving
  \/ \E i \in DOMAIN table : DelDevice(i) \/ \E v \in Setting : SetDevice(i, v)

Spec == Init /\ [][Next]_vars

-----------------------------------------------------------------------------
(* An id that was announced for a device never denotes another one, and no *)
(* device has two, over restarts, addresses and infrared devices that come *)
(* in between - unless a client deleted the device or the file was lost.   *)
IdKeepsOwner ==
  /\ \A i \in DOMAIN table : i \in DOMAIN owner => owner[i] = Who(i)
  /\ \A i, j \in DOMAIN table : Who(i) = Who(j) /\ Who(i) # Ir => i = j

(* The object behind an id is the one the driver has under its address: a  *)
(* SET goes to the device that was meant, and what the two del_device      *)
(* remove on a time-out is there (a missing key would end the manager).    *)
TablesAgree ==
  \A i \in DOMAIN table : table[i] # Ir => drv[table[i]] # None /\ drv[table[i]].id = i

(* A device has the settings a client gave it last. It loses them - by     *)
(* leaving and coming back - only if the device is one the hub read from   *)
(* its file, or had not been saved since it came back, or if they are the  *)
(* first channels of a device, given to it after the hub last saved.       *)
SettingsKept ==
  \A i \in DOMAIN table : table[i] # Ir => Attr(i) = last[Who(i)] \/ Who(i) \in dirty

(* An infrared device that was deleted before this run saved anything is   *)
(* gone for good; one that was saved in this run comes back.               *)
DeletedStays == \A i \in buried : i \notin DOMAIN table
=============================================================================
