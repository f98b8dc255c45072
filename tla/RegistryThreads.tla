-------------------------- MODULE RegistryThreads --------------------------
(***************************************************************************)
(* The queues of DeviceRegistry as the threads of core_daemon really work  *)
(* on them (device.c). dev_online and dev_recovered look for a device in   *)
(* offq under the device lock, give the lock up, and then take out whatever *)
(* is at the position they found; save_config walks both queues by         *)
(* position and writes the file, without any lock; the virtual-switch      *)
(* driver, whose _register_device runs in three threads, enters a device   *)
(* in its own table only after dev_online returned.                        *)
(*                                                                         *)
(* DeviceRegistry makes one action of each handler. This module says which *)
(* overlaps of two handlers keep what it promises, and which do not.       *)
(***************************************************************************)
EXTENDS Integers, Sequences, FiniteSets, SequencesExt

CONSTANTS
  Scanner,  \* threads that run _register_device: monitor, async, main
  Monitor,  \* the one of them that also runs _remove_timeout_dev
  Main,     \* the thread that runs recover_dev
  Handler,  \* threads that serve clients
  Radio,    \* MACs of the devices that _register_device finds
  ZeroMac,  \* the MAC of every infrared device
  Known,    \* the MACs of the devices in the file, in order
  MaxId,    \* bound: ids the counter may hand out
  MaxCmd    \* bound: commands of clients

ASSUME ThreadsAssumption ==
  /\ Monitor \in Scanner /\ Main \notin Handler
  /\ Scanner \cap Handler = {}
  /\ ZeroMac \notin Radio
  /\ Known \in Seq(Radio \cup {ZeroMac})
  /\ MaxId \in Nat /\ Len(Known) <= MaxId /\ MaxCmd \in Nat

VARIABLES
  queue,   \* gl_dev_cb.queue: ids of the online devices
  offq,    \* gl_dev_cb.offq: ids of the offline ones
  mac,     \* the MAC of each device
  dev_id,  \* the next id to hand out
  table,   \* the driver's own queue of the devices it has registered
  file,    \* ids in the configuration file, or Torn
  th,      \* what each thread is doing
  cmds,    \* commands of clients so far
  gone,    \* history: devices deleted by a client
  stale,   \* history: threads whose position in offq is not right any more
  mixed,   \* history: a thread used such a position
  late,    \* history: devices that changed places, or were moved up, or
           \* were in no queue, while a save was under way
  clash,   \* history: two threads were writing the file at once
  doubled  \* history: MACs two threads registered at once

live == <<queue, offq, mac, dev_id, table, file>>
history == <<gone, stale, mixed, late, clash, doubled>>
vars == <<live, th, cmds, history>>

Thread == Scanner \cup Handler \cup {Main}
Id == 1..MaxId
Torn == <<0>>

Free == [at |-> "idle", mac |-> ZeroMac, id |-> 0, new |-> FALSE,
         pos |-> 0, len |-> 0, acc |-> <<>>]

(* A thread does something by itself, or serves a client's command. *)
Served(t) ==
  IF t \in Handler THEN cmds < MaxCmd /\ cmds' = cmds + 1 ELSE UNCHANGED cmds

Saving(t) == th[t].at \in {"queue", "offq", "open", "close"}

(* A device at place p of queue q left it: with it, the ones behind it are *)
(* at risk in a save that is under way.                                    *)
AtRisk(q, p) ==
  IF \E t \in Thread : Saving(t) THEN {q[i] : i \in p..Len(q)} ELSE {}

IndexOf(q, d) == CHOOSE i \in DOMAIN q : q[i] = d /\ \A j \in 1..(i - 1) : q[j] # d

-----------------------------------------------------------------------------
Init ==
  /\ queue = <<>>
  /\ offq = [i \in DOMAIN Known |-> i]
  /\ mac = [d \in Id |-> IF d \in DOMAIN Known THEN Known[d] ELSE ZeroMac]
  /\ dev_id = Len(Known) + 1
  /\ table = {}
  /\ file = offq
  /\ th = [t \in Thread |-> Free]
  /\ cmds = 0
  /\ gone = {} /\ stale = {} /\ mixed = FALSE
  /\ late = {} /\ clash = FALSE /\ doubled = {}

-----------------------------------------------------------------------------
(* dev_online and dev_recovered. *)

(* What a search of offq found at place i. *)
Found(t, m, i) == [th[t] EXCEPT !.at = "pop", !.mac = m, !.id = offq[i], !.pos = i]

(* Faulty: the driver's own table is not looked at. *)
FindOfflineAlways(t, m) ==
  /\ th[t].at = "idle" /\ Served(t)
  /\ \/ t \in Scanner /\ m \in Radio
     \/ t \in Handler /\ m = ZeroMac
  /\ \/ \E i \in DOMAIN offq :
          /\ mac[offq[i]] = m /\ \A j \in 1..(i - 1) : mac[offq[j]] # m
          /\ th' = [th EXCEPT ![t] = Found(t, m, i)]
     \/ /\ \A i \in DOMAIN offq : mac[offq[i]] # m
        /\ th' = [th EXCEPT ![t].at = "alloc", ![t].mac = m]
  /\ doubled' = IF \E u \in Thread \ {t} : th[u].at # "idle" /\ th[u].mac = m
                THEN doubled \cup {m} ELSE doubled
  /\ UNCHANGED <<live, gone, stale, mixed, late, clash>>

(* _register_device for a device the driver does not know, or              *)
(* HSB_CMD_ADD_DEV for an infrared device; then the locked search of offq  *)
(* in dev_online, for the first device with the MAC.                       *)
FindOffline(t, m) ==
  /\ th[t].at = "idle" /\ Served(t)
  /\ \/ t \in Scanner /\ m \in Radio /\ \A e \in table : e.mac # m
     \/ t \in Handler /\ m = ZeroMac
  /\ \/ \E i \in DOMAIN offq :
          /\ mac[offq[i]] = m /\ \A j \in 1..(i - 1) : mac[offq[j]] # m
          /\ th' = [th EXCEPT ![t] = Found(t, m, i)]
     \/ /\ \A i \in DOMAIN offq : mac[offq[i]] # m
        /\ th' = [th EXCEPT ![t].at = "alloc", ![t].mac = m]
  /\ doubled' = IF \E u \in Thread \ {t} : th[u].at # "idle" /\ th[u].mac = m
                THEN doubled \cup {m} ELSE doubled
  /\ UNCHANGED <<live, gone, stale, mixed, late, clash>>

(* recover_dev, ir_recover_dev and the locked search in dev_recovered, for *)
(* the device with a given id.                                             *)
FindKnown(i) ==
  /\ th[Main].at = "idle"
  /\ mac[offq[i]] = ZeroMac
  /\ th' = [th EXCEPT ![Main] = Found(Main, ZeroMac, i)]
  /\ UNCHANGED <<cmds, live, history>>

(* create_dev: alloc_dev_id takes the lock. *)
Alloc(t) ==
  /\ th[t].at = "alloc"
  /\ dev_id <= MaxId
  /\ dev_id' = dev_id + 1
  /\ mac' = [mac EXCEPT ![dev_id] = th[t].mac]
  /\ th' = [th EXCEPT ![t].at = "push", ![t].id = dev_id, ![t].new = TRUE]
  /\ UNCHANGED <<cmds, queue, offq, table, file, history>>

(* g_queue_pop_nth at the position found earlier, without the lock. *)
PopNth(t) ==
  /\ th[t].at = "pop"
  /\ th' = [th EXCEPT ![t].at = "push"]
  /\ mixed' = (mixed \/ t \in stale)
  /\ LET p == th[t].pos
     IN \/ /\ p \in DOMAIN offq
           /\ offq' = RemoveAt(offq, p)
           /\ stale' = (stale \cup {u \in Thread : th[u].at = "pop" /\ th[u].pos >= p})
                         \ {t}
           /\ late' = late \cup AtRisk(offq, p)
        \/ /\ p \notin DOMAIN offq
           /\ stale' = stale \ {t}
           /\ UNCHANGED <<offq, late>>
  /\ UNCHANGED <<cmds, queue, mac, dev_id, table, file, gone, clash, doubled>>

(* The locked push to the online queue. A new device is saved next. *)
Push(t) ==
  /\ th[t].at = "push"
  /\ queue' = Append(queue, th[t].id)
  /\ th' = [th EXCEPT ![t].at = IF th[t].new THEN "dirty" ELSE "list"]
  /\ late' = late \cup (IF \E u \in Thread : Saving(u) THEN {th[t].id} ELSE {})
  /\ UNCHANGED <<cmds, offq, mac, dev_id, table, file, gone, stale, mixed,
                 clash, doubled>>

(* dev_online returned: _register_device enters the device in the table of *)
(* its driver. The infrared driver has none.                               *)
List(t) ==
  /\ th[t].at = "list"
  /\ table' = IF th[t].mac = ZeroMac THEN table
              ELSE table \cup {[mac |-> th[t].mac, id |-> th[t].id]}
  /\ th' = [th EXCEPT ![t] = Free]
  /\ UNCHANGED <<cmds, queue, offq, mac, dev_id, file, history>>

-----------------------------------------------------------------------------
(* dev_offline and dev_removed: one locked step each. *)

(* Faulty: an offline device is put at the head of offq. *)
GoOfflineHead(e) ==
  /\ th[Monitor].at = "idle" /\ e \in table
  /\ table' = table \ {e}
  /\ \/ /\ e.id \in ToSet(queue)
        /\ LET p == IndexOf(queue, e.id)
           IN queue' = RemoveAt(queue, p) /\ late' = late \cup AtRisk(queue, p)
        /\ offq' = <<e.id>> \o offq
     \/ e.id \notin ToSet(queue) /\ UNCHANGED <<queue, offq, late>>
  /\ UNCHANGED <<cmds, mac, dev_id, file, th, gone, stale, mixed, clash,
                 doubled>>

(* _remove_timeout_dev and dev_offline for an entry of the table. *)
GoOffline(e) ==
  /\ th[Monitor].at = "idle"
  /\ e \in table
  /\ table' = table \ {e}
  /\ \/ /\ e.id \in ToSet(queue)
        /\ LET p == IndexOf(queue, e.id)
           IN queue' = RemoveAt(queue, p) /\ late' = late \cup AtRisk(queue, p)
        /\ offq' = Append(offq, e.id)
     \/ e.id \notin ToSet(queue) /\ UNCHANGED <<queue, offq, late>>
  /\ UNCHANGED <<cmds, mac, dev_id, file, th, gone, stale, mixed, clash,
                 doubled>>

(* HSB_CMD_DEL_DEV: ir_del_dev and dev_removed of an infrared device. *)
Delete(t, d) ==
  /\ t \in Handler /\ th[t].at = "idle" /\ Served(t)
  /\ d \in ToSet(queue) /\ mac[d] = ZeroMac
  /\ LET p == IndexOf(queue, d)
     IN queue' = RemoveAt(queue, p) /\ late' = late \cup AtRisk(queue, p)
  /\ gone' = gone \cup {d}
  /\ UNCHANGED <<offq, mac, dev_id, table, file, th, stale, mixed, clash,
                 doubled>>

-----------------------------------------------------------------------------
(* save_config, for a new device or a client's command. *)

StartSave(t) ==
  /\ \/ th[t].at = "dirty" /\ UNCHANGED cmds
     \/ th[t].at = "idle" /\ t \in Handler /\ Served(t)
  /\ th' = [th EXCEPT ![t].at = "queue", ![t].pos = 1, ![t].len = Len(queue)]
  /\ late' = late \cup {th[u].id : u \in {v \in Thread : /\ th[v].at = "push"
                                                         /\ ~th[v].new}}
  /\ UNCHANGED <<live, gone, stale, mixed, clash, doubled>>

(* g_queue_peek_nth finds nothing past the end. *)
Peeked(acc, q, p) == IF p \in DOMAIN q THEN Append(acc, q[p]) ELSE acc

(* Faulty: the last device of a queue is left out. *)
ScanShort(t, q, at, next, len) ==
  /\ th[t].at = at
  /\ \/ /\ th[t].pos >= th[t].len
        /\ th' = [th EXCEPT ![t].at = next, ![t].pos = 1, ![t].len = len]
     \/ /\ th[t].pos < th[t].len
        /\ th' = [th EXCEPT ![t].pos = @ + 1, ![t].acc = Peeked(@, q, th[t].pos)]
  /\ UNCHANGED <<cmds, live, history>>

(* One round of a loop of save_config over queue q, whose length was read  *)
(* before the loop.                                                        *)
Scan(t, q, at, next, len) ==
  /\ th[t].at = at
  /\ \/ /\ th[t].pos > th[t].len
        /\ th' = [th EXCEPT ![t].at = next, ![t].pos = 1, ![t].len = len]
     \/ /\ th[t].pos <= th[t].len
        /\ th' = [th EXCEPT ![t].pos = @ + 1, ![t].acc = Peeked(@, q, th[t].pos)]
  /\ UNCHANGED <<cmds, live, history>>

ScanQueue(t) == Scan(t, queue, "queue", "offq", Len(offq))
ScanOffq(t) == Scan(t, offq, "offq", "open", 0)

(* xmlSaveFormatFileEnc empties the file and then writes it. *)
OpenFile(t) ==
  /\ th[t].at = "open"
  /\ th' = [th EXCEPT ![t].at = "close"]
  /\ file' = Torn
  /\ clash' = (clash \/ \E u \in Thread : th[u].at = "close")
  /\ UNCHANGED <<cmds, queue, offq, mac, dev_id, table, gone, stale, mixed,
                 late, doubled>>

(* Another thread that has the file open, or wrote it since this one       *)
(* opened it, may leave its own bytes in it.                               *)
CloseFile(t) ==
  /\ th[t].at = "close"
  /\ th' = [th EXCEPT ![t] = IF @.new THEN [@ EXCEPT !.at = "list", !.pos = 0,
                                                     !.len = 0, !.acc = <<>>]
                             ELSE Free]
  /\ \/ file' = th[t].acc
     \/ /\ file # Torn \/ \E u \in Thread \ {t} : th[u].at = "close"
        /\ file' = Torn
  /\ UNCHANGED <<cmds, queue, offq, mac, dev_id, table, history>>

-----------------------------------------------------------------------------
Next ==
  \/ \E t \in Thread :
       \/ \E m \in Radio \cup {ZeroMac} : FindOffline(t, m)
       \/ Alloc(t)
       \/ PopNth(t)
       \/ Push(t)
       \/ List(t)
       \/ \E d \in Id : Delete(t, d)
       \/ StartSave(t)
       \/ ScanQueue(t)
       \/ ScanOffq(t)
       \/ OpenFile(t)
       \/ CloseFile(t)
  \/ \E i \in DOMAIN offq : FindKnown(i)
  \/ \E e \in table : GoOffline(e)

Spec == Init /\ [][Next]_vars

-----------------------------------------------------------------------------
(* Properties. *)

(* The threads that have device d in their hands, in neither queue. *)
Carriers(d) == {t \in Thread : th[t].at = "push" /\ th[t].id = d}

(* Every device that was given an id and not deleted is in one place, once *)
(* - the online queue, offq, or the hands of one thread - unless a thread  *)
(* used a position in offq after another one took out a device at or       *)
(* before it. Devices that go offline meanwhile do no harm.                *)
OncePerDevice ==
  ~mixed =>
    \A d \in 1..(dev_id - 1) :
      Cardinality({i \in DOMAIN queue : queue[i] = d})
        + Cardinality({i \in DOMAIN offq : offq[i] = d})
        + Cardinality(Carriers(d)) = IF d \in gone THEN 0 ELSE 1

(* Nobody saves, or is about to. *)
Saved == \A t \in Thread : ~Saving(t) /\ th[t].at # "dirty"

(* When all saves are done, the file can be read and has every device of   *)
(* the registry, except one that changed places, moved up in its queue or  *)
(* was in nobody's queue during a save - unless two threads wrote at once, *)
(* or offq was mixed up.                                                   *)
FileComplete ==
  Saved /\ ~clash /\ ~mixed =>
    /\ file # Torn
    /\ \A d \in ToSet(queue) \cup ToSet(offq) : d \in ToSet(file) \cup late

(* Two online devices share a MAC only if two threads registered it at     *)
(* once: the check in the driver's table is not enough for that.           *)
OneDevicePerMac ==
  ~mixed =>
    \A c, d \in ToSet(queue) :
      c # d /\ mac[c] = mac[d] /\ mac[c] # ZeroMac => mac[c] \in doubled

=============================================================================
