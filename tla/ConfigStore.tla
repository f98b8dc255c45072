----------------------------- MODULE ConfigStore -----------------------------
(***************************************************************************)
(* The scenes and the channels of a device: the lists in memory, which the *)
(* handler threads of the clients edit (network.c, scene.c, channel.c),    *)
(* and the configuration file, which save_config writes and load_config    *)
(* reads when the daemon starts (device.c).                                *)
(*                                                                         *)
(* Nothing protects the lists or the file: the lock of a channel list is   *)
(* never taken. A command searches its list, changes it, takes a copy of   *)
(* the whole configuration, opens the file, which empties it, and writes.  *)
(* A new name that another thread has added since the search is added once *)
(* more. The search and the copy walk by place over a list in which others *)
(* delete and replace, and may pass entries by. An entry that was found,   *)
(* and that another thread has freed or moved since, is used all the same, *)
(* and two threads may be in one queue at once while its links change:     *)
(* that is undefined, and the model stops there. load_config adds each     *)
(* scene of the file with add_scene, which saves what has been loaded so   *)
(* far. The network is up before any of this.                              *)
(*                                                                         *)
(* One device has channels. A value is a channel's number or the contents  *)
(* of a scene. The other parts of the file are in DeviceRegistry.          *)
(***************************************************************************)
EXTENDS NamedList, FiniteSets

CONSTANTS
  Client,   \* threads that handle clients
  Main,     \* the main thread, which loads the file
  Name, Val,
  NoVal, Torn,
  Files,    \* what the file may hold when the daemon starts first
  MaxCmd,   \* bound: commands
  MaxCrash  \* bound: how often the daemon is killed and started again

VARIABLES
  mem,       \* scene_q and pchan_db
  file,      \* what a parser finds in the file; Torn if it finds no document
  at,        \* where each thread is
  cmd,       \* the command that each thread works at
  doc,       \* the document that each thread is to write
  found,     \* the thread's search found the name
  stale,     \* what it found was freed or moved since; or an entry was, as it copies
  mixed,     \* another thread has, or had, the file open together with it
  phase,     \* how far the main thread has come
  todo,      \* entries of the file that are still to be added
  undefined, \* an entry was used that is no longer there, or a queue was torn
  overlap,   \* history: two threads at once were to set one name, or a walk
             \*          passed by the name it was to set or to delete
  cmds, crashes,
  acked,     \* history: names that must outlast a restart
  claim,     \* history: threads at a name that was not deleted since
  damaged    \* history: something endangered the file

thread == <<at, cmd, doc>>
ack == <<acked, claim>>
count == <<cmds, crashes>>
vars == <<mem, file, thread, found, stale, mixed, phase, todo, undefined, overlap, count, ack, damaged>>

Kind == {"channel", "scene"}
Entry == [name : Name, val : Val]
Thread == Client \cup {Main}
Empty == [k \in Kind |-> <<>>]
Document == [Kind -> Seq(Entry)]

ASSUME StoreAssumption ==
  /\ Main \notin Client /\ NoVal \notin Val
  /\ Files \subseteq Document /\ Torn \notin Document
  /\ MaxCmd \in Nat /\ MaxCrash \in Nat

SetCommand == [op : {"set"}, kind : Kind, name : Name, val : Val]
Command == SetCommand \cup [op : {"del", "read"}, kind : Kind, name : Name, val : {NoVal}]
NoCommand == [op |-> "read", kind |-> "scene", name |-> NoVal, val |-> NoVal]

-----------------------------------------------------------------------------
Init ==
  /\ mem = Empty /\ file \in Files
  /\ at = [t \in Thread |-> "idle"]
  /\ cmd = [t \in Thread |-> NoCommand]
  /\ doc = [t \in Thread |-> Empty]
  /\ found = [t \in Thread |-> FALSE]
  /\ stale = [t \in Thread |-> FALSE] /\ mixed = [t \in Thread |-> FALSE]
  /\ phase = "boot" /\ todo = <<>>
  /\ undefined = FALSE /\ overlap = FALSE
  /\ cmds = 0 /\ crashes = 0
  /\ acked = {x \in Kind \X Name : x[2] \in Names(file[x[1]])}
  /\ claim = {} /\ damaged = FALSE

-----------------------------------------------------------------------------
SetsToo(u, c) == cmd[u].op = "set" /\ cmd[u].kind = c.kind /\ cmd[u].name = c.name

(* Thread t begins to work at a command: it searches the list. The walk    *)
(* ends at what was there at first, unless it misses it.                   *)
Search(t, c) ==
  /\ at[t] = "idle"
  /\ at' = [at EXCEPT ![t] = "change"]
  /\ cmd' = [cmd EXCEPT ![t] = c]
  /\ found' = [found EXCEPT ![t] = c.name \in Names(mem[c.kind])]
  /\ stale' = [stale EXCEPT ![t] = FALSE]
  /\ overlap' = (overlap \/ (c.op = "set" /\
                   \E u \in Thread \ {t} : at[u] = "change" /\ SetsToo(u, c)))
  /\ UNCHANGED <<mem, file, doc, mixed, undefined, crashes>>

Accepted(t, c) ==
  /\ cmds < MaxCmd
  /\ cmds' = cmds + 1
  /\ claim' = IF c.op = "set" THEN claim \cup {t} ELSE claim \ {t}
  /\ acked' = IF phase = "running" THEN acked ELSE {}
  /\ UNCHANGED <<phase, todo>>

(* The device is known: its element of the file has been parsed. *)
DeviceKnown ==
  phase \in {"loading", "running"} /\ \A i \in DOMAIN todo : todo[i].kind # "channel"

(* SET_SCENE, DEL_SCENE, and ENTER_SCENE, which copies the scene. One that *)
(* arrives too early goes to a list that is thrown away, or saves the file *)
(* without the device.                                                     *)
SceneCommand(t, c) ==
  /\ c.kind = "scene" /\ Search(t, c) /\ Accepted(t, c)
  /\ damaged' = (damaged \/ ~DeviceKnown)

(* SET_CHANNEL, DEL_CHANNEL, SWITCH_CHANNEL; refused, and nothing changes, *)
(* while the device is not known.                                          *)
ChannelCommand(t, c) ==
  /\ c.kind = "channel" /\ DeviceKnown /\ Search(t, c) /\ Accepted(t, c)
  /\ UNCHANGED damaged

(* Faulty: a channel that gets another number is not saved. *)
SavesNew(t) == (cmd[t].op = "set" /\ ~found[t]) \/ (cmd[t].op = "del" /\ found[t])

(* Does the command save the configuration? A scene that replaces another  *)
(* of its name is not saved.                                               *)
Saves(t) ==
  \/ cmd[t].kind = "channel" /\ cmd[t].op # "read"
  \/ cmd[t].kind = "scene" /\ cmd[t].op = "set" /\ ~found[t]
  \/ cmd[t].kind = "scene" /\ cmd[t].op = "del" /\ found[t]

(* A deletion, and a scene that replaces another, frees the entry.         *)
Frees(t) == found[t] /\ (cmd[t].op = "del" \/ (cmd[t].op = "set" /\ cmd[t].kind = "scene"))

(* del_channel and add_scene go by the place of what they found, the other *)
(* commands by its address.                                                *)
ByPlace(u) == <<cmd[u].kind, cmd[u].op>> \in {<<"channel", "del">>, <<"scene", "set">>}

(* Does thread t free what u has found, or move it to another place?       *)
Spoils(t, u) ==
  LET l == mem[cmd[t].kind] IN
  /\ u # t /\ at[u] = "change" /\ found[u] /\ ~stale[u]
  /\ cmd[u].kind = cmd[t].kind /\ Frees(t)
  /\ \/ cmd[u].name = cmd[t].name
     \/ cmd[t].op = "del" /\ ByPlace(u)
        /\ Position(l, cmd[t].name) < Position(l, cmd[u].name)

(* May u, if it is still on its way there, pass by its entry, because t    *)
(* frees one before it, or puts another scene in its place?                *)
Misses(t, u) ==
  LET l == mem[cmd[t].kind] IN
  /\ u # t /\ at[u] = "change" /\ found[u] /\ ~stale[u]
  /\ cmd[u].kind = cmd[t].kind /\ Frees(t)
  /\ \/ Position(l, cmd[t].name) < Position(l, cmd[u].name)
     \/ cmd[t].name = cmd[u].name /\ cmd[t].op = "set"

TheKey(t) == <<cmd[t].kind, cmd[t].name>>

Edited(t) ==
  LET c == cmd[t]
      l == mem[c.kind] IN
  CASE c.op = "set" /\ found[t]  -> [mem EXCEPT ![c.kind] = Replace(l, c.name, c.val)]
    [] c.op = "set" /\ ~found[t] -> [mem EXCEPT ![c.kind] = Add(l, c.name, c.val)]
    [] c.op = "del" /\ found[t]  -> [mem EXCEPT ![c.kind] = Drop(l, c.name)]
    [] OTHER -> mem

(* Thread t is done; a client is told so. *)
Done(t) ==
  /\ cmd' = [cmd EXCEPT ![t] = NoCommand]
  /\ doc' = [doc EXCEPT ![t] = Empty]
  /\ claim' = claim \ {t}

(* A name that is deleted is not promised any more. *)
Forgotten(t) ==
  /\ acked' = acked \ {TheKey(t)}
  /\ claim' = {u \in claim : TheKey(u) # TheKey(t)}

(* The change that follows the search. Threads m, who search the list,     *)
(* miss what they look for.                                                *)
Change(t, m) ==
  /\ at[t] = "change" /\ ~(found[t] /\ stale[t])
  /\ \A u \in m : Misses(t, u)
  /\ mem' = Edited(t)
  /\ found' = [u \in Thread |-> found[u] /\ u # t /\ u \notin m]
  /\ stale' = [u \in Thread |-> stale[u] \/ (Spoils(t, u) /\ u \notin m)
                                      \/ (at[u] = "build" /\ Frees(t))]
  /\ overlap' = (overlap \/ \E u \in m : cmd[u].op # "read")
  /\ \/ Saves(t) /\ at' = [at EXCEPT ![t] = "build"] /\ UNCHANGED <<cmd, doc>>
        /\ IF cmd[t].op = "del" THEN Forgotten(t) ELSE UNCHANGED ack
     \/ ~Saves(t) /\ at' = [at EXCEPT ![t] = "idle"] /\ Done(t)
        /\ UNCHANGED acked
  /\ UNCHANGED <<file, mixed, phase, todo, undefined, count, damaged>>

(* Is another thread in the list whose links t is about to change? *)
Disturbs(t) ==
  /\ (cmd[t].op = "set" /\ ~found[t]) \/ Frees(t)
  /\ \E u \in Thread \ {t} : at[u] = "build" \/ (at[u] = "change" /\ cmd[u].kind = cmd[t].kind)

(* What the search found has been freed, or is elsewhere; or two threads   *)
(* are in the queue at the same moment: one of two new entries is lost,    *)
(* the length is wrong, or an entry is read as it is freed.                *)
UseStale(t) ==
  /\ at[t] = "change" /\ ((found[t] /\ stale[t]) \/ Disturbs(t))
  /\ undefined' = TRUE
  /\ UNCHANGED <<mem, file, thread, found, stale, mixed, phase, todo, overlap, count, ack, damaged>>

Known == IF DeviceKnown THEN mem ELSE [mem EXCEPT !["channel"] = <<>>]

(* save_config puts the document together. It goes by place, and when an   *)
(* entry was freed or replaced meanwhile it may pass by another.           *)
Build(t) ==
  /\ at[t] = "build"
  /\ \/ doc' = [doc EXCEPT ![t] = Known] /\ UNCHANGED damaged
     \/ /\ stale[t]
        /\ \E k \in Kind, n \in Name :
             doc' = [doc EXCEPT ![t] = [Known EXCEPT ![k] = Drop(@, n)]]
        /\ damaged' = TRUE
  /\ at' = [at EXCEPT ![t] = "open"]
  /\ UNCHANGED <<mem, file, cmd, found, stale, mixed, phase, todo, undefined, overlap, count, ack>>

(* It opens the file, which empties it. Two saves overlap if one takes its *)
(* document before the other has written its own.                          *)
Open(t) ==
  /\ at[t] = "open"
  /\ file' = Torn
  /\ at' = [at EXCEPT ![t] = "flush"]
  /\ mixed' = [u \in Thread |-> IF u = t THEN \E w \in Thread \ {t} : at[w] = "flush"
                                ELSE mixed[u] \/ at[u] = "flush"]
  /\ damaged' = (damaged \/ \E u \in Thread \ {t} : at[u] \in {"open", "flush"})
  /\ UNCHANGED <<mem, cmd, doc, found, stale, phase, todo, undefined, overlap, count, ack>>

(* It writes and closes; of two that write together, one overwrites the    *)
(* other from the start, and what is left need not be a document.          *)
Flush(t) ==
  /\ at[t] = "flush"
  /\ file' \in {doc[t]} \cup (IF mixed[t] THEN {Torn} ELSE {})
  /\ at' = [at EXCEPT ![t] = "idle"] /\ Done(t)
  /\ acked' = IF t \in claim THEN acked \cup {TheKey(t)} ELSE acked
  /\ mixed' = [mixed EXCEPT ![t] = FALSE]
  /\ UNCHANGED <<mem, found, stale, phase, todo, undefined, overlap, count, damaged>>

-----------------------------------------------------------------------------
(* init_scene, after the network is up. *)
InitScene ==
  /\ phase = "boot"
  /\ mem' = [mem EXCEPT !["scene"] = <<>>]
  /\ stale' = [t \in Thread |-> stale[t] \/ (at[t] = "change" /\ found[t])]
  /\ phase' = "parse"
  /\ UNCHANGED <<file, thread, found, mixed, todo, undefined, overlap, count, ack, damaged>>

Tagged(l, k) == [i \in DOMAIN l |-> [op |-> "set", kind |-> k, name |-> l[i].name, val |-> l[i].val]]

(* Faulty: the scenes in the file are not looked at. *)
ParseDevices ==
  /\ phase = "parse"
  /\ todo' = IF file = Torn THEN <<>> ELSE Tagged(file["channel"], "channel")
  /\ phase' = "loading"
  /\ UNCHANGED <<mem, file, thread, found, stale, mixed, undefined, overlap, count, ack, damaged>>

(* load_config: the devices come first in the file. Without a document it  *)
(* loads nothing.                                                          *)
Parse ==
  /\ phase = "parse"
  /\ todo' = IF file = Torn THEN <<>>
             ELSE Tagged(file["channel"], "channel") \o Tagged(file["scene"], "scene")
  /\ phase' = "loading"
  /\ UNCHANGED <<mem, file, thread, found, stale, mixed, undefined, overlap, count, ack, damaged>>

(* add_scene for the next scene, as for a client, with the save. *)
LoadScene ==
  /\ phase = "loading" /\ todo # <<>> /\ Head(todo).kind = "scene"
  /\ Search(Main, Head(todo))
  /\ todo' = Tail(todo)
  /\ UNCHANGED <<phase, cmds, ack, damaged>>

(* set_channel for the next channel; nobody else knows the device yet. *)
LoadChannel ==
  /\ phase = "loading" /\ todo # <<>> /\ Head(todo).kind = "channel"
  /\ mem' = [mem EXCEPT !["channel"] = Put(@, Head(todo).name, Head(todo).val)]
  /\ todo' = Tail(todo)
  /\ UNCHANGED <<file, thread, found, stale, mixed, phase, undefined, overlap, count, ack, damaged>>

Loaded ==
  /\ phase = "loading" /\ todo = <<>> /\ at[Main] = "idle"
  /\ phase' = "running"
  /\ UNCHANGED <<mem, file, thread, found, stale, mixed, todo, undefined, overlap, count, ack, damaged>>

(* The daemon is killed and starts again. *)
Crash ==
  /\ crashes < MaxCrash
  /\ crashes' = crashes + 1
  /\ mem' = Empty
  /\ at' = [t \in Thread |-> "idle"] /\ cmd' = [t \in Thread |-> NoCommand]
  /\ doc' = [t \in Thread |-> Empty] /\ claim' = {}
  /\ found' = [t \in Thread |-> FALSE] /\ stale' = found' /\ mixed' = found'
  /\ phase' = "boot" /\ todo' = <<>>
  /\ damaged' = (damaged \/ phase = "loading" \/ \E t \in Thread : at[t] = "flush")
  /\ UNCHANGED <<file, undefined, overlap, cmds, acked>>

-----------------------------------------------------------------------------
Next ==
  /\ ~undefined
  /\ \/ \E t \in Client, c \in Command : SceneCommand(t, c) \/ ChannelCommand(t, c)
     \/ \E t \in Thread, m \in SUBSET Thread : Change(t, m)
     \/ \E t \in Thread : UseStale(t) \/ Build(t) \/ Open(t) \/ Flush(t)
     \/ InitScene \/ Parse \/ LoadScene \/ LoadChannel \/ Loaded
     \/ Crash

Spec == Init /\ [][Next]_vars

-----------------------------------------------------------------------------
(* Properties. *)

(* Every variable has its type. *)
TypeOK ==
  /\ mem \in Document /\ file \in Document \cup {Torn}
  /\ at \in [Thread -> {"idle", "change", "build", "open", "flush"}]
  /\ cmd \in [Thread -> Command \cup {NoCommand}]
  /\ doc \in [Thread -> Document]
  /\ found \in [Thread -> BOOLEAN] /\ stale \in [Thread -> BOOLEAN]
  /\ mixed \in [Thread -> BOOLEAN]
  /\ phase \in {"boot", "parse", "loading", "running"}
  /\ todo \in Seq(SetCommand)
  /\ undefined \in BOOLEAN /\ overlap \in BOOLEAN
  /\ cmds \in 0..MaxCmd /\ crashes \in 0..MaxCrash
  /\ acked \in SUBSET (Kind \X Name) /\ claim \in SUBSET Client
  /\ damaged \in BOOLEAN

(* Although nothing locks the lists, a name is in a list twice only after  *)
(* two threads, load_config's among them, were at once to set one name, or *)
(* after a deletion or a replacement in the list made another thread's     *)
(* search pass by a name that is there: a deletion would then bring the    *)
(* other value to light.                                                   *)
NamesUnique == ~overlap => \A k \in Kind : Unique(mem[k])

(* Until then, a command takes effect once, as a whole, on its own key and *)
(* on no other, and keys come and go otherwise only when the daemon starts *)
(* or ends: the lists are a map. A deletion that finds nothing, and a      *)
(* look at an entry, ask for nothing. (Two threads that are in a queue at  *)
(* the same moment tear it; what follows is undefined.)                    *)
Asking == {t \in Thread :
             at[t] = "change" /\ (cmd[t].op = "set" \/ (cmd[t].op = "del" /\ found[t]))}
Request(t) == [op |-> cmd[t].op, key |-> TheKey(t), val |-> cmd[t].val]
Map == INSTANCE NameMap WITH
         Worker <- Thread, List <- Kind, None <- NoVal,
         map <- [x \in Kind \X Name |-> Lookup(mem[x[1]], x[2], NoVal)],
         asked <- {<<t, Request(t)>> : t \in Asking},
         broken <- overlap
ImplementsMap == Map!Spec

(* When no command is under way and nothing endangered it, the file has    *)
(* the scenes' names and the channels with their numbers: no command that  *)
(* changes them forgets to save, and a save never writes an older state.   *)
(* What endangers it is said below.                                        *)
(* (After an overlap a restart throws the second entry of a name away, as  *)
(* the first start does with a file that has a name twice.)                *)
StoredWhenQuiet ==
  (~damaged /\ ~undefined /\ phase = "running" /\ \A t \in Thread : at[t] = "idle") =>
    /\ file # Torn
    /\ \A k \in Kind : Names(file[k]) = Names(mem[k])
    /\ ~overlap /\ Unique(file["channel"]) => file["channel"] = mem["channel"]

(* A name that a client added, and was told so, is there after any number  *)
(* of restarts, unless two saves overlapped, a save passed by entries as   *)
(* another thread deleted or replaced one, a command came, or the daemon   *)
(* was killed, while it loaded the file, or it was killed as it wrote the  *)
(* file, or two threads tore a list.                                       *)
KeptAcrossRestarts ==
  (~damaged /\ ~undefined /\ phase = "running") =>
    \A x \in acked : x[2] \in Names(mem[x[1]])
=============================================================================
