# A TLA+ verification project for hsbapp_openwrt

This directory holds TLA+ models of the home-automation hub in `src/src`, TLC
configurations that check them on small instances, and TLAPS proofs of their
most important invariants. File references are relative to the repository;
`core_daemon/device.c` stands for `src/src/core_daemon/device.c`.

The repository has no specification. What the code promises is taken from the
code itself, its comments and the two simulators in `misc/`.

## 1. The system

The repository holds three programs. `core_daemon`, in C, keeps the devices of a
house, talks to them through three drivers and serves clients (panels, phones)
over TCP. The hub in `python/` is an older implementation of the same idea, with
one driver for Zigbee and one for infrared devices. The two speech daemons listen
to a microphone through `lib/linuxrec.c` and report to the hub's audio thread.

`core_daemon` is one process of about twenty threads:

| thread | what it runs |
|---|---|
| main | `init_dev_module` (load, drivers, `recover_dev`, probe), then `check_timer_and_delay` about once a second |
| async | `async_process_thread`: a FIFO of requests for devices, one at a time |
| virtual-switch monitor | UDP discovery, time-outs and events of Wi-Fi devices |
| Zigbee monitor | the UART: frames out, answers, discovery, events, time-outs |
| TCP listener | accepts clients, reports every device to a new one |
| up to 5 handlers | one per connected client, from a `GThreadPool` |
| UDP listener | answers box-discovery packets |
| up to 5 scene runs | `scene_handler`, from a second pool |

### Components

| component | code | state | operations | hard because |
|---|---|---|---|---|
| device registry | `device.c` 67-1583 | `queue` (online), `offq` (known, offline), `dev_id`, `driverq`, the infrared links `ir_dev`, the XML file | `dev_online`, `dev_offline`, `dev_removed`, `dev_recovered`, `set_dev_cfg`, `save_config`, `load_config`, `recover_dev` | several threads; searches under the lock and pops outside it; saves with no lock; file rewritten in place; crashes |
| timers | `device.c` 1957-2042, 2228-2410 | timers of each device, `expired`, `active`, `sec_today` | set, delete, the check of every second | midnight is noticed by comparing two readings of the clock; what fired is not saved; clients set timers while the check runs |
| Zigbee transport | `driver_cg_zigbee.c` | `trans_id`, `is_waiting`, `send_buf`, `recv_buf`, a condition variable, the notify socket | three kinds of request, probe, the monitor loop | late, lost and repeated answers; one buffer for requests and probes; lock held over a blocking send |
| clients | `network.c` 1057-1338 | ten contexts, a queue and a datagram socket each, the handler pool | accept, handle, reply, `notify_resp`, `report_all_device` | contexts are used again; unlocked pop; full sockets; clients that do not read |
| async thread | `device.c` 1725-1909, `lib/thread_utils.c` | its FIFO | set/get status, action, probe | serves all clients, waits for devices |
| virtual-switch driver | `driver_virtual_switch.c` | its device table | `_register_device`, `_remove_timeout_dev`, transactions | `_register_device` in three threads |
| infrared driver | `driver_ir.c` | status of each appliance | add, delete, recover, set status through a remote | depends on another device being online |
| scenes | `scene.c` | the list of scenes, running copies | add, delete, enter, run | runs overlap; conditions read a cache |
| channels | `channel.c` | a list of named channels per device | set, delete, get | its mutex is never taken |
| linkages | `device.c` 1585-1651 | linkages of each device | `check_linkage` on sensor, key and online events | they run in whichever thread saw the event, over unlocked state |
| hub devices | `python/hsb_manager.py`, `hsb_config.py`, `hsb_driver.py`, `drv_orange.py` | `devices` by id and by address, the configuration by string and by integer keys, `devices.json`, `first_devid` | join, rejoin, keepalive, time-out, set, add and delete infrared devices, start | a second implementation of the registry, with other rules; an uncaught exception ends its only thread |
| hub threads | `python/hsb_network.py`, `hsb_manager.py`, `phy_zigbee.py`, `hsb_audio.py`, `hsbapp.py` | five kinds of queue, sockets, `inputs` and `outputs` of select | accept, read, write, notify, exit | queues between four threads; commands cut by `recv`; clients that leave in the middle of a round; threads that die of an exception |
| speech daemons | `asr_daemon/`, `awaken_daemon/`, `lib/linuxrec.c`, `python/hsb_audio.py` | `asrr` / `ivwr`, `working`, the recorder, the PCM | start, stop, audio, results, errors | three threads and no lock; a thread that closes itself |

Interaction: client handlers, scenes, timers and linkages put requests into the
async FIFO; the async thread calls a driver, which answers through the Zigbee
monitor or a TCP transaction; the answer, and every event of a driver, goes
through `notify_resp` into the queue of one context or of all of them, with a
datagram that wakes the handler, which writes to the client. Drivers call
`dev_online` and `dev_offline` from their own threads. The network is up before
the configuration is loaded (`core_daemon.c:52`, `58`), so a client's command may
come before the load and in the middle of it.

What makes each component correct is stated in the modules ("Properties" at the
end of each) and, with the line where it could go wrong, in the hazards list of
`PROJECT.json`.

## 2. Modules

| module | models | abstract counterpart |
|---|---|---|
| `DeviceRegistry` | the registry, its file, links, recovery, deaths; one action per handler | |
| `RegistryThreads` | the same queues, with each handler cut into the steps between which other threads run | its properties repeat, for single steps, what `DeviceRegistry` assumes |
| `DeviceTimer` | set, delete and the check of timers against a clock | |
| `CzTransport` | the request channel to the Zigbee monitor | |
| `ClientPool` | contexts, handler threads, queues of responses | |
| `NamedList` | the lists of `scene.c` and `channel.c` as operators | |
| `ConfigStore` | scenes and channels in memory and in the file, edited by several threads | `NameMap` |
| `NameMap` | what such a store promises: a map on which requests take effect once, as a whole | |
| `Automation` | scene runs, linkages, the async FIFO, virtual-switch requests and packets, what the hub remembers, the work mode | |
| `Infrared` | what the infrared driver does with a status of an appliance; part of `Automation` | |
| `HubDevices` | devices, ids, configuration and file of the Python hub; one action per handler of its manager | |
| `HubNetwork` | the threads of the Python hub and the queues between them | |
| `Speech` | a speech daemon, its recorder and the hub's audio thread | |
| `Queues` | the search of a queue (`Sift`), which `Automation` and `HubNetwork` use | |
| `QueueFacts` | lemmas about sequences | |
| `*Proofs` | theorems: `ThreadsProofs` about `RegistryThreads` and `CzTransport`, `TimerAndSpeechProofs` about `DeviceTimer` and `Speech`, `HubProofs` about `HubDevices` and `HubNetwork`, the others about the module of their name | |
| `MC*`, `*.cfg` | small instances for TLC | |

A name in `PROJECT.json` under "map" leads from each definition to the lines it
stands for. Modules that share a proof module have no name in common: in
`CzTransport` the initial states, steps and specification are `CzInit`, `CzNext`
and `CzSpec`, in `Speech` `SpInit`, `SpNext` and `SpSpec`, in `HubNetwork`
`NetInit`, `NetNext` and `NetSpec`. `Sift` in `Queues` and `Grouped` in
`Automation` are written out as recursive functions because the prover does not
look into `SelectSeq` and `FoldLeft`.
Definitions marked *Faulty* are not used by the models: each is a plausible
mistake in the definition below it, and shows that a property notices.

Variables and code:

- **DeviceRegistry**: `queue`, `offq`, `dev_id`, `drivers` are the fields of
  `gl_dev_cb`; `dev` holds the part of `HSB_DEV_T` that the handlers look at
  (MAC, location, state, `ir_dev`); `file` is the XML file as a sequence of
  records; `boot` and `rid` are where `init_dev_module` and `recover_dev` are.
  All infrared devices have the zero MAC; the model knows them apart
  (`Appliance`, `owner`), the code does not.
  `Register` is `dev_online` as a driver calls it (`NewDevice`, `Return`),
  `AddIr` as `ir_add_dev` calls it; `DevOffline`, `DevRemoved`, `SetDevCfg`,
  `LoadConfig`, `RecoverStep` bear the names of their functions. Each includes
  the relinking and the save at its end. `SetScene` is a client's command that
  saves and touches no device, also before the load; `LoadConfig` may be saved
  in its middle, with the devices read so far. `Crash`, `CrashSaving` and
  `CrashUnsaved` end the process between handlers, while the file is being
  rewritten, and between the announcement of a device and its save.
- **RegistryThreads**: `th[t]` is the program counter and the local variables of
  a thread. `FindOffline`, `Alloc`, `PopNth`, `Push`, `List` are the pieces of
  `dev_online` and of `_register_device`; `StartSave` to `CloseFile` those of
  `save_config`, which visits a queue by position with `g_queue_peek_nth`.
- **CzTransport**: requests are counted, so `trans_id` is `seq % Wrap`.
  `StartRequest` to `FinishRequest` is `sample_set_status` and its two sisters,
  `Mon*` the monitor's loop, `Probe*` is `cz_probe`. `MonCheck` compares the
  numbers without the lock, `MonStore` has it.
- **ClientPool**: `using`, `conn`, `queue`, `notes` are the fields of a context
  (the datagrams in its socket are counted). `HandlerStep` is one piece of
  `tcp_client_handler`, `NotifyStep` one of `notify_resp`, which the async
  thread, a driver, the listener and the handlers themselves run. `ReadRequest`
  hands a request to the async thread; `ReadNow`, `Lookup` and `Reply` are a
  command that the handler answers itself, past the queue.
- **DeviceTimer**: `CheckDevice` is one call of `_check_dev_timer_and_delay`,
  with its midnight part, up to the request that it makes, and `MarkExpired` the
  mark behind that; `sec_today` is overwritten for each device. `SetTimer`,
  `ClearStatus` and `SaveTimer` are `set_dev_timer` (and, with `None`,
  `del_dev_timer`) in a client's thread.
- **ConfigStore**: a command is a search (`SceneCommand`, `ChannelCommand`), an
  edit (`Change`) and, for those that save, `Build`, `Open` (which empties the
  file) and `Flush`. The walks of search and copy go by place: an edit may make
  other threads' searches pass by what they look for (`Misses`), and `Build` may
  pass by an entry if another was freed meanwhile. `UseStale` is an access to
  what was freed, or a change of a queue that another thread is in.
- **Automation**: `Start`, `Check`, `Sleep`, `Push` and `EndScene` are the body of
  `scene_handler` in a thread of the pool; `Take*` begins a request of the FIFO
  in the async thread, `DeviceApplies`, `Refused`, `Answered` and `AnswerLost`
  are how a virtual-switch request goes on, `StatusChanged`, `SensorEvent` and
  `ModeKey` what the monitor does with a packet. `Announce` and
  `MonitorAnnounce` tell the clients the mode, a step after it was set.
- **HubDevices**: `table` is `hsb_manager.devices` and `drv` is
  `drv_orange.devices`; the object of a device is its entry in `drv`, and `table`
  points at it. `hsb_config.devices` is one dict with two kinds of key: `old` are
  the records that came from the file, `new` those that `save_devices` made, and
  `live` says which of these share their `attrs` with the object - and their
  channels, if there were any when the record was made (`Shared`). `Rejoin`,
  `NewDevice` and `Ignored` are `on_discover_resp` with everything it calls;
  `Tick` is the manager's second of idleness. `Update`, `ReplyToSet`, `Midnight`
  and `AddIrWithValue` are the calls that raise an exception (`Dies`); it is the
  manager's thread that ends, until `Restart`.
- **HubNetwork**: `inq`, `outq`, `dataq`, `cliq` and `phyq` are the queues of the
  same name; `rd` and `wr` are what `select` returned and the round has not come
  to yet, so that a client can leave in between; `notes`, `phynotes` and `told`
  count datagrams. `Receive` is one `recv`, which may take several commands and
  cut the last one; `torn` says that the rest of one is still there. `main` is
  how far `hsbapp`'s main thread is in ending the network, the audio thread, the
  manager and the line.
- **Speech**: `state` and `session` are fields of `asrr`, `rec` is the state of
  the recorder it points at, `hdl` whether its PCM is open. `Halt` to `Free` are
  `asr_stop_listening`, `asr_uninit`, `close_recorder` and `destroy_recorder`,
  cut where other threads run; `main`, the record thread or the library's thread
  runs them (`Undo`). A recorder that could not be opened (`CREATED`) cannot be
  asked whether it has stopped (`Answers`). `faults` notes which calls failed
  since the last start.

## 3. What the runs check

`tlc -workers 2 -config X.cfg MCY.tla`; every run ends within five minutes.

| run | question | answer |
|---|---|---|
| `registry` | do ids survive deaths, is the file current, does recovery end, do infrared links lead to a remote that is there? | ids stay unique and with their devices (a device whose announcement outran its save excepted, and appliances added before `recover_dev` came to one that waits); the file is current, unless a client saved in the middle of the load; recovery ends unless it spins on a device whose driver did not load (`Stuck`) or the daemon dies; links are right, with a Wi-Fi and a Zigbee remote, for devices in one room and in none |
| `threads` | which overlaps of handlers keep what the registry assumes? | all in which no thread uses a position in `offq` after another one took a device out at or before it (`mixed`), and for the file those in which no two threads write at once (`clash`); two threads may register one MAC at once (`doubled`) |
| `timer` | does a timer fire on its day, and once? | yes, if the loop comes round in time and the device is there before midnight (one that comes after it may be too late for the first seconds of the day); a restart in its window makes it fire again, and so does a client's thread that has copied the timer before it fires and clears its status after that |
| `cz_transport` | whose answer does a request get, is its frame tried, and does it end? | its own, or that of a request the monitor had checked while it ended (`overtaken`); it ends unless the socket is full while the monitor waits for the lock |
| `client_order` | is an answer lost, doubled, delayed for ever, out of order, misdirected? | lost only through the unlocked pop, or to a client that reads nothing for a second (`lost`); overtaken only by replies that the handler gives at once; misdirected only to the next user of a context |
| `client_live` | does a thread that notifies a client get on? | yes, unless that client's socket is full and nobody is going to read it (`NotRead`): its handler has no thread yet, waits for its client to read, for the device lock or for room in a socket |
| `config_store` | do the unlocked lists behave as a map, and does the file follow? | yes, until two threads are at once to set one name or one makes another's search pass by a name, and unless saves overlap or pass by entries; two threads in a queue at the same moment tear it, which is undefined |
| `automation` | is what the hub remembers, and the mode that clients were told, right; do scenes ask for what they say, when they say it, and end? | yes, but for lost packets and answers, reports that cross a request, and two threads that set the mode at once |
| `hub_devices` | do ids, tables, settings and deletions of the Python hub last? | ids and tables do, unless the file is cut short; settings are lost, once the device leaves and comes back, if it was read from the file or not saved since it last came back, or if they are its first channels and nothing was saved since; a deleted device stays away only if nothing was saved in between |
| `hub_network` | does every client get its replies, in order, and does the hub end? | yes, as long as nobody leaves, no command is cut by `recv`, and no setting is answered and no midnight comes, which end the manager: a client that leaves with a reply still to come may end the network thread for all; the hub ends, unless the audio thread is dead and its socket full |
| `speech` | what is left of a listening when it is over, does a daemon that works hear, does its main thread come back? | nothing is left, unless the PCM could not be stopped or the record thread closed itself; it hears, or is busy with what it heard, unless one of three faults happened (a read failed or hangs, the thread closed its recorder, a report came before `working`); a hub that takes nothing any more may keep it busy for ever; the main thread always comes back, unless the process dies: of a recorder that could not be opened, or of two threads that undo the listening at once |
| `speech_callback` | is the recorder ever closed from its own callback? | **yes** (finding) |

Many properties have a premise or an exception ("unless", "but for"). They name
what the code does not guard against; without it TLC finds the property
violated. Each exception is a history variable that is set in the one action
where the overlap happens, so that the property says that nothing *else* breaks
the promise.

### Bounds, and why they are enough

- *Registry*: one device per driver with a MAC, two infrared appliances, which
  are named in the order they are added, and three ids: enough for a device that
  goes, one that takes its place, and a third that links to either. One location
  and none, so that devices move into the room and out of it; the proofs are for
  any number. A death and a reload meet every state once.
- *Threads*: the thread that scans, the main thread that recovers, and a client:
  every pair of handlers overlaps. More threads repeat the pairs. States after
  `mixed` are not explored further (`Sound`).
- *Timer*: a day of five seconds keeps the order of the constants (a window of
  2, a midnight of 4, a lag of 2) and leaves room for a timer whose window is
  over before the midnight check can come late; the run begins two seconds before
  a midnight, where everything happens; two devices, since the check of one overwrites
  `sec_today` before that of the next. The one-shot is due at midnight, the dated
  timer a second later, so that both can be late. One client's thread sets and
  deletes: it is against the check that it races.
- *Transport*: three requests with a wrap of three reach number 0 and an answer
  two requests late; a socket of two datagrams fills up.
- *Clients*: three connections for two contexts and one thread (one context is
  used twice, one client waits); a socket of one datagram blocks at once; two
  requests, of which the second may be one that is answered at once. For the
  liveness two connections, one request, one event and one online device: each
  kind of sender meets a socket that is full, and one thread of the pool leaves
  the second client without one.
- *Store*: two clients and the loading thread, two names, two values, two
  commands and one kill: an edit between another's search and its edit, and a
  kill between any two steps.
- *Automation*: two devices with one value each, a scene with two actions on
  both devices and one with a condition, a delay and the work mode; three runs on
  two threads, so that two overlap and the third waits for a full pool. `Wanted`
  says which scenes may be entered first, second and third; when is open. One loss
  and one thing done by hand or absence at any moment, which with the runs are
  three in all (`MaxAll`). One of each already meets every step of a request.
- *Hub devices*: two devices on two addresses, so that one can come back where
  the other was; two commands, of which the second can meet what the first left;
  a restart reads what the first life wrote. Devices are interchangeable and so
  are addresses (symmetry; the run checks invariants only).
- *Hub network*: one client that leaves and one that stays; two pieces of work
  are enough for an event between a command and its reply, for a command that is
  cut in front of another, and for a death of the manager or of the audio thread
  next to a command or a full socket; a socket of one datagram makes every
  notification one that can block. Nothing new is begun once the user ends the
  hub.
- *Speech*: a socket of one datagram to the hub fills up; four commands are a
  start, a stop and both again; both daemons are in one run.

Runs switch deadlock detection off because the bounds themselves stop a model
(no requests, ids or commands are left) and, in `ConfigStore`, because the model
stops where C gives the program no meaning. Blocking that matters is stated as
liveness instead (`RequestEnds`, `SendEnds`, `RecoveryEnds`, `ScenesEnd`).

### Fairness

- `RecoveryEnds`: the main thread's loop in `recover_dev` goes on.
- `RequestEnds`: the async thread and the monitor keep running and the deadline
  of `pthread_cond_timedwait` comes. Nothing is assumed of devices: no answer
  needs to arrive. A thread that waits for the lock or for room in a socket is
  not helped (its step is disabled).
- `SendEnds`: threads keep running, but for a handler that writes to its client:
  the TCP socket is blocking (`network.c:1195`) and nothing makes a client read.
  (A reply that a handler gives at once waits for a second only.) The handler's
  look at its socket has strong fairness, as `select` reports that socket each time the handler comes to it,
  although a client that keeps sending gives it other things to do in between.
- `ScenesEnd`: while a thread of the pool or the async thread can go on, one of
  them does. That is weaker than fairness of each of them, and enough, since a
  scene has finitely many steps and its requests finitely many. The wait for a
  device ends after three seconds, answered or not. Not assumed is that the async
  thread gets on with telling clients something, since `notify_resp` may wait for
  room for ever (`SendEnds`): scenes end all the same, and requests too unless it
  stays there.
- `EveryoneAnswered`, `ExitEnds`: each of the hub's threads gets on with what it
  can do. A thread that waits in `un_send` for room is not helped. Nothing makes
  a client send, leave, a handler of the manager raise, or the user end the hub.
  Clients read what they are sent.
- `StopEnds`: the daemon's threads get on, and a cancelled thread is cancelled at
  its next cancellation point; the calls of the library and of ALSA return,
  except the read of audio, which may hang. The hub's audio thread reads while it
  lives, and it may die.

Invariants do not depend on fairness; runs with no liveness property state none.

## 4. What is proved

TLAPS checks these for all values of the constants that satisfy the `ASSUME` of
the module: bounds are natural numbers, the sets of MACs are disjoint, and names
that stand for "no connection", "no address" or "a file cut short" are not those
of a connection, an address or a document. Scenes, their actions and linkages are
lists, and the delay of an action is a natural number (`scene.h` has `uint32_t`).
Of the constants of the timers the assumptions say
`Lag <= Window` and `Lag < Midnight < DayLen`: checks come often enough to meet a
window, which is what the hub relies on.

| theorem | says |
|---|---|
| `TypeCorrect`, `IdsUnique` (DeviceRegistryProofs) | types; ids unique in the queues and in the file, and below the counter |
| `LinksAreSound`, `LinksAreComplete` | device flags agree with the queues; links lead to remotes that are online; a device with a remote in its room has one |
| `FileIsCurrent`, `IdsKeepTheirOwner` | the file describes every registered device, unless a client saved in the middle of the load; an announced id stays with its device, but for an appliance added while one waits for `recover_dev` |
| `RecoveryIsComplete` | no infrared device is left offline after start-up, unless the scan was disturbed |
| `OnceProved`, `OnePerMacProved`, `FileProved` (ThreadsProofs) | a device is in one queue, once; the Wi-Fi driver has an address once; a saved file has every device that was registered all the time |
| `TransportTypes`, `AnswersMatch`, `FramesAreTried` | types; whose answer a request reads; its frame was tried |
| `StrangersAreGone` (ClientPoolProofs) | who receives another's response receives it because that one is gone |
| `WakeupsArrive` | no handler sleeps on a response for its client |
| `AnswersAreKept`, `AnswersAreInOrder` | answers are lost by the unlocked pop only, or to a client that does not read; they arrive in order, but for replies given at once |
| `StoreTypes`, `StoreNamesUnique`, `StoreImplementsMap` (ConfigStoreProofs) | types; names unique; `Spec => Map!Spec`: both until two threads are at once to set one name, or one makes another's search pass by a name |
| `NamesSurvive`, `QuietIsStored` | a name that was acknowledged is there after restarts; when no command is under way the file has all there is: both unless two saves overlapped, one passed by entries, a save or a load was cut short, or a list was torn |
| `FiresOnceADay`, `MidnightIsNoticed`, `ArmedTimersFire` (TimerAndSpeechProofs) | a timer fires once a day, but for a restart or a mark that was cleared; the new day is noticed; an armed timer fires in time |
| `NothingIsLeft`, `WorkingHears`, `NoLateWrites` | nothing is left of a listening that is over; a daemon that works hears or is busy, but for the three faults; nothing is written to a session that has ended, except while another thread waits |
| `WhatIsRemembered`, `ModeIsAnnounced` (AutomationProofs) | the hub remembers what a device or an appliance does, up to the exceptions of section 3; clients were told the current work mode, unless two threads set it at once |
| `ScenesRunAsWritten` | a run asks for what its executed actions say, each once and in order, and sleeps as long as their longest delay |
| `TablesStayTogether`, `HubIdsKeepTheirOwner`, `DeletedStayAway`, `SettingsAreKept` (HubProofs) | the two tables of the Python hub agree; ids keep their device; what was deleted and what was set lasts, up to the exceptions of section 3 |
| `HubQueuesKeepOrder`, `HubLosesNoReply` | replies, events and frames keep their order through the queues of the Python hub; a command that `recv` did not cut is in one place until it is answered |

- **IdInv** = types, `UniqueIds`, `FileIdsUnique`, and "the queues are empty
  before the load". `UniqueIds` alone is not inductive: a reload makes queues
  out of the file, so the file's ids have to be unique too, and the load may not
  run over a queue with something in it. The counter passes every id because
  `NextFree` is past all ids of the records that are kept. On top, **LinkInv**
  adds that flag and queue agree, since `update_link` asks the flag and
  `link_device` the queue. The lemmas `LinkDeviceProps`, `UpdateLinkProps`,
  `RelinkProps`, `UnlinkProps` say what these functions do to links; the proof
  of a step then has one lemma per handler. **FullInv** adds `LinkComplete`: where
  `Relink` gave a device no remote, its room had none.
- **FileInv** adds to `FileCurrent` (`FileAgrees`) that an id which was announced
  and is not forgotten belongs to a registered device, of which the code knows no
  more than the MAC (before the load: to one in the file; `OwnersKnown`). That
  is why a new id cannot be one a client knows. What a save in the middle of the
  load left out (`LeftOut`) is forgotten if the daemon dies before the next one.
  Most handlers either save all
  (`SavedHoldsAll`) or leave registered devices as they are (`UnsavedStep`).
- **RecInv**: the devices of `offq` that `recover_dev` has passed are not
  infrared ones. Every handler that takes a device out of `offq` under the scan
  sets `shifted`; those that append cannot disturb it.
- **PlaceInv** accounts for every device of the queues: in one of them, once, in
  the hands of one thread that popped or made it, or deleted; and a position in
  `offq` that a thread took down, and that is not stale, is still that of its
  device. It holds until `mixed` says that a stale position was used. **MacInv**
  says the same of the driver's table: each entry has one holder, in the table or
  about to enter it. **WriteInv** follows a save: what it is still to read of the
  queues, and what it has read, covers every device but the late ones; between
  saves, what the file lacks is late or about to be saved. A move of a device
  from `offq` to `queue` behind the reader is what makes it late. Two saves at
  once (`clash`) are excepted, since the second one empties the file of the first.
- **AnswerInv** adds to the property what connects the monitor with the
  request: what it has in its hands is an answer (of a request made before),
  and, past the unlocked check, it is the one of the current request or
  `overtaken`. `NumbersDiffer` says that two requests within one wrap have
  different numbers, for which `MaxReq <= Wrap` is needed: after 2^16 requests
  numbers repeat, and an answer that late would be believed. **FrameInv** says
  where the frame of a waiting request is if it was not tried: in the buffer,
  with the monitor told or writing it; the lock keeps probes from the buffer
  until the datagram is sent.
- **PoolInv** holds the types, that a connection has one context and that the
  pool's queue holds each context once. **MailInv** adds that every response
  in a queue, in a handler's hands or on its way is for the connection of its
  context, or for one that is gone (`Addressed`; `AddressedKept` shows that no
  step makes it false for a response that stays where it is); a reply that a
  handler gives itself is always for the connection it serves. From it follow
  **AwakeInv** (a response that is due has a datagram or a thread about to send
  one) and **LostInv** (where each answer is). **OrderInv** says that the
  responses for one client stand in line: those received, then the one in the
  handler's hands, the queue, what the async thread carries, and its FIFO
  (`Line`; each lemma about it is one way in which a response moves up). A reply
  that is given at once has no place in that line, which is why the property
  excepts it.
- **IInv** of the store adds to types and unique names that there are no
  channels before the device is known, that a thread with a command is busy,
  and that a search that found (or did not find) its name still agrees with the
  list unless it is marked stale or an overlap was noted; a search that was made
  to pass by its name is an overlap too. This is what makes the
  edit of a thread, done on an old search result, the edit of the map (or, for an
  edit that made another's search miss, one that `NameMap` calls `Meet`). The
  refinement mapping reads a list by its first entry of a name; `StepInv` shows
  that each step is one of `NameMap` or leaves the map as it is.
- **KeptInv** follows an acknowledged name through the file: until the device is
  known the file has it; while the loader runs, it is in memory or still to be
  loaded; later it is in memory, and in the file and in every document that a
  thread is going to write. `OneWriter` is what makes the last part inductive: a
  document that was built before another thread's edit is only written if
  `damaged` is set, and so is one that lacks an entry that its walk passed by.
- **StoredInv** (on top of **KeptInv**, whose `OneWriter` it needs) says where the
  current state is on its way to the file. Of the threads that save, the last
  one to take its document has the current one or is still to take it
  (`Caught`): a thread that edits after another took its document goes on to
  take its own, so an older document is never the last that is written, unless
  two writes overlap. While `load_config` runs, the file is what was loaded plus
  what is ahead in its list (`HalfLoaded`), and once the device is known a list
  without scenes is only right if a scene is still to come, whose `add_scene`
  saves (`SceneAhead`).
- **TimerInv** connects the readings of the clock. `CheckedOften`: the last
  check of any device, whose time `sec_today` has, was not longer ago than that
  of a device that is online, and before midnight if midnight was not noticed
  yet. So the next check of such a device notices it (`MidnightSeen`), and once
  it is noticed no check takes the time to have gone back again (`Noticed`), so
  that what has fired stays expired (`FiredOnce`): from the mark on, which is
  the next thing the main thread does, and unless a client's thread is between its
  copy and its clearing, or has cleared. `ArmedWaits`: an armed timer
  is not expired and its time was not reached by the last check, so that one
  of the next checks is in its window.
- **HubInv** relates the two tables, the two halves of the configuration and the
  file: `Registered` says that file and configuration have the same ids with the
  same devices, `Known` that objects and announced ids are in the file. On top,
  `buried` ids are not in the file (**BuriedInv**), and all copies of the
  settings of a device that is not `dirty` are those set last (**SettledInv**).
- **SpeechInv** has one part for what each thread of a speech daemon takes for
  granted of the others. `Roles`: who may undo a listening when; `Threads`: the
  record thread runs only for an opened recorder, or while another thread waits
  for it; `Pcm`, `Sessions`: an open PCM or session has somebody who will close it;
  `Recording`, `Writing`: audio goes to an open session; `Hearing`: the property,
  from before `working` is set. `IdleIsClean` alone is not inductive because it
  says nothing while the main thread is busy. Nothing is said of a dead process,
  which is what becomes of one that closes a recorder it could not open.
  TLC checked that every step from a state with the invariant keeps it.
- **StoreInv** follows a value on its way between a device and the cache: in a
  packet, of which the last one about a value has the real one (`LastIsRight`);
  with a device that has done what it was told (`AppliedHolds`); in a frame, as
  `gree_set_status` made it of the request (`FrameHolds`); on the screen of the
  set-top box (`PressedHolds`).
- **RunInv** follows a run. Each has a number of its own (`RunsApart`), and one
  that waits for a thread has done nothing (`NothingYet`). `Course` says of one
  that goes on: it slept as long as the longest delay of what it executed, and
  what the async thread took of it, what waits in the FIFO and what it has still
  to push make up, in this order, what these actions ask for (`Asked`). Requests
  move along that line and never past each other (`TakesPass`, `PushStep`);
  those of linkages and of other runs are not in it (`LinksPass`, `Bystanders`).
  `Grouped` is the loop of `execute_action`, `Asks` what it should come to; that
  they agree for every list of acts (`GroupedIsAsked`), and what `Sift` and
  `FlattenSeq` make of a queue that grows by one (`SiftAppend`, `SiftConcat`,
  `FlattenAppend`), cannot be proved with the library's induction theorems. It is
  proved by least counterexample instead (`LeastNat`, from the well-foundedness
  of `<`): the shortest list that they disagree on is not empty, and without its
  last element they agree. TLC checked `RunInv` on the instance of the run.
- **ModeInv** says where the difference between `mode` and `announced` may be:
  with the async thread or with the monitor, one of them only.
- **NetInv**. `InOrder` speaks of the last queues only, so **FlowInv** speaks of
  all eight that the items for a client pass (`Stages`): each is in order, and
  each is older than those behind it (`Flows`). Two items are compared if they are
  of one client and one kind, or if the later one is a command that is not dealt
  with. The manager puts an answer behind commands that came later; that these are
  younger is `DealtFirst`. `StagesInv` also says what each item stands for
  (`StandsFor`), so that a new command or event is younger than all there is. A
  step adds an item (`AddOne`), moves some (`MoveSome`) or loses some
  (`LoseSome`). **ClientsInv** is about the lists of the network thread: a client
  is in them once, is forgotten only if it left, and is in the list while a
  command of it is on its way; without that a reply would be dropped.
  `NoReplyLost` then is inductive: each step keeps the number of places
  (`CountBoth`, `CountPush`, `CountPop`, `CountSift`).

Lemmas about sequences (what `RemoveAt`, `Append` and a first match do to
elements and to injectivity) are in `QueueFacts`;
those about lists of names stand at the head of `ConfigStoreProofs`.

Every safety property that a run checks is proved, but for the one of
`speech_callback`, which is violated. Only model-checked: liveness
(`RecoveryEnds`, `RequestEnds`, `SendEnds`, `ScenesEnd`, `EveryoneAnswered`,
`ExitEnds`, `StopEnds`), which, like all that is about `ENABLED`, is out of the
prover's reach.

## 5. Abstractions, and what is not modelled

- **DeviceRegistry** takes handlers as atomic, which they are not;
  `RegistryThreads` says when that is justified; the load of the file is one
  step, with the save of a client in its middle. A file that was cut short has
  no devices. Device types other than "is a remote" do not matter here.
- **RegistryThreads** leaves links, locations and restarts out.
- **CzTransport**: what an answer says decides only the result of a request.
  Numbers are not used twice (`MaxReq <= Wrap`): an answer that is 2^16 requests
  late would be believed.
- **ClientPool**: whether a client reads is its own affair, so a write to it may
  last for ever; whether its reply is dropped after a second is left open. Events
  that the async thread reports are those of the driver thread here.
- **DeviceTimer**: one timer per device; timers of a device do not interact. The
  copy of a timer's fields is one step.
  The clock does not go back (no daylight saving time or NTP step). `Lag` is an
  assumption: the loop sleeps for a second and takes less than the rest of a
  window. What the timer does is left out. Delays (`HSB_DELAY_T`) are not
  modelled as nothing in the code sets `started`, so they never run.
- **ConfigStore**: use of an entry that was freed or moved is undefined; the
  model goes to `undefined` and stops; so it does when two threads change the links
  of a queue, or one walks it, at the same moment. A search is what it finds at
  first, until an edit makes it miss; the copy that `save_config` takes is one
  step, in which it may pass by one entry if another was freed since the thread's
  own edit (an entry that came meanwhile is in the copy or not in the same way as
  if the copy were taken before or after it, and whoever added it saves, too).
  Listings (GET_SCENE, GET_CHANNEL) change nothing and are left out. One device has
  channels.
- **Automation**: packets of one device are lost but not reordered; values that
  a device reports when it registers are the real ones; `check_linkage` puts
  its requests into the FIFO in one step; conditions name values that the
  device has; of time only the seconds that a scene sleeps are kept; requests
  of clients are in `ClientPool`.
- A **virtual-switch** request is the one for `set_status`. `get_status` and
  `set_action` change nothing that the models have.
- **HubDevices**: handlers are atomic because one thread runs them all. The name and the
  location of a device are one value (`attrs`), and its channels another, which is
  never taken back to none, as in the code; the values of its
  endpoints are left out. `set_ob` of a device that rejoins sends its values to
  the device, and the answer to that raises an exception: `ReplyToSet` may happen
  at any time to a device that is known. An infrared device looks for its remote
  each time it sends, so no link is kept. That a file is cut short is modelled at
  the save of `add_devices` and `on_discover_resp`, the ones that write it.
- **HubNetwork**: frames that come in over the line are events of the manager.
  What `recv` leaves of a command that it cut is read in one piece by the next
  one. An exception in the network thread closes its sockets, since they are its
  local variables; that of the audio thread is an attribute of an object and stays
  open. What the manager is told of a setting's answer and of midnight is only
  whether it dies of it.
- **Speech**: the vendor library and ALSA may refuse any call at any time, and
  nothing is said about what they do otherwise. Use of a freed recorder is
  undefined, and ALSA does not survive being asked for the state of a PCM that is
  not there: the process is dead. Grammars, their upload and the dialogue of
  `hsb_audio` after a result are left out. Names that do not agree - the daemon
  says `awaken result=`, the hub expects `awaken_result=` - are modelled as what
  they come to: the hub does not react.
- Not modelled: packing and parsing of packets, box discovery over UDP, library
  helpers, pid file and signals, simulators and experiments; of the Python hub
  its scenes, timers and linkages.

## 6. Plan

The order follows what matters most: identity of devices, then requests and
answers, then what clients see, then configuration and automation.

1. *Done*: `DeviceRegistry`, `RegistryThreads`, `CzTransport`, `ClientPool`,
   `DeviceTimer`, `ConfigStore` with `NameMap`, `Automation`, `HubDevices`,
   `HubNetwork`, `Speech`; proofs as listed in section 4.
2. *Extend the model*: setting and deleting linkages, several timers of one
   device (setting by number, commands of clients) in the store; `get_status`
   and the status tables of the drivers, with the Zigbee driver's status
   messages; the infrared driver's appliance state and its partial failures; the
   scenes and timers of the Python hub. An abstract request service (asked,
   answered or timed out, in order) for `CzTransport` and `ClientPool` to
   implement.
3. *Prove more*: every safety property that holds is proved. The extensions of
   point 2 bring new ones; `RunInv` is where the clients' own requests, in the
   same FIFO, would be added.

## 7. Findings

- `asr_daemon/asr_daemon.c:314` and `awaken_daemon/awaken_daemon.c:55` close the
  recorder in the record thread's own callback, which `include/linuxrec.h:88`
  forbids (`speech_callback`). The thread cancels and joins itself and ends
  there: the PCM stays open, and `working` stays true, so that starts are ignored -
  by the awaken daemon, which knows no stop, for ever (`IdleIsClean`,
  `DeafOnlyAfterFault` name the case).

Other things the models make explicit, as exceptions in properties or as
hazards in `PROJECT.json`: `recover_dev` spins for ever if a driver is missing;
`save_config` and `hsb_config.save` rewrite their file in place; the unlocked
pops of `offq` and of a context's queue, and the unlocked walks of the lists of
scenes and channels; clients that are served before the configuration is loaded;
the zero MAC of all infrared devices; the status of a timer that is cleared behind
its copy; a handler's write to a client that does not read; a recorder that could
not be opened and is closed all the same; the responses that stay in the queue of
a context when its client leaves (`network.c:1129`, "TODO: clean queue"); a timer
that was used up and comes back at midnight, since `active`, which a one-shot
clears (`device.c:2354`), is not looked at there; request number 0 of the Zigbee
driver, which the monitor takes for a frame that nobody asked for; and, in the
Python hub, the calls that end the manager's thread (`drv_orange.py:196`, `232`,
`hsb_timer.py:126`) or the network thread (`hsb_network.py:186`).
