----------------------------- MODULE HubProofs -----------------------------
(***************************************************************************)
(* Proofs about the Python hub: about HubDevices, for any devices,         *)
(* addresses, settings and bounds, and then about HubNetwork, for any      *)
(* clients, sizes of the sockets and amount of work.                       *)
(***************************************************************************)
EXTENDS HubDevices, HubNetwork, QueueFacts, FiniteSetTheorems

(* get_max_devid passes every id of the dict. *)
LEMMA FirstFreePasses ==
  ASSUME NEW f, NEW n \in Nat, DOMAIN f \subseteq 1..n
  PROVE  FirstFree(f) \in Nat \ {0} /\ DOMAIN f \subseteq 1..(FirstFree(f) - 1)
<1>1. CASE DOMAIN f = {}
  BY <1>1 DEF FirstFree
<1>2. CASE DOMAIN f # {}
  <2> DEFINE T == {n - i : i \in DOMAIN f}
  <2>1. PICK x \in T : \A y \in T : x <= y
    <3>1. T \in SUBSET Nat /\ T # {}
      BY <1>2
    <3> HIDE DEF T
    <3> QED BY <3>1, LeastNat
  <2>2. \E k \in DOMAIN f : \A i \in DOMAIN f : i <= k
    <3>1. PICK k \in DOMAIN f : x = n - k
      BY <2>1
    <3>2. \A i \in DOMAIN f : n - k <= n - i /\ i \in Nat
      BY <2>1, <3>1
    <3> QED BY <3>1, <3>2
  <2> DEFINE k == CHOOSE k \in DOMAIN f : \A i \in DOMAIN f : i <= k
  <2>3. k \in DOMAIN f /\ \A i \in DOMAIN f : i <= k
    BY <2>2
  <2>4. FirstFree(f) = 1 + k
    BY <1>2 DEF FirstFree
  <2> HIDE DEF k
  <2> QED BY <2>3, <2>4
<1> QED BY <1>1, <1>2

-----------------------------------------------------------------------------
(* The invariant. *)

Entry == [mac : Mac, id : Nat, attr : Setting, ticks : Nat]
Kind == Mac \cup {Ir}
Record == [who : Kind, attr : Setting]
Book(f) == f \in [DOMAIN f -> Record]

HubTypes ==
  /\ at \in [Mac -> Addr \cup {Off}]
  /\ drv \in [Addr -> Entry \cup {None}]
  /\ table \in [DOMAIN table -> Addr \cup {Ir}]
  /\ Book(old) /\ Book(new) /\ Book(file)
  /\ first \in Nat \ {0}

(* The file has the ids of both parts of the configuration, and the three  *)
(* agree on whose they are; a Zigbee device has one id, and no id has been *)
(* given that the counter has not passed.                                  *)
Registered ==
  /\ DOMAIN file = DOMAIN old \cup DOMAIN new
  /\ \A i \in DOMAIN old : old[i].who = file[i].who
  /\ \A i \in DOMAIN new : new[i].who = file[i].who
  /\ DOMAIN file \subseteq 1..(first - 1)
  /\ \A i, j \in DOMAIN file : file[i].who = file[j].who /\ file[i].who # Ir => i = j

(* The objects in the manager's table, and the ids that were announced,    *)
(* are in the file with the right device.                                  *)
Known ==
  /\ DOMAIN table \subseteq DOMAIN file
  /\ \A i \in DOMAIN table : Who(i) = file[i].who
  /\ DOMAIN owner \subseteq DOMAIN file
  /\ \A i \in DOMAIN owner : owner[i] = file[i].who

HubInv == HubTypes /\ TablesAgree /\ Registered /\ Known

LEMMA HubKeepsOwners == HubInv => IdKeepsOwner
BY DEF HubInv, Known, Registered, IdKeepsOwner

(* None is not the entry of a device. *)
LEMMA NoneIsNoEntry ==
  None \notin Entry /\ None.mac = Ir /\ Ir \notin Mac /\ Ir \notin Addr
BY HubAssumption DEF None, Entry, Ir

(* A device starts with settings. *)
LEMMA PlainIsSetting == Plain \in Setting
BY HubAssumption DEF Plain, Setting

LEMMA HubInvInit == Init => HubInv
<1> SUFFICES ASSUME Init PROVE HubInv
  OBVIOUS
<1>1. /\ old = [i \in 1..Kept |-> [who |-> Ir, attr |-> Plain]]
      /\ file = old /\ new = Empty /\ DOMAIN new = {}
      /\ table = [i \in 1..Kept |-> Ir] /\ owner = table
      /\ DOMAIN file = 1..Kept /\ first = FirstFree(file)
  BY DEF Init, Empty
<1>2. [who |-> Ir, attr |-> Plain] \in Record
  BY PlainIsSetting DEF Record, Kind
<1>3. Book(old) /\ Book(new) /\ Book(file)
  BY <1>1, <1>2 DEF Book
<1>4. first \in Nat \ {0} /\ DOMAIN file \subseteq 1..(first - 1)
  BY <1>1, FirstFreePasses, HubAssumption
<1>5. HubTypes
  BY <1>1, <1>3, <1>4 DEF HubTypes, Init
<1>6. Registered
  BY <1>1, <1>4 DEF Registered
<1>7. Known /\ TablesAgree
  BY <1>1 DEF Known, TablesAgree, Who
<1> QED BY <1>5, <1>6, <1>7 DEF HubInv

(* Nothing is moved, renamed or saved. *)
LEMMA SameObjects ==
  ASSUME HubInv, at' \in [Mac -> Addr \cup {Off}],
         UNCHANGED <<table, old, file, first, owner>>,
         drv' \in [Addr -> Entry \cup {None}],
         \A a \in Addr : /\ drv[a] = None <=> drv'[a] = None
                         /\ drv'[a].mac = drv[a].mac /\ drv'[a].id = drv[a].id,
         Book(new'), DOMAIN new' = DOMAIN new,
         \A i \in DOMAIN new : new'[i].who = new[i].who
  PROVE  HubInv'
<1> USE DEF HubInv
<1>1. HubTypes'
  BY DEF HubTypes, Book
<1>2. \A i \in DOMAIN table : table[i] \in Addr \cup {Ir}
  BY DEF HubTypes
<1>3. \A i \in DOMAIN table : Who(i)' = Who(i)
  BY <1>2 DEF Who
<1>4. TablesAgree'
  BY <1>2 DEF TablesAgree
<1>5. Registered'
  BY DEF Registered
<1>6. Known'
  BY <1>3 DEF Known
<1> QED BY <1>1, <1>4, <1>5, <1>6

(* find_device_by_smac finds a device if, and only if, the file has it.    *)
LEMMA RecordsFound ==
  ASSUME HubInv, NEW m \in Mac
  PROVE  /\ Records(m) = {} => \A i \in DOMAIN file : file[i].who # m
         /\ Records(m) # {} => /\ IdOf(m) \in DOMAIN file /\ file[IdOf(m)].who = m
                               /\ RecordOf(m).attr \in Setting
                               /\ \/ \E i \in DOMAIN old :
                                       old[i].who = m /\ RecordOf(m) = old[i]
                                  \/ \E i \in DOMAIN new :
                                       new[i].who = m /\ RecordOf(m) = new[i]
<1> DEFINE inOld == \E i \in DOMAIN old : old[i].who = m
           inNew == \E i \in DOMAIN new : new[i].who = m
<1>1. Records(m) = {} => ~inOld /\ ~inNew
  <2>1. ASSUME NEW i \in DOMAIN old, old[i].who = m PROVE <<i, old>> \in Records(m)
    BY <2>1 DEF Records
  <2>2. ASSUME NEW i \in DOMAIN new, new[i].who = m PROVE <<i, new>> \in Records(m)
    BY <2>2 DEF Records
  <2> QED BY <2>1, <2>2
<1>2. ASSUME Records(m) # {} PROVE inOld \/ inNew
  <2>1. PICK r \in Records(m) : TRUE
    BY <1>2
  <2>2. \/ \E i \in DOMAIN old : r = <<i, old>>
        \/ \E i \in DOMAIN new : r = <<i, new>>
    BY <2>1 DEF Records
  <2>3. r[2][r[1]].who = m
    BY <2>1 DEF Records
  <2> QED BY <2>2, <2>3
<1>3. ASSUME inOld
      PROVE  IdOf(m) \in DOMAIN old /\ old[IdOf(m)].who = m /\ RecordOf(m) = old[IdOf(m)]
  BY <1>3 DEF IdOf, RecordOf
<1>4. ASSUME ~inOld, inNew
      PROVE  IdOf(m) \in DOMAIN new /\ new[IdOf(m)].who = m /\ RecordOf(m) = new[IdOf(m)]
  BY <1>4 DEF IdOf, RecordOf
<1>5. /\ \A i \in DOMAIN old : old[i] \in Record /\ i \in DOMAIN file
                               /\ old[i].who = file[i].who
      /\ \A i \in DOMAIN new : new[i] \in Record /\ i \in DOMAIN file
                               /\ new[i].who = file[i].who
      /\ DOMAIN file = DOMAIN old \cup DOMAIN new
  BY DEF HubInv, HubTypes, Book, Registered
<1>6. \A r \in Record : r.attr \in Setting
  BY DEF Record
<1>7. Records(m) = {} => \A i \in DOMAIN file : file[i].who # m
  BY <1>1, <1>5
<1> HIDE DEF inOld, inNew
<1>8. ASSUME Records(m) # {}
      PROVE  /\ IdOf(m) \in DOMAIN file /\ file[IdOf(m)].who = m
             /\ RecordOf(m).attr \in Setting
             /\ \/ \E i \in DOMAIN old : old[i].who = m /\ RecordOf(m) = old[i]
                \/ \E i \in DOMAIN new : new[i].who = m /\ RecordOf(m) = new[i]
  <2>1. CASE inOld
    BY <2>1, <1>3, <1>5, <1>6
  <2>2. CASE ~inOld
    BY <2>2, <1>2, <1>4, <1>5, <1>6, <1>8
  <2> QED BY <2>1, <2>2
<1> QED BY <1>7, <1>8

(* An object is put under a free address and an id. *)
LEMMA PutObject ==
  ASSUME HubInv, NEW a \in Addr, drv[a] = None, NEW k \in Nat, NEW e \in Entry,
         e.id = k, drv' = [drv EXCEPT ![a] = e], table' = Put(table, k, a)
  PROVE  /\ drv' \in [Addr -> Entry \cup {None}]
         /\ table' \in [DOMAIN table' -> Addr \cup {Ir}]
         /\ DOMAIN table' = DOMAIN table \cup {k}
         /\ Who(k)' = e.mac /\ Attr(k)' = e.attr
         /\ \A i \in DOMAIN table \ {k} : Who(i)' = Who(i) /\ Attr(i)' = Attr(i)
         /\ TablesAgree'
<1>0. HubTypes /\ TablesAgree
  BY DEF HubInv
<1>1. /\ DOMAIN table' = DOMAIN table \cup {k} /\ table'[k] = a
      /\ \A i \in DOMAIN table \ {k} : table'[i] = table[i]
  <2>1. /\ DOMAIN Put(table, k, a) = DOMAIN table \cup {k} /\ Put(table, k, a)[k] = a
        /\ \A i \in DOMAIN table \ {k} : Put(table, k, a)[i] = table[i]
    BY DEF Put
  <2> QED BY <2>1
<1>2. /\ drv' \in [Addr -> Entry \cup {None}] /\ drv'[a] = e
      /\ \A b \in Addr \ {a} : drv'[b] = drv[b]
  BY <1>0 DEF HubTypes
<1>3. \A i \in DOMAIN table : table[i] \in Addr \cup {Ir} /\ table[i] # a
  BY <1>0, NoneIsNoEntry DEF HubTypes, TablesAgree
<1>4. table' \in [DOMAIN table' -> Addr \cup {Ir}]
  <2>1. table' = [i \in DOMAIN table' |-> table'[i]]
    BY DEF Put
  <2>2. \A i \in DOMAIN table' : table'[i] \in Addr \cup {Ir}
    BY <1>1, <1>3
  <2> QED BY <2>1, <2>2
<1>5. a # Ir /\ e # None
  BY NoneIsNoEntry
<1>6. /\ Who(k)' = e.mac /\ Attr(k)' = e.attr
      /\ \A i \in DOMAIN table \ {k} : Who(i)' = Who(i) /\ Attr(i)' = Attr(i)
  BY <1>1, <1>2, <1>3, <1>5 DEF Who, Attr
<1>7. TablesAgree'
  <2> SUFFICES ASSUME NEW i \in DOMAIN table', table'[i] # Ir
               PROVE  drv'[table'[i]] # None /\ drv'[table'[i]].id = i
    BY DEF TablesAgree
  <2>1. CASE i = k
    BY <2>1, <1>1, <1>2, <1>5
  <2>2. CASE i # k
    BY <2>2, <1>0, <1>1, <1>2, <1>3 DEF TablesAgree
  <2> QED BY <2>1, <2>2
<1> QED BY <1>1, <1>2, <1>4, <1>6, <1>7

LEMMA RejoinInv ==
  ASSUME HubInv, NEW m \in Mac, NEW a \in Addr, Rejoin(m, a)
  PROVE  /\ HubInv'
         /\ \E k \in DOMAIN file :
              /\ DOMAIN table' = DOMAIN table \cup {k}
              /\ Who(k)' = m /\ Attr(k)' = Restored(m)
              /\ \A i \in DOMAIN table \ {k} : Who(i)' = Who(i) /\ Attr(i)' = Attr(i)
<1>0. HubTypes /\ Registered /\ Known
  BY DEF HubInv
<1>1. PICK k \in Nat, v \in Setting :
        /\ k \in DOMAIN file /\ file[k].who = m /\ v = Restored(m)
        /\ drv' = [drv EXCEPT ![a] = [mac |-> m, id |-> k, attr |-> v, ticks |-> 0]]
        /\ table' = Put(table, k, a)
  <2>1. /\ IdOf(m) \in DOMAIN file /\ file[IdOf(m)].who = m /\ RecordOf(m).attr \in Setting
    BY RecordsFound DEF Rejoin
  <2>2. IdOf(m) \in Nat
    BY <1>0, <2>1 DEF Registered, HubTypes
  <2> QED BY <2>1, <2>2 DEF Rejoin, Restored
<1>2. drv[a] = None /\ UNCHANGED <<at, old, new, file, first, owner>>
  BY DEF Rejoin, Free, history
<1> DEFINE e == [mac |-> m, id |-> k, attr |-> v, ticks |-> 0]
<1>3. /\ e \in Entry /\ e.id = k /\ e.mac = m /\ e.attr = v
      /\ drv' = [drv EXCEPT ![a] = e] /\ table' = Put(table, k, a)
  BY <1>1 DEF Entry
<1> HIDE DEF e
<1>4. /\ drv' \in [Addr -> Entry \cup {None}] /\ TablesAgree'
      /\ table' \in [DOMAIN table' -> Addr \cup {Ir}]
      /\ DOMAIN table' = DOMAIN table \cup {k}
      /\ Who(k)' = e.mac /\ Attr(k)' = e.attr
      /\ \A i \in DOMAIN table \ {k} : Who(i)' = Who(i) /\ Attr(i)' = Attr(i)
  BY <1>2, <1>3, PutObject
<1>5. HubTypes' /\ Registered'
  BY <1>0, <1>2, <1>4 DEF HubTypes, Registered, Book
<1>6. Known'
  <2>1. \A i \in DOMAIN table' : i = k \/ i \in DOMAIN table \ {k}
    BY <1>4
  <2>2. \A i \in DOMAIN table' : Who(i)' = file[i].who
    BY <1>0, <1>1, <1>3, <1>4, <2>1 DEF Known
  <2> QED BY <1>0, <1>1, <1>2, <1>4, <2>2 DEF Known
<1>7. HubInv'
  BY <1>4, <1>5, <1>6 DEF HubInv
<1> QED BY <1>1, <1>3, <1>4, <1>7

(* A new object has the counter's id, and everything is saved. *)
LEMMA SavesNew ==
  ASSUME HubInv, NEW k, k = first, first' = k + 1, NEW w \in Kind,
         w # Ir => \A i \in DOMAIN file : file[i].who # w,
         UNCHANGED <<at, old>>, Saved(table', drv'),
         drv' \in [Addr -> Entry \cup {None}], TablesAgree',
         table' \in [DOMAIN table' -> Addr \cup {Ir}],
         DOMAIN table' = DOMAIN table \cup {k},
         Who(k)' = w, \A i \in DOMAIN table \ {k} : Who(i)' = Who(i),
         owner' = Over(owner, [i \in {k} |-> w])
  PROVE  HubInv'
<1> DEFINE r == [i \in DOMAIN table' |->
                   IF table'[i] = Ir THEN [who |-> Ir, attr |-> Plain]
                   ELSE [who |-> drv'[table'[i]].mac, attr |-> drv'[table'[i]].attr]]
           whose(i) == IF i = k THEN w ELSE file[i].who
<1>0. HubTypes /\ Registered /\ Known
  BY DEF HubInv
<1>1. new' = Over(r, new) /\ file' = Over(new', old)
  BY DEF Saved
<1>2. /\ DOMAIN r = DOMAIN table'
      /\ \A i \in DOMAIN table' : r[i] \in Record /\ r[i].who = Who(i)'
  <2> SUFFICES ASSUME NEW i \in DOMAIN table'
               PROVE  r[i] \in Record /\ r[i].who = Who(i)'
    OBVIOUS
  <2>1. CASE table'[i] = Ir
    BY <2>1, PlainIsSetting DEF Record, Kind, Who
  <2>2. CASE table'[i] # Ir
    <3>1. table'[i] \in Addr /\ drv'[table'[i]] \in Entry
      BY <2>2 DEF TablesAgree
    <3> QED BY <2>2, <3>1 DEF Record, Kind, Entry, Who
  <2> QED BY <2>1, <2>2
<1> HIDE DEF r
<1>3. k \in Nat /\ k \notin DOMAIN file /\ DOMAIN table \subseteq DOMAIN file
  BY <1>0 DEF HubTypes, Registered, Known
<1>4. /\ DOMAIN new' = DOMAIN table \cup {k} \cup DOMAIN new
      /\ \A i \in DOMAIN new' : new'[i] \in Record /\ new'[i].who = whose(i)
      /\ new' = [i \in DOMAIN new' |-> new'[i]]
  <2>1. /\ DOMAIN new' = DOMAIN table' \cup DOMAIN new
        /\ \A i \in DOMAIN table' : new'[i] = r[i]
        /\ \A i \in DOMAIN new \ DOMAIN table' : new'[i] = new[i]
        /\ new' = [i \in DOMAIN new' |-> new'[i]]
    BY <1>1, <1>2 DEF Over
  <2>2. \A i \in DOMAIN table' : r[i].who = whose(i)
    BY <1>0, <1>2 DEF Known
  <2>3. \A i \in DOMAIN new : new[i] \in Record /\ i # k /\ new[i].who = file[i].who
    BY <1>0, <1>3 DEF HubTypes, Book, Registered
  <2> QED BY <1>2, <2>1, <2>2, <2>3
<1>5. /\ DOMAIN file' = DOMAIN file \cup {k}
      /\ \A i \in DOMAIN file' : file'[i] \in Record /\ file'[i].who = whose(i)
      /\ file' = [i \in DOMAIN file' |-> file'[i]]
  <2>1. /\ DOMAIN file' = DOMAIN new' \cup DOMAIN old
        /\ \A i \in DOMAIN new' : file'[i] = new'[i]
        /\ \A i \in DOMAIN old \ DOMAIN new' : file'[i] = old[i]
        /\ file' = [i \in DOMAIN file' |-> file'[i]]
    BY <1>1 DEF Over
  <2>2. \A i \in DOMAIN old : old[i] \in Record /\ i # k /\ old[i].who = file[i].who
    BY <1>0, <1>3 DEF HubTypes, Book, Registered
  <2>3. DOMAIN file = DOMAIN old \cup DOMAIN new
    BY <1>0 DEF Registered
  <2> QED BY <1>3, <1>4, <2>1, <2>2, <2>3
<1>6. HubTypes'
  BY <1>0, <1>3, <1>4, <1>5 DEF HubTypes, Book
<1>7. Registered'
  <2>1. DOMAIN file' = DOMAIN old' \cup DOMAIN new'
    BY <1>0, <1>3, <1>4, <1>5 DEF Registered
  <2>2. \A i \in DOMAIN old' : old'[i].who = file'[i].who
    BY <1>0, <1>3, <1>5 DEF Registered
  <2>3. \A i \in DOMAIN new' : new'[i].who = file'[i].who
    BY <1>4, <1>5, <2>1
  <2>4. DOMAIN file' \subseteq 1..(first' - 1)
    BY <1>0, <1>3, <1>5 DEF HubTypes, Registered
  <2>5. ASSUME NEW i \in DOMAIN file', NEW j \in DOMAIN file',
               file'[i].who = file'[j].who, file'[i].who # Ir
        PROVE  i = j
    BY <2>5, <1>0, <1>5 DEF Registered
  <2> QED BY <2>1, <2>2, <2>3, <2>4, <2>5 DEF Registered
<1>8. Known'
  <2>1. \A i \in DOMAIN table' : i \in DOMAIN file' /\ Who(i)' = file'[i].who
    BY <1>0, <1>3, <1>5 DEF Known
  <2>2. /\ DOMAIN owner' = DOMAIN owner \cup {k}
        /\ \A i \in DOMAIN owner : owner'[i] = owner[i]
        /\ k \notin DOMAIN owner => owner'[k] = w
    BY DEF Over
  <2>3. k \notin DOMAIN owner
    BY <1>0, <1>3 DEF Known
  <2>4. \A i \in DOMAIN owner' : i \in DOMAIN file' /\ owner'[i] = file'[i].who
    BY <1>0, <1>3, <1>5, <2>2, <2>3 DEF Known
  <2> QED BY <2>1, <2>4 DEF Known
<1> QED BY <1>6, <1>7, <1>8 DEF HubInv

LEMMA NewDeviceInv ==
  ASSUME HubInv, NEW m \in Mac, NEW a \in Addr, NewDevice(m, a)
  PROVE  /\ HubInv' /\ \A i \in DOMAIN file : file[i].who # m
         /\ \E k \in Nat \ DOMAIN file :
              /\ DOMAIN table' = DOMAIN table \cup {k}
              /\ Who(k)' = m /\ Attr(k)' = Plain
              /\ \A i \in DOMAIN table \ {k} : Who(i)' = Who(i) /\ Attr(i)' = Attr(i)
<1>1. PICK k \in Nat : k = first
  BY DEF HubInv, HubTypes
<1> DEFINE e == [mac |-> m, id |-> k, attr |-> Plain, ticks |-> 0]
<1>2. /\ drv[a] = None /\ drv' = [drv EXCEPT ![a] = e] /\ table' = Put(table, k, a)
      /\ first' = k + 1 /\ Saved(table', drv') /\ UNCHANGED <<at, old>>
      /\ owner' = Over(owner, [i \in {k} |-> m])
  BY <1>1 DEF NewDevice, Free
<1>3. /\ e \in Entry /\ e.id = k /\ e.mac = m /\ e.attr = Plain
      /\ m \in Kind /\ m # Ir
  BY PlainIsSetting, NoneIsNoEntry DEF Entry, Kind
<1> HIDE DEF e
<1>4. /\ drv' \in [Addr -> Entry \cup {None}] /\ TablesAgree'
      /\ table' \in [DOMAIN table' -> Addr \cup {Ir}]
      /\ DOMAIN table' = DOMAIN table \cup {k}
      /\ Who(k)' = m /\ Attr(k)' = Plain
      /\ \A i \in DOMAIN table \ {k} : Who(i)' = Who(i) /\ Attr(i)' = Attr(i)
  BY <1>2, <1>3, PutObject
<1>5. \A i \in DOMAIN file : file[i].who # m
  BY RecordsFound DEF NewDevice
<1>6. k \notin DOMAIN file
  BY <1>1 DEF HubInv, HubTypes, Registered
<1>7. HubInv'
  BY <1>1, <1>2, <1>3, <1>4, <1>5, SavesNew
<1> QED BY <1>4, <1>5, <1>6, <1>7

LEMMA AddIrInv ==
  ASSUME HubInv, AddIr
  PROVE  /\ HubInv'
         /\ \E k \in Nat \ DOMAIN file :
              /\ DOMAIN table' = DOMAIN table \cup {k}
              /\ Who(k)' = Ir /\ Attr(k)' = Plain
              /\ \A i \in DOMAIN table \ {k} : Who(i)' = Who(i) /\ Attr(i)' = Attr(i)
<1>0. HubTypes /\ TablesAgree /\ Registered /\ Known
  BY DEF HubInv
<1>1. PICK k \in Nat : k = first
  BY <1>0 DEF HubTypes
<1>2. /\ table' = Put(table, k, Ir) /\ first' = k + 1 /\ Saved(table', drv')
      /\ UNCHANGED <<at, old, drv>> /\ owner' = Over(owner, [i \in {k} |-> Ir])
  BY <1>1 DEF AddIr
<1>3. /\ DOMAIN table' = DOMAIN table \cup {k} /\ table'[k] = Ir
      /\ \A i \in DOMAIN table \ {k} : table'[i] = table[i]
      /\ table' = [i \in DOMAIN table' |-> table'[i]]
  BY <1>2 DEF Put
<1>4. table' \in [DOMAIN table' -> Addr \cup {Ir}]
  BY <1>0, <1>3 DEF HubTypes
<1>5. TablesAgree'
  BY <1>0, <1>2, <1>3 DEF TablesAgree
<1>6. /\ Who(k)' = Ir /\ Attr(k)' = Plain
      /\ \A i \in DOMAIN table \ {k} : Who(i)' = Who(i) /\ Attr(i)' = Attr(i)
  BY <1>2, <1>3 DEF Who, Attr
<1>7. drv' \in [Addr -> Entry \cup {None}] /\ Ir \in Kind
  BY <1>0, <1>2 DEF HubTypes, Kind
<1>8. k \notin DOMAIN file
  BY <1>0, <1>1 DEF HubTypes, Registered
<1>9. HubInv'
  BY ZenonT(60), <1>1, <1>2, <1>3, <1>4, <1>5, <1>6, <1>7, SavesNew
<1> QED BY <1>3, <1>6, <1>8, <1>9

(* Those that are given up leave both tables. *)
LEMMA TickInv ==
  ASSUME HubInv, Tick
  PROVE  /\ HubInv' /\ DOMAIN table' \subseteq DOMAIN table
         /\ \A i \in DOMAIN table' : Who(i)' = Who(i) /\ Attr(i)' = Attr(i)
<1>0. HubTypes /\ TablesAgree /\ Registered /\ Known
  BY DEF HubInv
<1> DEFINE aged == [a \in Addr |-> IF drv[a] = None \/ Ghost(a) THEN drv[a]
                                   ELSE [drv[a] EXCEPT !.ticks = @ + 1]]
           silent == {a \in Addr : aged[a].ticks > Patience}
           gone == {aged[a].id : a \in silent}
<1>1. /\ drv' = [a \in Addr |-> IF a \in silent THEN None ELSE aged[a]]
      /\ table' = [i \in DOMAIN table \ gone |-> table[i]]
      /\ UNCHANGED <<at, old, new, file, first, owner>>
  BY DEF Tick, history
<1>2. \A a \in Addr : /\ aged[a] \in Entry \cup {None}
                      /\ aged[a] = None <=> drv[a] = None
                      /\ aged[a].mac = drv[a].mac /\ aged[a].id = drv[a].id
                      /\ aged[a].attr = drv[a].attr
  <2> SUFFICES ASSUME NEW a \in Addr
               PROVE  /\ aged[a] \in Entry \cup {None}
                      /\ aged[a] = None <=> drv[a] = None
                      /\ aged[a].mac = drv[a].mac /\ aged[a].id = drv[a].id
                      /\ aged[a].attr = drv[a].attr
    OBVIOUS
  <2>1. CASE drv[a] = None \/ Ghost(a)
    BY <2>1, <1>0 DEF HubTypes
  <2>2. CASE ~(drv[a] = None \/ Ghost(a))
    <3>1. drv[a] \in Entry
      BY <2>2, <1>0 DEF HubTypes
    <3>2. aged[a] = [drv[a] EXCEPT !.ticks = drv[a].ticks + 1]
      BY <2>2
    <3> HIDE DEF aged
    <3>3. /\ aged[a] \in Entry /\ aged[a].mac = drv[a].mac /\ aged[a].id = drv[a].id
          /\ aged[a].attr = drv[a].attr
      BY <3>1, <3>2 DEF Entry
    <3> QED BY <3>1, <3>3, NoneIsNoEntry
  <2> QED BY <2>1, <2>2
<1>3. \A a \in silent : aged[a].id \in gone
  OBVIOUS
<1>4. silent \in SUBSET Addr
  OBVIOUS
<1> HIDE DEF aged, silent, gone
<1>5. /\ DOMAIN table' = DOMAIN table \ gone
      /\ \A i \in DOMAIN table' : table'[i] = table[i] /\ table[i] \in Addr \cup {Ir}
      /\ table' \in [DOMAIN table' -> Addr \cup {Ir}]
  BY <1>0, <1>1 DEF HubTypes
<1>6. \A i \in DOMAIN table' : table[i] # Ir =>
        /\ drv'[table[i]] = aged[table[i]]
        /\ aged[table[i]] # None /\ aged[table[i]].id = i
  <2> SUFFICES ASSUME NEW i \in DOMAIN table', table[i] # Ir
               PROVE  /\ drv'[table[i]] = aged[table[i]]
                      /\ aged[table[i]] # None /\ aged[table[i]].id = i
    OBVIOUS
  <2>1. table[i] \in Addr /\ aged[table[i]] # None /\ aged[table[i]].id = i
    BY <1>0, <1>2, <1>5 DEF TablesAgree
  <2>2. table[i] \notin silent
    BY <2>1, <1>3, <1>5
  <2> QED BY <1>1, <2>1, <2>2
<1>7. HubTypes'
  <2>1. drv' \in [Addr -> Entry \cup {None}]
    BY <1>1, <1>2
  <2> QED BY <2>1, <1>0, <1>1, <1>5 DEF HubTypes, Book
<1>8. TablesAgree'
  BY <1>5, <1>6 DEF TablesAgree
<1>9. \A i \in DOMAIN table' : Who(i)' = Who(i) /\ Attr(i)' = Attr(i)
  BY <1>2, <1>5, <1>6 DEF Who, Attr
<1>10. Registered' /\ Known'
  BY <1>0, <1>1, <1>5, <1>9 DEF Registered, Known
<1> QED BY <1>5, <1>7, <1>8, <1>9, <1>10 DEF HubInv

(* What a record sees of new settings is settings. *)
LEMMA SharedSetting ==
  ASSUME NEW r \in Setting, NEW v \in Setting
  PROVE  Shared(r, v) \in Setting
BY HubAssumption DEF Shared, Setting

LEMMA SetDeviceInv ==
  ASSUME HubInv, NEW i \in DOMAIN table, NEW v \in Setting, SetDevice(i, v)
  PROVE  HubInv'
<1>0. HubTypes /\ TablesAgree
  BY DEF HubInv
<1>1. /\ table[i] # Ir /\ drv' = [drv EXCEPT ![table[i]].attr = v]
      /\ new' = IF i \in live THEN [new EXCEPT ![i].attr = Shared(new[i].attr, v)] ELSE new
      /\ UNCHANGED <<at, table, old, file, first, owner>>
  BY DEF SetDevice
<1>2. PICK b \in Addr : b = table[i] /\ drv[b] \in Entry
  BY <1>0, <1>1 DEF HubTypes, TablesAgree
<1>3. [drv[b] EXCEPT !.attr = v] \in Entry
      /\ [drv[b] EXCEPT !.attr = v].mac = drv[b].mac
      /\ [drv[b] EXCEPT !.attr = v].id = drv[b].id
  BY <1>2 DEF Entry
<1>4. /\ drv' \in [Addr -> Entry \cup {None}]
      /\ drv'[b] = [drv[b] EXCEPT !.attr = v]
      /\ \A a \in Addr \ {b} : drv'[a] = drv[a]
  BY <1>0, <1>1, <1>2, <1>3 DEF HubTypes
<1>5. \A a \in Addr : /\ drv[a] = None <=> drv'[a] = None
                      /\ drv'[a].mac = drv[a].mac /\ drv'[a].id = drv[a].id
  BY <1>2, <1>3, <1>4, NoneIsNoEntry
<1>6. /\ Book(new') /\ DOMAIN new' = DOMAIN new
      /\ \A j \in DOMAIN new : new'[j].who = new[j].who
  <2>1. CASE i \in live /\ i \in DOMAIN new
    <3>1. new[i] \in Record
      BY <2>1, <1>0 DEF HubTypes, Book
    <3>0. PICK s \in Setting : s = Shared(new[i].attr, v)
      BY <3>1, SharedSetting DEF Record
    <3>2. [new[i] EXCEPT !.attr = s] \in Record
          /\ [new[i] EXCEPT !.attr = s].who = new[i].who
      BY <3>1 DEF Record
    <3>3. /\ DOMAIN new' = DOMAIN new /\ new'[i] = [new[i] EXCEPT !.attr = s]
          /\ \A j \in DOMAIN new \ {i} : new'[j] = new[j]
          /\ new' = [j \in DOMAIN new |-> new'[j]]
      BY <2>1, <1>1, <3>0
    <3> QED BY <3>2, <3>3, <1>0 DEF HubTypes, Book
  <2>2. CASE ~(i \in live /\ i \in DOMAIN new)
    <3>1. new' = new
      BY <2>2, <1>0, <1>1 DEF HubTypes, Book
    <3> QED BY <3>1, <1>0 DEF HubTypes
  <2> QED BY <2>1, <2>2
<1>7. at' \in [Mac -> Addr \cup {Off}]
  BY <1>0, <1>1 DEF HubTypes
<1> QED BY <1>1, <1>4, <1>5, <1>6, <1>7, SameObjects

LEMMA DelDeviceInv ==
  ASSUME HubInv, NEW k \in DOMAIN table, DelDevice(k)
  PROVE  HubInv'
<1>0. HubTypes /\ TablesAgree /\ Registered /\ Known
  BY DEF HubInv
<1>1. /\ table' = Without(table, k) /\ owner' = Without(owner, k)
      /\ Erased(k) /\ UNCHANGED <<at, drv, new, first>>
  BY DEF DelDevice
<1>2. /\ DOMAIN table' = DOMAIN table \ {k}
      /\ \A i \in DOMAIN table' : table'[i] = table[i] /\ table[i] \in Addr \cup {Ir}
      /\ table' \in [DOMAIN table' -> Addr \cup {Ir}]
  BY <1>0, <1>1 DEF HubTypes, Without
<1>3. DOMAIN owner' = DOMAIN owner \ {k} /\ \A i \in DOMAIN owner' : owner'[i] = owner[i]
  BY <1>1 DEF Without
<1>4. /\ Book(old') /\ Book(file')
      /\ DOMAIN file \ {k} \subseteq DOMAIN file' /\ DOMAIN file' \subseteq DOMAIN file
      /\ DOMAIN file' = DOMAIN old' \cup DOMAIN new
      /\ DOMAIN old' \subseteq DOMAIN old /\ \A i \in DOMAIN old' : old'[i] = old[i]
      /\ \A i \in DOMAIN file' : file'[i].who = file[i].who
  <2>1. CASE k \notin DOMAIN old
    <3>1. UNCHANGED <<old, file>>
      BY <2>1, <1>1 DEF Erased
    <3> QED BY <3>1, <1>0 DEF HubTypes, Book, Registered
  <2>2. CASE k \in DOMAIN old
    <3>1. old' = Without(old, k) /\ file' = Over(new, old')
      BY <2>2, <1>1 DEF Erased
    <3>2. /\ DOMAIN old' = DOMAIN old \ {k}
          /\ \A i \in DOMAIN old' : old'[i] = old[i]
          /\ old' = [i \in DOMAIN old' |-> old'[i]]
      BY <3>1 DEF Without
    <3>3. /\ DOMAIN file' = DOMAIN new \cup DOMAIN old'
          /\ \A i \in DOMAIN new : file'[i] = new[i]
          /\ \A i \in DOMAIN old' \ DOMAIN new : file'[i] = old'[i]
          /\ file' = [i \in DOMAIN file' |-> file'[i]]
      BY <3>1 DEF Over
    <3>4. /\ \A i \in DOMAIN old : old[i] \in Record /\ old[i].who = file[i].who
          /\ \A i \in DOMAIN new : new[i] \in Record /\ new[i].who = file[i].who
          /\ DOMAIN file = DOMAIN old \cup DOMAIN new
      BY <1>0 DEF HubTypes, Book, Registered
    <3>5. \A i \in DOMAIN file' : file'[i] \in Record /\ file'[i].who = file[i].who
      BY <3>2, <3>3, <3>4
    <3> QED BY <3>2, <3>3, <3>4, <3>5 DEF Book
  <2> QED BY <2>1, <2>2
<1>5. HubTypes'
  BY <1>0, <1>1, <1>2, <1>4 DEF HubTypes, Book
<1>6. TablesAgree'
  BY <1>0, <1>1, <1>2 DEF TablesAgree
<1>7. Registered'
  BY <1>0, <1>1, <1>4 DEF Registered
<1>8. \A i \in DOMAIN table' : Who(i)' = Who(i)
  BY <1>1, <1>2 DEF Who
<1>9. Known'
  BY <1>0, <1>2, <1>3, <1>4, <1>8 DEF Known
<1> QED BY <1>5, <1>6, <1>7, <1>9 DEF HubInv

(* A start from a file in which every Zigbee device has one id. *)
LEMMA StartInv ==
  ASSUME HubInv, NEW f, Start(f), Book(f), DOMAIN f \subseteq DOMAIN file,
         \A i, j \in DOMAIN f : f[i].who = f[j].who /\ f[i].who # Ir => i = j,
         DOMAIN owner' \subseteq DOMAIN f, \A i \in DOMAIN owner' : owner'[i] = f[i].who
  PROVE  HubInv'
<1>0. HubTypes /\ Registered
  BY DEF HubInv
<1>1. /\ drv' = [a \in Addr |-> None] /\ old' = f /\ new' = Empty /\ file' = f
      /\ table' = [i \in {j \in DOMAIN f : f[j].who = Ir} |-> Ir]
      /\ first' = FirstFree(f) /\ at' = at
  BY DEF Start
<1>2. DOMAIN new' = {} /\ Book(new')
  BY <1>1 DEF Empty, Book
<1>3. first' \in Nat \ {0} /\ DOMAIN file' \subseteq 1..(first' - 1)
  <2>1. first - 1 \in Nat /\ DOMAIN f \subseteq 1..(first - 1)
    BY <1>0 DEF HubTypes, Registered
  <2> QED BY <1>1, <2>1, FirstFreePasses
<1>4. HubTypes'
  BY <1>0, <1>1, <1>2, <1>3 DEF HubTypes
<1>5. Registered'
  BY <1>1, <1>2, <1>3 DEF Registered
<1>6. TablesAgree' /\ Known'
  BY <1>1 DEF TablesAgree, Known, Who
<1> QED BY <1>4, <1>5, <1>6 DEF HubInv

LEMMA HubInvNext == HubInv /\ [Next]_vars => HubInv'
<1> SUFFICES ASSUME HubInv, [Next]_vars PROVE HubInv'
  OBVIOUS
<1>0. HubTypes /\ Registered /\ Known
  BY DEF HubInv
<1>1. ASSUME at' \in [Mac -> Addr \cup {Off}],
             UNCHANGED <<drv, table, old, new, file, first, owner>>
      PROVE  HubInv'
  BY <1>0, <1>1, SameObjects DEF HubTypes
<1> USE DEF tables, config, history
<1>2. CASE UNCHANGED vars
  BY <1>0, <1>1, <1>2 DEF vars, HubTypes
<1>3. ASSUME NEW m \in Mac, NEW a \in Addr,
             PowerOn(m, a) \/ Lose(m, a) \/ Ignored(m, a)
      PROVE  HubInv'
  <2>1. at' \in [Mac -> Addr \cup {Off}]
    BY <1>0, <1>3 DEF HubTypes, PowerOn, Lose, Ignored
  <2> QED BY <1>1, <1>3, <2>1 DEF PowerOn, Lose, Ignored
<1>4. ASSUME NEW m \in Mac, NEW a \in Addr, Rejoin(m, a) PROVE HubInv'
  BY <1>4, RejoinInv
<1>5. ASSUME NEW m \in Mac, NEW a \in Addr, NewDevice(m, a) PROVE HubInv'
  BY <1>5, NewDeviceInv
<1>6. ASSUME NEW m \in Mac, Keepalive(m) PROVE HubInv'
  <2>1. at[m] \in Addr /\ UNCHANGED <<at, table, old, new, file, first, owner>>
    BY <1>0, <1>6 DEF Keepalive, HubTypes
  <2>2. CASE drv[at[m]] = None
    BY <1>0, <1>1, <1>6, <2>1, <2>2 DEF Keepalive, HubTypes
  <2>3. CASE drv[at[m]] # None
    <3>1. PICK b \in Addr : b = at[m] /\ drv[b] \in Entry
      BY <1>0, <2>1, <2>3 DEF HubTypes
    <3>2. drv' = [drv EXCEPT ![b] = [drv[b] EXCEPT !.ticks = 0]]
      BY <1>6, <2>3, <3>1 DEF Keepalive
    <3>3. /\ [drv[b] EXCEPT !.ticks = 0] \in Entry
          /\ [drv[b] EXCEPT !.ticks = 0].mac = drv[b].mac
          /\ [drv[b] EXCEPT !.ticks = 0].id = drv[b].id
      BY <3>1 DEF Entry
    <3>4. /\ drv' \in [Addr -> Entry \cup {None}]
          /\ drv'[b] = [drv[b] EXCEPT !.ticks = 0]
          /\ \A a \in Addr \ {b} : drv'[a] = drv[a]
      BY <1>0, <3>2, <3>3 DEF HubTypes
    <3>5. \A a \in Addr : /\ drv[a] = None <=> drv'[a] = None
                          /\ drv'[a].mac = drv[a].mac /\ drv'[a].id = drv[a].id
      BY <3>1, <3>3, <3>4, NoneIsNoEntry
    <3>6. Book(new') /\ at' \in [Mac -> Addr \cup {Off}]
      BY <1>0, <2>1 DEF HubTypes
    <3> QED BY <2>1, <3>4, <3>5, <3>6, SameObjects
  <2> QED BY <2>2, <2>3
<1>7. ASSUME NEW m \in Mac, PowerOff(m) \/ Update(m) \/ ReplyToSet(m)
      PROVE  HubInv'
  <2>1. at' \in [Mac -> Addr \cup {Off}]
    BY <1>0, <1>7 DEF HubTypes, PowerOff, Update, ReplyToSet
  <2> QED BY <1>1, <1>7, <2>1 DEF PowerOff, Update, ReplyToSet
<1>8. CASE Midnight \/ AddIrWithValue
  BY <1>0, <1>1, <1>8 DEF Midnight, AddIrWithValue, HubTypes
<1>9. CASE Tick
  BY <1>9, TickInv
<1>10. CASE AddIr
  BY <1>10, AddIrInv
<1>11. CASE Restart
  <2>1. Start(file) /\ owner' = owner
    BY <1>11 DEF Restart
  <2> QED BY <1>0, <2>1, StartInv DEF HubTypes, Registered, Known
<1>12. CASE CrashSaving
  <2>1. Start(Empty) /\ owner' = Empty
    BY <1>12 DEF CrashSaving
  <2>2. DOMAIN Empty = {} /\ Book(Empty)
    BY DEF Empty, Book
  <2> QED BY <2>1, <2>2, StartInv
<1>13. ASSUME NEW i \in DOMAIN table, DelDevice(i) PROVE HubInv'
  BY <1>13, DelDeviceInv
<1>14. ASSUME NEW i \in DOMAIN table, NEW v \in Setting, SetDevice(i, v) PROVE HubInv'
  BY <1>14, SetDeviceInv
<1> QED BY <1>2, <1>3, <1>4, <1>5, <1>6, <1>7, <1>8, <1>9, <1>10, <1>11, <1>12, <1>13,
           <1>14 DEF Next

(* The two tables of the hub name the same objects by the same ids. *)
THEOREM TablesStayTogether == Spec => []TablesAgree
<1>1. HubInv => TablesAgree
  BY DEF HubInv
<1> QED BY <1>1, HubInvInit, HubInvNext, PTL DEF Spec

(* An id that was announced for a device stays its own, over all addresses *)
(* and restarts, and no Zigbee device has two.                             *)
THEOREM HubIdsKeepTheirOwner == Spec => []IdKeepsOwner
BY HubInvInit, HubInvNext, HubKeepsOwners, PTL DEF Spec

-----------------------------------------------------------------------------
(* What was deleted. *)

BuriedInv == HubInv /\ buried \cap DOMAIN file = {}

LEMMA BuriedInvNext == BuriedInv /\ [Next]_vars => BuriedInv'
<1> SUFFICES ASSUME BuriedInv, [Next]_vars PROVE buried' \cap DOMAIN file' = {}
  BY HubInvNext DEF BuriedInv
<1> USE DEF tables, config, history
<1>0. HubInv /\ HubTypes /\ Registered /\ Known /\ buried \cap DOMAIN file = {}
  BY DEF BuriedInv, HubInv
<1>1. ASSUME buried' \subseteq buried, DOMAIN file' \subseteq DOMAIN file
      PROVE  buried' \cap DOMAIN file' = {}
  BY <1>0, <1>1
<1>2. ASSUME Saved(table', drv'), old' = old, buried' = buried \ {first},
             DOMAIN table' = DOMAIN table \cup {first}
      PROVE  buried' \cap DOMAIN file' = {}
  <2>1. DOMAIN file' = DOMAIN table' \cup DOMAIN new \cup DOMAIN old
    BY <1>2 DEF Saved, Over
  <2>2. DOMAIN file' \subseteq DOMAIN file \cup {first}
    BY <1>0, <1>2, <2>1 DEF Known, Registered
  <2> QED BY <1>0, <1>2, <2>2
<1>3. ASSUME NEW m \in Mac, NEW a \in Addr, NewDevice(m, a)
      PROVE  buried' \cap DOMAIN file' = {}
  BY <1>2, <1>3 DEF NewDevice, Put
<1>4. CASE AddIr
  BY <1>2, <1>4 DEF AddIr, Put
<1>5. ASSUME NEW i \in DOMAIN table, DelDevice(i)
      PROVE  buried' \cap DOMAIN file' = {}
  <2>1. Erased(i) /\ buried' = IF new = Empty THEN buried \cup {i} ELSE buried
    BY <1>5 DEF DelDevice
  <2>2. DOMAIN file' \subseteq DOMAIN file
    BY <1>0, <2>1 DEF Erased, Without, Over, Registered
  <2>3. CASE new = Empty
    <3>1. DOMAIN new = {}
      BY <2>3 DEF Empty
    <3>2. i \in DOMAIN old
      BY <1>0, <3>1 DEF Known, Registered
    <3>3. i \notin DOMAIN file'
      BY <2>1, <3>1, <3>2 DEF Erased, Without, Over
    <3> QED BY <1>0, <2>1, <2>2, <2>3, <3>3
  <2>4. CASE new # Empty
    BY <1>1, <2>1, <2>2, <2>4
  <2> QED BY <2>3, <2>4
<1>6. CASE Restart \/ CrashSaving
  BY <1>1, <1>6 DEF Restart, CrashSaving, Start, Empty
<1>7. CASE UNCHANGED <<buried, file>>
  BY <1>1, <1>7
<1> QED BY <1>3, <1>4, <1>5, <1>6, <1>7
        DEF Next, vars, PowerOn, PowerOff, Lose, Keepalive, Rejoin, Ignored, Update,
            ReplyToSet, Tick, Midnight, AddIrWithValue, SetDevice

(* What a client deleted before this run saved anything does not come back.*)
THEOREM DeletedStayAway == Spec => []DeletedStays
<1>1. Init => BuriedInv
  BY HubInvInit DEF Init, BuriedInv
<1>2. BuriedInv => DeletedStays
  BY DEF BuriedInv, HubInv, Known, DeletedStays
<1> QED BY <1>1, <1>2, BuriedInvNext, PTL DEF Spec

-----------------------------------------------------------------------------
(* What clients set. *)

(* Of a device that is not dirty, the object and every record have the     *)
(* settings it was given last.                                             *)
SettledInv ==
  /\ HubInv
  /\ last = [m \in Mac |-> last[m]]
  /\ \A m \in Mac \ dirty :
       /\ \A i \in DOMAIN table : Who(i) = m => Attr(i) = last[m]
       /\ \A i \in DOMAIN old : old[i].who = m => old[i].attr = last[m]
       /\ \A i \in DOMAIN new : new[i].who = m => new[i].attr = last[m]

(* Objects and records that go, and those that stay as they are. *)
LEMMA SettledStays ==
  ASSUME SettledInv, HubInv', UNCHANGED <<new, last, dirty>>,
         DOMAIN table' \subseteq DOMAIN table,
         \A i \in DOMAIN table' : Who(i)' = Who(i) /\ Attr(i)' = Attr(i),
         DOMAIN old' \subseteq DOMAIN old, \A i \in DOMAIN old' : old'[i] = old[i]
  PROVE  SettledInv'
BY DEF SettledInv

LEMMA SettledSaves ==
  ASSUME SettledInv, HubInv', NEW k, k \notin DOMAIN file, NEW w \in Kind,
         w # Ir => \A i \in DOMAIN file : file[i].who # w,
         old' = old, Saved(table', drv'), DOMAIN table' = DOMAIN table \cup {k},
         Who(k)' = w, Attr(k)' = Plain,
         \A i \in DOMAIN table \ {k} : Who(i)' = Who(i) /\ Attr(i)' = Attr(i),
         last' = [last EXCEPT ![w] = Plain]
  PROVE  SettledInv'
<1> DEFINE r == [i \in DOMAIN table' |->
                   IF table'[i] = Ir THEN [who |-> Ir, attr |-> Plain]
                   ELSE [who |-> drv'[table'[i]].mac, attr |-> drv'[table'[i]].attr]]
<1>0. HubInv /\ Registered /\ Known /\ Registered' /\ Known'
  BY DEF SettledInv, HubInv
<1>1. new' = Over(r, new)
  BY DEF Saved
<1>2. \A i \in DOMAIN table' : r[i].who = Who(i)' /\ r[i].attr = Attr(i)'
  BY DEF Who, Attr
<1>3. DOMAIN r = DOMAIN table'
  OBVIOUS
<1> HIDE DEF r
<1>4. /\ DOMAIN new' = DOMAIN table' \cup DOMAIN new
      /\ \A i \in DOMAIN table' : new'[i].who = Who(i)' /\ new'[i].attr = Attr(i)'
      /\ \A i \in DOMAIN new \ DOMAIN table' : new'[i] = new[i]
  BY <1>1, <1>2, <1>3 DEF Over
<1>5. /\ last' = [m \in Mac |-> last'[m]]
      /\ \A m \in Mac : last'[m] = IF m = w THEN Plain ELSE last[m]
  BY DEF SettledInv
<1>6. \A m \in Mac : m \in dirty /\ m \notin dirty' =>
        \E i \in DOMAIN table' \ DOMAIN old : Who(i)' = m /\ Attr(i)' = last'[m]
  BY DEF Saved, Who, Attr
<1>7. ASSUME NEW m \in Mac, m \notin dirty'
      PROVE  /\ \A i \in DOMAIN table' : Who(i)' = m => Attr(i)' = last'[m]
             /\ \A i \in DOMAIN old' : old'[i].who = m => old'[i].attr = last'[m]
             /\ \A i \in DOMAIN new' : new'[i].who = m => new'[i].attr = last'[m]
  <2>0. m # Ir
    BY NoneIsNoEntry
  <2>1. CASE m \in dirty
    <3>1. PICK n \in DOMAIN table' \ DOMAIN old : Who(n)' = m /\ Attr(n)' = last'[m]
      BY <1>6, <1>7, <2>1
    <3>2. n \in DOMAIN file' /\ file'[n].who = m
      BY <1>0, <3>1 DEF Known
    <3>3. \A i \in DOMAIN file' : file'[i].who = m => i = n
      BY <1>0, <2>0, <3>2 DEF Registered
    <3>4. \A i \in DOMAIN table' : Who(i)' = m => i = n
      BY <1>0, <3>3 DEF Known
    <3>5. \A i \in DOMAIN new' : new'[i].who = m => i = n
      BY <1>0, <3>3 DEF Registered
    <3>6. \A i \in DOMAIN old' : old'[i].who # m
      BY <1>0, <3>1, <3>3 DEF Registered
    <3> QED BY <1>4, <3>1, <3>4, <3>5, <3>6
  <2>2. CASE m \notin dirty
    <3>1. /\ \A i \in DOMAIN table : Who(i) = m => Attr(i) = last[m]
          /\ \A i \in DOMAIN old : old[i].who = m => old[i].attr = last[m]
          /\ \A i \in DOMAIN new : new[i].who = m => new[i].attr = last[m]
      BY <2>2 DEF SettledInv
    <3>2. m = w => \A i \in DOMAIN file : file[i].who # m
      BY <2>0
    <3>3. ASSUME NEW i \in DOMAIN table', Who(i)' = m PROVE Attr(i)' = last'[m]
      <4>1. CASE i = k
        BY <3>3, <4>1, <1>5
      <4>2. CASE i # k
        <5>1. i \in DOMAIN table \ {k} /\ Who(i) = m
          BY <3>3, <4>2
        <5>2. m # w
          BY <5>1, <1>0, <3>2 DEF Known
        <5> QED BY <5>1, <5>2, <3>1, <1>5
      <4> QED BY <4>1, <4>2
    <3>4. ASSUME NEW i \in DOMAIN old, old[i].who = m PROVE old[i].attr = last'[m]
      <4>1. m # w
        BY <3>2, <3>4, <1>0 DEF Registered
      <4> QED BY <4>1, <3>1, <3>4, <1>5
    <3>5. ASSUME NEW i \in DOMAIN new \ DOMAIN table', new[i].who = m
          PROVE  new[i].attr = last'[m]
      <4>1. m # w
        BY <3>2, <3>5, <1>0 DEF Registered
      <4> QED BY <4>1, <3>1, <3>5, <1>5
    <3> QED BY <1>4, <3>3, <3>4, <3>5
  <2> QED BY <2>1, <2>2
<1> QED BY <1>5, <1>7 DEF SettledInv

LEMMA SettledInvNext == SettledInv /\ [Next]_vars => SettledInv'
<1> SUFFICES ASSUME SettledInv, [Next]_vars PROVE SettledInv'
  OBVIOUS
<1> USE DEF tables, config, history
<1>0. /\ HubInv /\ HubInv' /\ HubTypes /\ TablesAgree /\ Registered /\ Known
      /\ Registered' /\ Known'
  BY HubInvNext DEF SettledInv, HubInv
<1>1. ASSUME UNCHANGED <<table, old, new, last, dirty>>,
             \A a \in Addr : drv'[a].mac = drv[a].mac /\ drv'[a].attr = drv[a].attr
      PROVE  SettledInv'
  <2>1. \A i \in DOMAIN table : Who(i)' = Who(i) /\ Attr(i)' = Attr(i)
    BY <1>0, <1>1 DEF HubTypes, Who, Attr
  <2> QED BY <1>0, <1>1, <2>1, SettledStays
<1>2. CASE UNCHANGED vars
  BY <1>1, <1>2 DEF vars
<1>3. ASSUME NEW m \in Mac, NEW a \in Addr, PowerOn(m, a) \/ Lose(m, a) \/ Ignored(m, a)
      PROVE  SettledInv'
  BY <1>1, <1>3 DEF PowerOn, Lose, Ignored
<1>4. ASSUME NEW m \in Mac, PowerOff(m) \/ Update(m) \/ ReplyToSet(m) PROVE SettledInv'
  BY <1>1, <1>4 DEF PowerOff, Update, ReplyToSet
<1>5. CASE Midnight \/ AddIrWithValue
  BY <1>1, <1>5 DEF Midnight, AddIrWithValue
<1>6. ASSUME NEW m \in Mac, Keepalive(m) PROVE SettledInv'
  <2>1. at[m] \in Addr /\ UNCHANGED <<table, old, new, last, dirty>>
    BY <1>0, <1>6 DEF Keepalive, HubTypes
  <2>2. CASE drv[at[m]] = None
    BY <1>1, <1>6, <2>1, <2>2 DEF Keepalive
  <2>3. CASE drv[at[m]] # None
    <3>1. PICK b \in Addr : b = at[m] /\ drv[b] \in Entry
      BY <1>0, <2>1, <2>3 DEF HubTypes
    <3>2. drv' = [drv EXCEPT ![b] = [drv[b] EXCEPT !.ticks = 0]]
      BY <1>6, <2>3, <3>1 DEF Keepalive
    <3>3. /\ [drv[b] EXCEPT !.ticks = 0].attr = drv[b].attr
          /\ [drv[b] EXCEPT !.ticks = 0].mac = drv[b].mac
      BY <3>1 DEF Entry
    <3>4. \A a \in Addr : drv'[a].mac = drv[a].mac /\ drv'[a].attr = drv[a].attr
      BY <1>0, <3>2, <3>3 DEF HubTypes
    <3> QED BY <1>1, <2>1, <3>4
  <2> QED BY <2>2, <2>3
<1>7. ASSUME NEW m \in Mac, NEW a \in Addr, Rejoin(m, a) PROVE SettledInv'
  <2>1. PICK k \in DOMAIN file :
          /\ DOMAIN table' = DOMAIN table \cup {k}
          /\ Who(k)' = m /\ Attr(k)' = Restored(m)
          /\ \A i \in DOMAIN table \ {k} : Who(i)' = Who(i) /\ Attr(i)' = Attr(i)
    BY <1>0, <1>7, RejoinInv
  <2>2. UNCHANGED <<old, new, last, dirty>> /\ Records(m) # {}
    BY <1>7 DEF Rejoin
  <2>3. m \notin dirty => Restored(m) = last[m]
    <3>1. \/ \E i \in DOMAIN old : old[i].who = m /\ RecordOf(m) = old[i]
          \/ \E i \in DOMAIN new : new[i].who = m /\ RecordOf(m) = new[i]
      BY <1>0, <2>2, RecordsFound
    <3> QED BY <3>1 DEF SettledInv, Restored
  <2>4. ASSUME NEW n \in Mac \ dirty, NEW i \in DOMAIN table', Who(i)' = n
        PROVE  Attr(i)' = last[n]
    <3>1. CASE i = k
      BY <2>1, <2>3, <2>4, <3>1
    <3>2. CASE i # k
      BY <2>1, <2>4, <3>2 DEF SettledInv
    <3> QED BY <3>1, <3>2
  <2> QED BY <1>0, <2>2, <2>4 DEF SettledInv
<1>8. ASSUME NEW m \in Mac, NEW a \in Addr, NewDevice(m, a) PROVE SettledInv'
  <2>1. PICK k \in Nat \ DOMAIN file :
          /\ DOMAIN table' = DOMAIN table \cup {k}
          /\ Who(k)' = m /\ Attr(k)' = Plain
          /\ \A i \in DOMAIN table \ {k} : Who(i)' = Who(i) /\ Attr(i)' = Attr(i)
    BY <1>0, <1>8, NewDeviceInv
  <2>2. /\ old' = old /\ Saved(table', drv') /\ last' = [last EXCEPT ![m] = Plain]
        /\ m \in Kind /\ \A i \in DOMAIN file : file[i].who # m
    BY <1>0, <1>8, NewDeviceInv DEF NewDevice, Kind
  <2> QED BY <1>0, <2>1, <2>2, SettledSaves
<1>9. CASE AddIr
  <2>1. PICK k \in Nat \ DOMAIN file :
          /\ DOMAIN table' = DOMAIN table \cup {k}
          /\ Who(k)' = Ir /\ Attr(k)' = Plain
          /\ \A i \in DOMAIN table \ {k} : Who(i)' = Who(i) /\ Attr(i)' = Attr(i)
    BY <1>0, <1>9, AddIrInv
  <2>2. /\ old' = old /\ Saved(table', drv') /\ last' = last /\ Ir \in Kind
    BY <1>9 DEF AddIr, Kind
  <2>3. last' = [last EXCEPT ![Ir] = Plain]
    BY <2>2, NoneIsNoEntry DEF SettledInv
  <2> QED BY <1>0, <2>1, <2>2, <2>3, SettledSaves
<1>10. CASE Tick
  <2>1. /\ DOMAIN table' \subseteq DOMAIN table
        /\ \A i \in DOMAIN table' : Who(i)' = Who(i) /\ Attr(i)' = Attr(i)
    BY <1>0, <1>10, TickInv
  <2>2. UNCHANGED <<old, new, last, dirty>>
    BY <1>10 DEF Tick
  <2> QED BY <1>0, <2>1, <2>2, SettledStays
<1>11. CASE Restart \/ CrashSaving
  <2>1. PICK f : /\ Start(f) /\ Book(f)
                 /\ \A i, j \in DOMAIN f : f[i].who = f[j].who /\ f[i].who # Ir => i = j
    <3>1. DOMAIN Empty = {} /\ Book(Empty)
      BY DEF Empty, Book
    <3> QED BY <1>0, <1>11, <3>1 DEF Restart, CrashSaving, HubTypes, Registered
  <2>2. /\ old' = f /\ new' = Empty /\ DOMAIN new' = {}
        /\ table' = [i \in {j \in DOMAIN f : f[j].who = Ir} |-> Ir]
        /\ last' = [m \in Mac |-> IF \E i \in DOMAIN f : f[i].who = m
                                  THEN f[CHOOSE i \in DOMAIN f : f[i].who = m].attr
                                  ELSE Plain]
    BY <2>1 DEF Start, Empty
  <2>3. \A m \in Mac : \A i \in DOMAIN table' : Who(i)' # m
    BY <2>2, NoneIsNoEntry DEF Who
  <2>4. ASSUME NEW m \in Mac, NEW i \in DOMAIN f, f[i].who = m
        PROVE  f[i].attr = last'[m]
    <3> DEFINE j == CHOOSE j \in DOMAIN f : f[j].who = m
    <3>1. j \in DOMAIN f /\ f[j].who = m
      BY <2>4
    <3>2. j = i
      <4> HIDE DEF j
      <4> QED BY <2>1, <2>4, <3>1, NoneIsNoEntry
    <3>3. last'[m] = f[j].attr
      BY <2>2, <2>4
    <3> HIDE DEF j
    <3> QED BY <3>2, <3>3
  <2>5. last' = [m \in Mac |-> last'[m]]
    BY <2>2
  <2> QED BY <1>0, <2>2, <2>3, <2>4, <2>5 DEF SettledInv
<1>12. ASSUME NEW i \in DOMAIN table, DelDevice(i) PROVE SettledInv'
  <2>1. /\ DOMAIN table' \subseteq DOMAIN table
        /\ \A j \in DOMAIN table' : Who(j)' = Who(j) /\ Attr(j)' = Attr(j)
    BY <1>12 DEF DelDevice, Without, Who, Attr
  <2>2. DOMAIN old' \subseteq DOMAIN old /\ \A j \in DOMAIN old' : old'[j] = old[j]
    BY <1>12 DEF DelDevice, Erased, Without
  <2>3. UNCHANGED <<new, last, dirty>>
    BY <1>12 DEF DelDevice
  <2> QED BY <1>0, <2>1, <2>2, <2>3, SettledStays
<1>13. ASSUME NEW i \in DOMAIN table, NEW v \in Setting, SetDevice(i, v) PROVE SettledInv'
  <2>1. PICK b \in Addr, m \in Mac : b = table[i] /\ drv[b] \in Entry /\ m = Who(i)
    BY <1>0, <1>13 DEF SetDevice, HubTypes, TablesAgree, Who, Entry
  <2>2. /\ b # Ir /\ drv' = [drv EXCEPT ![b] = [drv[b] EXCEPT !.attr = v]]
        /\ last' = [last EXCEPT ![m] = v]
        /\ dirty' = IF i \in live \ DOMAIN old /\ Shared(new[i].attr, v) = v
                   THEN dirty \ {m} ELSE dirty \cup {m}
        /\ new' = IF i \in live THEN [new EXCEPT ![i].attr = Shared(new[i].attr, v)] ELSE new
        /\ UNCHANGED <<table, old>>
    BY <1>13, <2>1 DEF SetDevice
  <2>3. /\ drv'[b].mac = drv[b].mac /\ drv'[b].attr = v
        /\ \A a \in Addr \ {b} : drv'[a] = drv[a]
    <3>1. /\ [drv[b] EXCEPT !.attr = v].mac = drv[b].mac
          /\ [drv[b] EXCEPT !.attr = v].attr = v
      BY <2>1 DEF Entry
    <3> QED BY <1>0, <2>2, <3>1 DEF HubTypes
  <2>4. /\ Who(i)' = m /\ Attr(i)' = v
        /\ \A j \in DOMAIN table \ {i} : Who(j)' = Who(j) /\ Attr(j)' = Attr(j)
    <3>1. \A j \in DOMAIN table \ {i} : table[j] \in (Addr \cup {Ir}) \ {b}
      BY <1>0, <2>1, <2>2 DEF HubTypes, TablesAgree
    <3> QED BY <2>1, <2>2, <2>3, <3>1 DEF Who, Attr
  <2>5. i \in DOMAIN file /\ file[i].who = m /\ m # Ir
    BY <1>0, <2>1, NoneIsNoEntry DEF Known
  <2>6. \A j \in DOMAIN file : file[j].who = m => j = i
    BY <1>0, <2>5 DEF Registered
  <2>7. /\ \A j \in DOMAIN table : Who(j) = m => j = i
        /\ \A j \in DOMAIN old : old[j].who = m => j = i
        /\ \A j \in DOMAIN new : new[j].who = m => j = i
    BY <1>0, <2>6 DEF Known, Registered
  <2>8. /\ DOMAIN new' = DOMAIN new /\ \A j \in DOMAIN new \ {i} : new'[j] = new[j]
        /\ i \in DOMAIN new => new'[i].who = new[i].who
        /\ i \in live /\ i \in DOMAIN new => new'[i].attr = Shared(new[i].attr, v)
    <3>1. ASSUME i \in DOMAIN new, NEW s
          PROVE  /\ [new[i] EXCEPT !.attr = s].who = new[i].who
                 /\ [new[i] EXCEPT !.attr = s].attr = s
      <4>1. new[i] \in Record
        BY <3>1, <1>0 DEF HubTypes, Book
      <4> QED BY <4>1 DEF Record
    <3> QED BY <2>2, <3>1
  <2>9. /\ last' = [n \in Mac |-> last'[n]] /\ last'[m] = v
        /\ \A n \in Mac \ {m} : last'[n] = last[n]
    BY <2>2 DEF SettledInv
  <2>10. ASSUME NEW n \in Mac \ dirty'
         PROVE  /\ \A j \in DOMAIN table : Who(j)' = n => Attr(j)' = last'[n]
                /\ \A j \in DOMAIN old : old[j].who = n => old[j].attr = last'[n]
                /\ \A j \in DOMAIN new' : new'[j].who = n => new'[j].attr = last'[n]
    <3>1. CASE n = m
      <4>1. i \in live \ DOMAIN old /\ Shared(new[i].attr, v) = v
        BY <2>2, <2>10, <3>1
      <4>2. \A j \in DOMAIN table : Who(j)' = m => j = i
        BY <2>4, <2>7
      <4>3. \A j \in DOMAIN new : new'[j].who = m => j = i
        BY <2>7, <2>8
      <4> QED BY <2>4, <2>7, <2>8, <2>9, <3>1, <4>1, <4>2, <4>3
    <3>2. CASE n # m
      <4>1. n \notin dirty
        BY <2>2, <2>10, <3>2
      <4>2. /\ \A j \in DOMAIN table : Who(j) = n => Attr(j) = last[n] /\ j # i
            /\ \A j \in DOMAIN old : old[j].who = n => old[j].attr = last[n]
            /\ \A j \in DOMAIN new : new[j].who = n => new[j].attr = last[n] /\ j # i
        BY <1>0, <2>1, <2>5, <3>2, <4>1 DEF SettledInv, Registered
      <4>3. i \in DOMAIN new => new[i].who = m
        BY <1>0, <2>5 DEF Registered
      <4> QED BY <2>4, <2>8, <2>9, <3>2, <4>2, <4>3
    <3> QED BY <3>1, <3>2
  <2> QED BY <1>0, <2>2, <2>9, <2>10 DEF SettledInv
<1> QED BY <1>2, <1>3, <1>4, <1>5, <1>6, <1>7, <1>8, <1>9, <1>10, <1>11, <1>12, <1>13
        DEF Next

(* A device has the settings it was given last, but for those of a device  *)
(* that was read from the file or was not saved since it came back, and for*)
(* first channels that came after the hub last saved.                      *)
THEOREM SettingsAreKept == Spec => []SettingsKept
<1>1. Init => SettledInv
  <2> SUFFICES ASSUME Init PROVE SettledInv
    OBVIOUS
  <2>1. /\ last = [m \in Mac |-> Plain] /\ DOMAIN new = {}
        /\ old = [i \in 1..Kept |-> [who |-> Ir, attr |-> Plain]]
        /\ table = [i \in 1..Kept |-> Ir]
    BY DEF Init, Empty
  <2> QED BY <2>1, HubInvInit, NoneIsNoEntry DEF SettledInv, Who
<1>2. SettledInv => SettingsKept
  <2> SUFFICES ASSUME SettledInv, NEW i \in DOMAIN table, table[i] # Ir
               PROVE  Attr(i) = last[Who(i)] \/ Who(i) \in dirty
    BY DEF SettingsKept
  <2>1. drv[table[i]] \in Entry
    BY DEF SettledInv, HubInv, HubTypes, TablesAgree
  <2>2. Who(i) \in Mac
    BY <2>1 DEF Who, Entry
  <2> QED BY <2>2 DEF SettledInv
<1> QED BY <1>1, <1>2, SettledInvNext, PTL DEF Spec

-----------------------------------------------------------------------------
(* HubNetwork: the queues between its threads. *)

(* The kinds of what is queued: a command before it is dealt with, and what*)
(* becomes of it.                                                          *)
Raw == {"get", "set"}
Dealt == {"reply", "frame"}
Item == [k : Raw \cup Dealt \cup {"event", "stop"}, c : Client \cup {"none"}, n : Nat]

NetTypes ==
  /\ sent \in [Client -> Seq({"get", "set"})] /\ events \in Nat
  /\ peer \in [Client -> {"new", "open", "closed"}]
  /\ got \in [Client -> Seq(Item)] /\ cliq \in [Client -> Seq(Item)]
  /\ sock \in [Client -> Seq(Item)]
  /\ outq \in Seq(Item) /\ dataq \in Seq(Item) /\ inq \in Seq(Item)
  /\ phyq \in Seq(Item) /\ line \in Seq(Item)
  /\ backlog \in Seq(Client) /\ inputs \in Seq(Client)
  /\ rd \in Seq(Client \cup {"accept", "notify"})
  /\ torn \in [Client -> BOOLEAN]

(* The queues that what a client sends, and what it is told, passes        *)
(* through, from the last to the first, and the kinds of items in each.    *)
Stages(c) ==
  [i \in 1..8 |-> CASE i = 1 -> got[c] [] i = 2 -> cliq[c] [] i = 3 -> outq
                    [] i = 4 -> line [] i = 5 -> phyq [] i = 6 -> dataq
                    [] i = 7 -> inq [] i = 8 -> sock[c]]
KindsAt ==
  [i \in 1..8 |-> CASE i \in {1, 2} -> {"reply", "event"} [] i = 3 -> {"reply", "event", "stop"}
                    [] i \in {4, 5} -> {"frame"} [] i = 6 -> Raw \cup Dealt \cup {"event"}
                    [] i = 7 -> Raw \cup {"stop"} [] i = 8 -> Raw]

(* Where x is ahead of y, it has to be the older one.                      *)
Comparable(x, y) ==
  /\ x.c = y.c
  /\ \/ x.k = y.k /\ x.k # "stop"
     \/ y.k \in Raw /\ x.k \in Raw \cup Dealt
Before(p, q) ==
  \A x \in ToSet(p), y \in ToSet(q) : Comparable(x, y) => x.n < y.n
Sorted(q) ==
  \A i, j \in DOMAIN q : i < j /\ Comparable(q[i], q[j]) => q[i].n < q[j].n
Flows(s) ==
  /\ \A a \in 1..8 : Sorted(s[a])
  /\ \A a, b \in 1..8 : a < b => Before(s[a], s[b])

(* In the manager's queue an answer is behind commands that came later.    *)
DealtFirst(q) ==
  \A x, y \in ToSet(q) : x.k \in Dealt /\ y.k \in Raw /\ x.c = y.c => x.n < y.n

(* Everything stands for a command that was sent, or for an event; what is *)
(* in a queue of c is for c.                                               *)
StandsFor(x) ==
  \/ x = Stop
  \/ x.k = "event" /\ x.c = "none" /\ x.n \in 1..events
  \/ /\ x.c \in Client /\ x.n \in DOMAIN sent[x.c]
     /\ \/ sent[x.c][x.n] = "get" /\ x.k \in {"get", "reply"}
        \/ sent[x.c][x.n] = "set" /\ x.k \in {"set", "frame"}
Fits(c, i, x) ==
  /\ StandsFor(x) /\ x.k \in KindsAt[i]
  /\ i \in {1, 2, 8} /\ x.k # "event" => x.c = c

StagesInv(c) ==
  /\ Flows(Stages(c))
  /\ \A i \in 1..8 : \A x \in ToSet(Stages(c)[i]) : Fits(c, i, x)
FlowInv == DealtFirst(dataq) /\ \A c \in Client : StagesInv(c)

(* The network thread has every client once, and one that it is to read or *)
(* has read from is in its list, unless it left.                           *)
ClientsInv ==
  /\ IsInjective(backlog) /\ IsInjective(inputs) /\ IsInjective(rd)
  /\ ToSet(backlog) \cap ToSet(inputs) = {}
  /\ \A c \in ToSet(backlog) \cup ToSet(inputs) : peer[c] # "new"
  /\ "accept" \in ToSet(rd) => backlog # <<>>
  /\ \A c \in Client \cap ToSet(rd) :
       c \in ToSet(inputs) /\ Readable(c)
  /\ ~Alive => rd = <<>> /\ wr = <<>>
  /\ \A x \in ToSet(inq) \cup ToSet(dataq) \cup ToSet(outq) :
       Alive /\ x.c \in Client => x.c \in ToSet(inputs) \/ peer[x.c] = "closed"

-----------------------------------------------------------------------------
(* A queue without repetitions is sifted without repetitions.              *)
LEMMA SiftOnce ==
  ASSUME NEW S, NEW q \in Seq(S), NEW P, IsInjective(q)
  PROVE  IsInjective(Sift(q, P))
<1> DEFINE r == Sift(q, P)
<1>1. \A a, b \in DOMAIN r : a < b =>
        \E i, j \in DOMAIN q : i < j /\ q[i] = r[a] /\ q[j] = r[b]
  BY SiftProps
<1>2. /\ r \in Seq(S) /\ DOMAIN r = 1..Len(r) /\ Len(r) \in Nat
      /\ DOMAIN q = 1..Len(q) /\ Len(q) \in Nat
  BY SiftProps, LenProperties
<1> HIDE DEF r
<1>3. \A i, j \in DOMAIN q : i < j => q[i] # q[j]
  BY <1>2 DEF IsInjective
<1>4. \A a, b \in DOMAIN r : a < b => r[a] # r[b]
  BY <1>1, <1>3
<1>5. IsInjective(r)
  BY <1>2, <1>4 DEF IsInjective
<1> QED BY <1>5 DEF r

-----------------------------------------------------------------------------
(* How often a number of a client is in a queue: a natural number, none in *)
(* an empty queue, one for each place.                                     *)
LEMMA CountNat ==
  ASSUME NEW c, NEW n, NEW q \in Seq(Item)
  PROVE  /\ IsFiniteSet({i \in DOMAIN q : q[i].c = c /\ q[i].n = n})
         /\ Count(q, c, n) \in Nat
<1>1. DOMAIN q = 1..Len(q) /\ Len(q) \in Nat
  BY LenProperties
<1>2. IsFiniteSet(1..Len(q))
  BY <1>1, FS_Interval
<1>3. {i \in DOMAIN q : q[i].c = c /\ q[i].n = n} \in SUBSET (1..Len(q))
  BY <1>1
<1> QED BY <1>2, <1>3, FS_Subset, FS_CardinalityType DEF Count

(* A queue without that number counts nothing. *)
LEMMA CountNone ==
  ASSUME NEW c, NEW n, NEW q \in Seq(Item), \A x \in ToSet(q) : ~(x.c = c /\ x.n = n)
  PROVE  Count(q, c, n) = 0
<1>1. {i \in DOMAIN q : q[i].c = c /\ q[i].n = n} = {}
  BY DEF ToSet
<1> QED BY <1>1, FS_EmptySet DEF Count

(* Two queues, one behind the other, count what each counts. *)
LEMMA CountBoth ==
  ASSUME NEW c, NEW n, NEW p \in Seq(Item), NEW q \in Seq(Item)
  PROVE  Count(p \o q, c, n) = Count(p, c, n) + Count(q, c, n)
<1> DEFINE P == {i \in DOMAIN p : p[i].c = c /\ p[i].n = n}
           Q == {i \in DOMAIN q : q[i].c = c /\ q[i].n = n}
           R == {i \in DOMAIN (p \o q) : (p \o q)[i].c = c /\ (p \o q)[i].n = n}
           M == {i \in DOMAIN (p \o q) : i > Len(p) /\ (p \o q)[i].c = c /\ (p \o q)[i].n = n}
           f == [i \in Q |-> i + Len(p)]
<1>1. /\ Len(p) \in Nat /\ Len(q) \in Nat /\ DOMAIN p = 1..Len(p) /\ DOMAIN q = 1..Len(q)
      /\ p \o q \in Seq(Item) /\ DOMAIN (p \o q) = 1..(Len(p) + Len(q))
      /\ \A i \in 1..Len(p) : (p \o q)[i] = p[i]
      /\ \A i \in 1..Len(q) : (p \o q)[i + Len(p)] = q[i]
  <2>1. Len(p) \in Nat /\ Len(q) \in Nat /\ DOMAIN p = 1..Len(p) /\ DOMAIN q = 1..Len(q)
    BY LenProperties
  <2>2. /\ p \o q \in Seq(Item) /\ Len(p \o q) = Len(p) + Len(q)
        /\ \A i \in 1..(Len(p) + Len(q)) : (p \o q)[i] = IF i <= Len(p) THEN p[i] ELSE q[i - Len(p)]
    BY ConcatProperties
  <2>3. \A i \in 1..Len(q) : i + Len(p) \in 1..(Len(p) + Len(q)) /\ ~(i + Len(p) <= Len(p))
                            /\ (i + Len(p)) - Len(p) = i
    BY <2>1
  <2>4. \A i \in 1..Len(p) : i \in 1..(Len(p) + Len(q)) /\ i <= Len(p)
    BY <2>1
  <2>5. DOMAIN (p \o q) = 1..(Len(p) + Len(q))
    BY <2>2, LenProperties
  <2> QED BY <2>1, <2>2, <2>3, <2>4, <2>5
<1>2. IsFiniteSet(P) /\ IsFiniteSet(Q) /\ Cardinality(P) \in Nat /\ Cardinality(Q) \in Nat
  <2>0. P \in SUBSET (1..Len(p)) /\ Q \in SUBSET (1..Len(q))
    BY <1>1
  <2> HIDE DEF P, Q
  <2>3. IsFiniteSet(1..Len(p)) /\ IsFiniteSet(1..Len(q))
    BY <1>1, FS_Interval
  <2>1. IsFiniteSet(P)
    BY <2>0, <2>3, FS_Subset
  <2>2. IsFiniteSet(Q)
    BY <2>0, <2>3, FS_Subset
  <2> QED BY <2>1, <2>2, FS_CardinalityType
<1>3. f \in Bijection(Q, M)
  <2>1. \A i \in Q : i \in 1..Len(q) /\ i + Len(p) \in M
    BY <1>1
  <2>2. \A m \in M : m - Len(p) \in Q /\ (m - Len(p)) + Len(p) = m
    <3> SUFFICES ASSUME NEW m \in M PROVE m - Len(p) \in Q /\ (m - Len(p)) + Len(p) = m
      OBVIOUS
    <3>1. m \in 1..(Len(p) + Len(q)) /\ m > Len(p)
      BY <1>1
    <3>2. m - Len(p) \in 1..Len(q) /\ (m - Len(p)) + Len(p) = m
      BY <1>1, <3>1
    <3> QED BY <1>1, <3>2
  <2>3. \A i \in Q : i \in Nat
    BY <1>1
  <2> HIDE DEF Q, M
  <2>4. f \in [Q -> M]
    BY <2>1
  <2>5. \A i, j \in Q : f[i] = f[j] => i = j
    BY <1>1, <2>3
  <2>6. \A m \in M : \E i \in Q : f[i] = m
    BY <2>2
  <2> HIDE DEF f
  <2> QED BY <2>4, <2>5, <2>6 DEF Bijection, Injection, Surjection, IsInjective
<1>4. IsFiniteSet(M) /\ Cardinality(M) = Cardinality(Q)
  <2> HIDE DEF f, Q, M
  <2> QED BY <1>2, <1>3, FS_Bijection DEF ExistsBijection
<1>5. R = P \cup M /\ P \cap M = {}
  BY <1>1
<1>6. Cardinality(R) = Cardinality(P) + Cardinality(Q)
  <2> HIDE DEF P, Q, R, M
  <2>1. Cardinality(P \cup M) = Cardinality(P) + Cardinality(M) - Cardinality(P \cap M)
    BY <1>2, <1>4, FS_Union
  <2>2. Cardinality(P \cap M) = 0
    BY <1>5, FS_EmptySet
  <2> QED BY <2>1, <2>2, <1>2, <1>4, <1>5
<1> QED BY <1>6 DEF Count

(* One more at the end, and one fewer at the front.                        *)
LEMMA CountPush ==
  ASSUME NEW c, NEW n, NEW q \in Seq(Item), NEW x \in Item
  PROVE  Count(Append(q, x), c, n) = Count(q, c, n) + (IF x.c = c /\ x.n = n THEN 1 ELSE 0)
<1>1. <<x>> \in Seq(Item) /\ Append(q, x) = q \o <<x>>
  OBVIOUS
<1>2. Count(<<x>>, c, n) = IF x.c = c /\ x.n = n THEN 1 ELSE 0
  <2> DEFINE P == {i \in DOMAIN <<x>> : <<x>>[i].c = c /\ <<x>>[i].n = n}
  <2>1. P = IF x.c = c /\ x.n = n THEN {1} ELSE {}
    OBVIOUS
  <2>2. Cardinality({1}) = 1 /\ Cardinality({}) = 0
    BY FS_Singleton, FS_EmptySet
  <2> QED BY <2>1, <2>2 DEF Count
<1>3. Count(q \o <<x>>, c, n) = Count(q, c, n) + Count(<<x>>, c, n)
  <2> DEFINE u == <<x>>
  <2>1. u \in Seq(Item)
    BY <1>1
  <2> HIDE DEF u
  <2>2. Count(q \o u, c, n) = Count(q, c, n) + Count(u, c, n)
    BY <2>1, CountBoth
  <2> QED BY <2>2 DEF u
<1> QED BY <1>1, <1>2, <1>3

(* The head of a queue counts, or it does not. *)
LEMMA CountPop ==
  ASSUME NEW c, NEW n, NEW q \in Seq(Item), q # <<>>
  PROVE  Count(q, c, n) = Count(Tail(q), c, n)
                          + (IF Head(q).c = c /\ Head(q).n = n THEN 1 ELSE 0)
<1>1. Head(q) \in Item /\ Tail(q) \in Seq(Item)
  BY PopHead
<1>2. q = <<Head(q)>> \o Tail(q)
  BY HeadTailProperties, ConcatProperties
<1>3. <<>> \in Seq(Item) /\ Append(<<>>, Head(q)) = <<Head(q)>> /\ <<Head(q)>> \in Seq(Item)
  BY <1>1
<1>4. Count(<<>>, c, n) = 0
  <2>1. ToSet(<<>>) = {}
    BY DEF ToSet
  <2> QED BY <1>3, <2>1, CountNone
<1>5. Count(<<Head(q)>>, c, n) = IF Head(q).c = c /\ Head(q).n = n THEN 1 ELSE 0
  <2>1. Count(Append(<<>>, Head(q)), c, n)
          = Count(<<>>, c, n) + (IF Head(q).c = c /\ Head(q).n = n THEN 1 ELSE 0)
    <3> DEFINE o == <<>>
    <3>1. o \in Seq(Item) /\ Head(q) \in Item
      BY <1>1, <1>3
    <3> HIDE DEF o
    <3>2. Count(Append(o, Head(q)), c, n)
            = Count(o, c, n) + (IF Head(q).c = c /\ Head(q).n = n THEN 1 ELSE 0)
      BY <3>1, CountPush
    <3> QED BY <3>2 DEF o
  <2> QED BY <1>3, <1>4, <2>1
<1>6. Count(q, c, n) = Count(<<Head(q)>>, c, n) + Count(Tail(q), c, n)
  <2>1. Count(<<Head(q)>> \o Tail(q), c, n) = Count(<<Head(q)>>, c, n) + Count(Tail(q), c, n)
    <3> DEFINE o == <<Head(q)>>
               t == Tail(q)
    <3>1. o \in Seq(Item) /\ t \in Seq(Item)
      BY <1>1, <1>3
    <3> HIDE DEF o, t
    <3>2. Count(o \o t, c, n) = Count(o, c, n) + Count(t, c, n)
      BY <3>1, CountBoth
    <3> QED BY <3>2 DEF o, t
  <2> QED BY <1>2, <2>1
<1>7. Count(Tail(q), c, n) \in Nat
  BY <1>1, CountNat
<1> QED BY <1>5, <1>6, <1>7

(* What Sift leaves out does not count if it is not of the client's number. *)
LEMMA CountSift ==
  ASSUME NEW c, NEW n, NEW q \in Seq(Item), NEW P,
         \A x \in ToSet(q) : x.c = c /\ x.n = n => x \in P
  PROVE  Count(Sift(q, P), c, n) = Count(q, c, n)
<1>0. PICK F : /\ F = [i \in 0..Len(q) |->
                          IF i = 0 THEN <<>>
                          ELSE IF q[i] \in P THEN Append(F[i - 1], q[i]) ELSE F[i - 1]]
               /\ Sift(q, P) = F[Len(q)]
  BY SiftFcn
<1>1. Len(q) \in Nat /\ DOMAIN q = 1..Len(q) /\ \A i \in 1..Len(q) : q[i] \in Item
  BY LenProperties, ElementOfSeq
<1> DEFINE Up(m) == {i \in 1..m : q[i].c = c /\ q[i].n = n}
           Good(m) == /\ F[m] \in Seq(Item)
                      /\ IsFiniteSet(Up(m))
                      /\ Count(F[m], c, n) = Cardinality(Up(m))
<1> HIDE DEF Good
<1>2. \A m \in 0..Len(q) : Good(m)
  <2> DEFINE T == {m \in Nat : m \in 0..Len(q) /\ ~Good(m)}
  <2> SUFFICES ASSUME T # {} PROVE FALSE
    BY <1>1
  <2>1. PICK m \in T : \A k \in T : m <= k
    <3> HIDE DEF T
    <3>1. T \in SUBSET Nat
      BY DEF T
    <3> QED BY <3>1, LeastNat
  <2>2. Good(0)
    <3>1. F[0] = <<>>
      BY <1>0, <1>1
    <3>2. <<>> \in Seq(Item) /\ ToSet(<<>>) = {}
      BY DEF ToSet
    <3>3. Count(<<>>, c, n) = 0
      BY <3>2, CountNone
    <3>4. Up(0) = {}
      OBVIOUS
    <3> HIDE DEF Up
    <3> QED BY <3>1, <3>2, <3>3, <3>4, FS_EmptySet DEF Good
  <2>3. m # 0 /\ m \in 1..Len(q) /\ m - 1 \in 0..Len(q) /\ m - 1 \in Nat
    BY <2>1, <2>2, <1>1
  <2>4. Good(m - 1)
    BY <2>1, <2>3
  <2>5. F[m] = IF q[m] \in P THEN Append(F[m - 1], q[m]) ELSE F[m - 1]
    BY <1>0, <2>3
  <2> DEFINE G == F[m - 1]
             mine == q[m].c = c /\ q[m].n = n
  <2>6. G \in Seq(Item) /\ IsFiniteSet(Up(m - 1)) /\ Count(G, c, n) = Cardinality(Up(m - 1))
    BY <2>4 DEF Good
  <2>7. Up(m) = IF mine THEN Up(m - 1) \cup {m} ELSE Up(m - 1)
    BY <2>3
  <2>8. m \notin Up(m - 1)
    BY <2>3
  <2>9. /\ IsFiniteSet(Up(m))
        /\ Cardinality(Up(m)) = Cardinality(Up(m - 1)) + (IF mine THEN 1 ELSE 0)
        /\ Cardinality(Up(m - 1)) \in Nat
    <3> HIDE DEF Up, mine
    <3>1. Cardinality(Up(m - 1)) \in Nat
      BY <2>6, FS_CardinalityType
    <3> QED BY <3>1, <2>6, <2>7, <2>8, FS_AddElement
  <2>10. q[m] \in Item /\ (mine => q[m] \in P)
    BY <1>1, <2>3 DEF ToSet
  <2>11. Good(m)
    <3> HIDE DEF Up, G
    <3>1. CASE q[m] \in P
      <4>1. F[m] = Append(G, q[m]) /\ Append(G, q[m]) \in Seq(Item)
        BY <3>1, <2>5, <2>6, <2>10 DEF G
      <4>2. Count(Append(G, q[m]), c, n) = Count(G, c, n) + (IF mine THEN 1 ELSE 0)
        BY <2>6, <2>10, CountPush
      <4> QED BY <4>1, <4>2, <2>6, <2>9 DEF Good
    <3>2. CASE q[m] \notin P
      <4>1. F[m] = G /\ ~mine
        BY <3>2, <2>5, <2>10 DEF G
      <4> HIDE DEF mine
      <4> QED BY <4>1, <2>6, <2>9 DEF Good
    <3> QED BY <3>1, <3>2
  <2> QED BY <2>1, <2>11
<1>3. Good(Len(q))
  BY <1>1, <1>2
<1>4. Up(Len(q)) = {i \in DOMAIN q : q[i].c = c /\ q[i].n = n}
  BY <1>1
<1> QED BY <1>0, <1>3, <1>4 DEF Good, Count

-----------------------------------------------------------------------------
(* A queue that keeps some of its items keeps them in order.               *)
Thin(r, q) == ToSet(r) \subseteq ToSet(q) /\ (Sorted(q) => Sorted(r))

(* The tail of a queue, of which the head was the oldest. *)
LEMMA ThinTail ==
  ASSUME NEW q \in Seq(Item), q # <<>>
  PROVE  Thin(Tail(q), q) /\ (Sorted(q) => Before(<<Head(q)>>, Tail(q)))
         /\ Head(q) \in ToSet(q)
<1>1. /\ Head(q) = q[1] /\ Tail(q) \in Seq(Item)
      /\ Len(q) \in Nat \ {0} /\ Len(Tail(q)) = Len(q) - 1
      /\ \A i \in 1..(Len(q) - 1) : Tail(q)[i] = q[i + 1]
  BY PopHead
<1>2. DOMAIN q = 1..Len(q) /\ DOMAIN Tail(q) = 1..(Len(q) - 1)
  BY <1>1, LenProperties
<1> DEFINE t == Tail(q)
<1>3. \A i \in DOMAIN t : i + 1 \in DOMAIN q /\ t[i] = q[i + 1] /\ 1 < i + 1 /\ 1 \in DOMAIN q
  BY <1>1, <1>2
<1>4. \A i, j \in DOMAIN t : i < j => i + 1 < j + 1
  BY <1>2
<1>5. ToSet(<<Head(q)>>) = {q[1]}
  BY <1>1 DEF ToSet
<1> HIDE DEF t
<1>6. ToSet(t) \subseteq ToSet(q)
  BY <1>3 DEF ToSet
<1>7. Sorted(q) => Sorted(t)
  BY <1>3, <1>4 DEF Sorted
<1>8. Sorted(q) => Before(<<Head(q)>>, t)
  BY <1>3, <1>5 DEF Sorted, Before, ToSet
<1>9. Head(q) \in ToSet(q)
  BY <1>1, <1>2 DEF ToSet
<1> QED BY <1>6, <1>7, <1>8, <1>9 DEF Thin, t

(* Nothing at all, or all of it. *)
LEMMA ThinNone ==
  ASSUME NEW q
  PROVE  Thin(<<>>, q) /\ Thin(q, q)
<1>1. ToSet(<<>>) = {} /\ DOMAIN <<>> = {}
  BY DEF ToSet
<1> QED BY <1>1 DEF Thin, Sorted

(* What Sift leaves. *)
LEMMA ThinSift ==
  ASSUME NEW q \in Seq(Item), NEW P
  PROVE  Thin(Sift(q, P), q) /\ ToSet(Sift(q, P)) \subseteq P
<1>1. /\ ToSet(Sift(q, P)) = ToSet(q) \cap P
      /\ \A a, b \in DOMAIN Sift(q, P) : a < b =>
           \E i, j \in DOMAIN q : i < j /\ q[i] = Sift(q, P)[a] /\ q[j] = Sift(q, P)[b]
  BY SiftProps
<1>2. Sorted(q) => Sorted(Sift(q, P))
  <2> DEFINE r == Sift(q, P)
  <2>1. \A a, b \in DOMAIN r : a < b =>
          \E i, j \in DOMAIN q : i < j /\ q[i] = r[a] /\ q[j] = r[b]
    BY <1>1
  <2> HIDE DEF r
  <2>2. Sorted(q) => Sorted(r)
    <3> SUFFICES ASSUME Sorted(q), NEW a \in DOMAIN r, NEW b \in DOMAIN r, a < b,
                        Comparable(r[a], r[b])
                 PROVE  r[a].n < r[b].n
      BY DEF Sorted
    <3>1. PICK i \in DOMAIN q, j \in DOMAIN q : i < j /\ q[i] = r[a] /\ q[j] = r[b]
      BY <2>1
    <3> QED BY <3>1 DEF Sorted
  <2> QED BY <2>2 DEF r
<1> QED BY <1>1, <1>2 DEF Thin

(* Two queues, one behind the other.                                       *)
LEMMA SortedBoth ==
  ASSUME NEW p \in Seq(Item), NEW q \in Seq(Item), Sorted(p), Sorted(q), Before(p, q)
  PROVE  Sorted(p \o q) /\ ToSet(p \o q) = ToSet(p) \cup ToSet(q)
<1> DEFINE r == p \o q
<1>1. Len(p) \in Nat /\ Len(q) \in Nat /\ DOMAIN p = 1..Len(p) /\ DOMAIN q = 1..Len(q)
  BY LenProperties
<1>2. /\ r \in Seq(Item) /\ Len(r) = Len(p) + Len(q)
      /\ \A i \in 1..(Len(p) + Len(q)) : r[i] = IF i <= Len(p) THEN p[i] ELSE q[i - Len(p)]
  BY ConcatProperties
<1>3. DOMAIN r = 1..(Len(p) + Len(q))
  BY <1>2, LenProperties
<1> HIDE DEF r
<1>4. ASSUME NEW i \in DOMAIN r, NEW j \in DOMAIN r, i < j, Comparable(r[i], r[j])
      PROVE  r[i].n < r[j].n
  <2>1. CASE j <= Len(p)
    <3>1. r[i] = p[i] /\ r[j] = p[j] /\ i \in DOMAIN p /\ j \in DOMAIN p
      BY <2>1, <1>1, <1>2, <1>3, <1>4
    <3> QED BY <3>1, <1>4 DEF Sorted
  <2>2. CASE i <= Len(p) /\ ~(j <= Len(p))
    <3>1. r[i] = p[i] /\ r[j] = q[j - Len(p)] /\ i \in DOMAIN p /\ j - Len(p) \in DOMAIN q
      BY <2>2, <1>1, <1>2, <1>3, <1>4
    <3> QED BY <3>1, <1>4 DEF Before, ToSet
  <2>3. CASE ~(i <= Len(p))
    <3>1. /\ r[i] = q[i - Len(p)] /\ r[j] = q[j - Len(p)]
          /\ i - Len(p) \in DOMAIN q /\ j - Len(p) \in DOMAIN q /\ i - Len(p) < j - Len(p)
      BY <2>3, <1>1, <1>2, <1>3, <1>4
    <3> QED BY <3>1, <1>4 DEF Sorted
  <2> QED BY <2>1, <2>2, <2>3
<1>5. ToSet(r) = ToSet(p) \cup ToSet(q)
  BY BothQueues DEF r
<1> QED BY <1>4, <1>5 DEF Sorted, r

(* And the other way round: the two parts of a queue in order.             *)
LEMMA SortedParts ==
  ASSUME NEW p \in Seq(Item), NEW q \in Seq(Item), Sorted(p \o q)
  PROVE  Sorted(p) /\ Sorted(q) /\ Before(p, q)
<1> DEFINE r == p \o q
<1>1. Len(p) \in Nat /\ Len(q) \in Nat /\ DOMAIN p = 1..Len(p) /\ DOMAIN q = 1..Len(q)
  BY LenProperties
<1>2. /\ r \in Seq(Item) /\ Len(r) = Len(p) + Len(q)
      /\ \A i \in 1..(Len(p) + Len(q)) : r[i] = IF i <= Len(p) THEN p[i] ELSE q[i - Len(p)]
  BY ConcatProperties
<1>3. DOMAIN r = 1..(Len(p) + Len(q))
  BY <1>2, LenProperties
<1>4. Sorted(r)
  OBVIOUS
<1> HIDE DEF r
<1>5. \A i \in DOMAIN p : i \in DOMAIN r /\ r[i] = p[i]
  BY <1>1, <1>2, <1>3
<1>6. \A i \in DOMAIN q : i + Len(p) \in DOMAIN r /\ r[i + Len(p)] = q[i]
  <2> SUFFICES ASSUME NEW i \in DOMAIN q
               PROVE  i + Len(p) \in DOMAIN r /\ r[i + Len(p)] = q[i]
    OBVIOUS
  <2>1. i + Len(p) \in 1..(Len(p) + Len(q)) /\ ~(i + Len(p) <= Len(p)) /\ (i + Len(p)) - Len(p) = i
    BY <1>1
  <2> QED BY <2>1, <1>2, <1>3
<1>7. Sorted(p)
  BY <1>4, <1>5 DEF Sorted
<1>8. Sorted(q)
  <2> SUFFICES ASSUME NEW i \in DOMAIN q, NEW j \in DOMAIN q, i < j, Comparable(q[i], q[j])
               PROVE  q[i].n < q[j].n
    BY DEF Sorted
  <2>1. i + Len(p) < j + Len(p)
    BY <1>1
  <2> QED BY <2>1, <1>4, <1>6 DEF Sorted
<1>9. Before(p, q)
  <2> SUFFICES ASSUME NEW i \in DOMAIN p, NEW j \in DOMAIN q, Comparable(p[i], q[j])
               PROVE  p[i].n < q[j].n
    BY DEF Before, ToSet
  <2>1. i < j + Len(p)
    BY <1>1
  <2> QED BY <2>1, <1>4, <1>5, <1>6 DEF Sorted
<1> QED BY <1>7, <1>8, <1>9

(* One step of a queue: it keeps some of what it had, and gets u behind    *)
(* that, which is younger than what is ahead and older than what follows.  *)
LEMMA FlowStep ==
  ASSUME NEW s \in [1..8 -> Seq(Item)], NEW t \in [1..8 -> Seq(Item)], Flows(s),
         NEW a \in 1..8, NEW r \in Seq(Item), NEW u \in Seq(Item),
         t[a] = r \o u, Thin(r, s[a]), Sorted(u), Before(r, u),
         \A m \in 1..8 \ {a} : /\ Thin(t[m], s[m])
                               /\ m < a => Before(t[m], u)
                               /\ m > a => Before(u, t[m])
  PROVE  Flows(t)
<1>1. Sorted(r)
  BY DEF Thin, Flows
<1>2. Sorted(t[a]) /\ ToSet(t[a]) = ToSet(r) \cup ToSet(u)
  BY <1>1, SortedBoth
<1>3. \A m \in 1..8 : Sorted(t[m])
  BY <1>2 DEF Thin, Flows
<1>4. ASSUME NEW m \in 1..8, NEW k \in 1..8, m < k PROVE Before(t[m], t[k])
  <2>1. CASE m # a /\ k # a
    BY <2>1, <1>4 DEF Flows, Thin, Before
  <2>2. CASE m = a
    <3>1. Before(s[a], s[k]) /\ Before(u, t[k]) /\ Thin(t[k], s[k])
      <4>1. k \in 1..8 \ {a} /\ k > a /\ a < k
        BY <2>2, <1>4
      <4>2. Before(u, t[k]) /\ Thin(t[k], s[k])
        BY <4>1
      <4>3. Before(s[a], s[k])
        BY <4>1 DEF Flows
      <4> QED BY <4>2, <4>3
    <3> QED BY <3>1, <2>2, <1>2 DEF Before, Thin
  <2>3. CASE k = a
    <3>1. Before(s[m], s[a]) /\ Before(t[m], u) /\ Thin(t[m], s[m])
      <4>1. m \in 1..8 \ {a} /\ m < a
        BY <2>3, <1>4
      <4>2. Before(t[m], u) /\ Thin(t[m], s[m])
        BY <4>1
      <4>3. Before(s[m], s[a])
        BY <4>1 DEF Flows
      <4> QED BY <4>2, <4>3
    <3> QED BY <3>1, <2>3, <1>2 DEF Before, Thin
  <2> QED BY <2>1, <2>2, <2>3
<1> QED BY <1>3, <1>4 DEF Flows

(* Something moves from the front of queue b to the end of queue a.        *)
LEMMA FlowMove ==
  ASSUME NEW s \in [1..8 -> Seq(Item)], NEW t \in [1..8 -> Seq(Item)], Flows(s),
         NEW a \in 1..8, NEW b \in 1..8, a < b, NEW u \in Seq(Item),
         t[a] = s[a] \o u, Thin(u, s[b]), Thin(t[b], s[b]), Before(u, t[b]),
         \A m \in 1..8 \ {a, b} : t[m] = s[m],
         \A m \in 1..8 : a < m /\ m < b => Before(u, s[m])
  PROVE  Flows(t)
<1>1. Sorted(u) /\ Before(s[a], u)
  BY DEF Flows, Thin, Before
<1>2. Thin(s[a], s[a])
  BY ThinNone
<1>3. ASSUME NEW m \in 1..8 \ {a}
      PROVE  Thin(t[m], s[m]) /\ (m < a => Before(t[m], u)) /\ (m > a => Before(u, t[m]))
  <2>1. CASE m = b
    BY <2>1
  <2>2. CASE m # b
    <3>1. t[m] = s[m] /\ Thin(t[m], s[m])
      BY <2>2, ThinNone
    <3>2. ASSUME m < a PROVE Before(s[m], u)
      <4>1. Before(s[m], s[b])
        <5>1. m < b
          BY <3>2
        <5> QED BY <5>1 DEF Flows
      <4> QED BY <4>1 DEF Thin, Before
    <3>3. ASSUME m > a PROVE Before(u, s[m])
      <4>1. CASE m > b
        <5>1. Before(s[b], s[m])
          BY <4>1 DEF Flows
        <5> QED BY <5>1 DEF Thin, Before
      <4>2. CASE a < m /\ m < b
        BY <4>2
      <4>3. m > b \/ (a < m /\ m < b)
        BY <3>3, <2>2
      <4> QED BY <4>1, <4>2, <4>3
    <3> QED BY <3>1, <3>2, <3>3
  <2> QED BY <2>1, <2>2
<1>4. s[a] \in Seq(Item)
  OBVIOUS
<1> QED BY <1>1, <1>2, <1>3, <1>4, FlowStep

(* Queues lose something.                                                  *)
LEMMA FlowThin ==
  ASSUME NEW s, NEW t, Flows(s), \A m \in 1..8 : Thin(t[m], s[m])
  PROVE  Flows(t)
<1>1. \A m \in 1..8 : Sorted(t[m])
  BY DEF Thin, Flows
<1>2. ASSUME NEW m \in 1..8, NEW k \in 1..8, m < k PROVE Before(t[m], t[k])
  BY <1>2 DEF Flows, Thin, Before
<1> QED BY <1>1, <1>2 DEF Flows

-----------------------------------------------------------------------------
(* The kinds of items, and those of each queue. *)
LEMMA KindsOfItems ==
  /\ Stop \in Item /\ Stop.k = "stop" /\ Stop.c = "none" /\ Stop.n = 0
  /\ \A n \in Nat : EventNo(n) \in Item /\ EventNo(n).k = "event" /\ EventNo(n).c = "none"
                    /\ EventNo(n).n = n
  /\ "none" \notin Client /\ "accept" \notin Client /\ "notify" \notin Client
  /\ \A x \in Item : x.k \in Raw \cup Dealt \cup {"event", "stop"} /\ x.n \in Nat
  /\ KindsAt[1] = {"reply", "event"} /\ KindsAt[2] = {"reply", "event"}
  /\ KindsAt[3] = {"reply", "event", "stop"}
  /\ KindsAt[4] = {"frame"} /\ KindsAt[5] = {"frame"}
  /\ KindsAt[6] = Raw \cup Dealt \cup {"event"} /\ KindsAt[7] = Raw \cup {"stop"}
  /\ KindsAt[8] = Raw
BY HubNetAssumption DEF Stop, EventNo, Item, Raw, Dealt, KindsAt

(* The queues by their number, now and after a step. *)
LEMMA StageAt ==
  ASSUME NEW c
  PROVE  /\ Stages(c)[1] = got[c] /\ Stages(c)[2] = cliq[c] /\ Stages(c)[3] = outq
         /\ Stages(c)[4] = line /\ Stages(c)[5] = phyq /\ Stages(c)[6] = dataq
         /\ Stages(c)[7] = inq /\ Stages(c)[8] = sock[c] /\ DOMAIN Stages(c) = 1..8
         /\ Stages(c) = [i \in 1..8 |-> Stages(c)[i]]
BY DEF Stages

(* The same queues after the step. *)
LEMMA StageAtNext ==
  ASSUME NEW c
  PROVE  /\ Stages(c)'[1] = got'[c] /\ Stages(c)'[2] = cliq'[c] /\ Stages(c)'[3] = outq'
         /\ Stages(c)'[4] = line' /\ Stages(c)'[5] = phyq' /\ Stages(c)'[6] = dataq'
         /\ Stages(c)'[7] = inq' /\ Stages(c)'[8] = sock'[c] /\ DOMAIN Stages(c)' = 1..8
         /\ Stages(c)' = [i \in 1..8 |-> Stages(c)'[i]]
BY DEF Stages

(* A sequence of some is a sequence of more. *)
LEMMA SeqGrows ==
  ASSUME NEW S, NEW T, S \subseteq T, NEW q \in Seq(S)
  PROVE  q \in Seq(T)
OBVIOUS

(* The end of the network thread empties what it has. *)
LEMMA EndTypes ==
  ASSUME NEW how, End(how)
  PROVE  /\ inputs' \in Seq(Client) /\ backlog' \in Seq(Client)
         /\ rd' \in Seq(Client \cup {"accept", "notify"})
<1>1. inputs' = <<>> /\ backlog' = <<>> /\ rd' = <<>>
  BY DEF End
<1> QED BY <1>1

(* The head of a queue is in it.                                           *)
LEMMA ThinHead ==
  ASSUME NEW S, NEW q \in Seq(S), q # <<>>
  PROVE  Head(q) \in ToSet(q)
<1>1. Head(q) = q[1] /\ Len(q) \in Nat \ {0}
  BY PopHead
<1>2. 1 \in 1..Len(q)
  BY <1>1
<1> QED BY <1>1, <1>2, ToSetProps

(* The numbers of the queues, one by one. *)
LEMMA Eight == 1..8 = {1, 2, 3, 4, 5, 6, 7, 8}
OBVIOUS

(* Every stage is a queue of items. *)
LEMMA StagesType ==
  ASSUME NetTypes, NEW c \in Client
  PROVE  Stages(c) \in [1..8 -> Seq(Item)]
<1>0. /\ got[c] \in Seq(Item) /\ cliq[c] \in Seq(Item) /\ sock[c] \in Seq(Item)
      /\ outq \in Seq(Item) /\ dataq \in Seq(Item) /\ inq \in Seq(Item)
      /\ phyq \in Seq(Item) /\ line \in Seq(Item)
  BY DEF NetTypes
<1>1. \A i \in 1..8 : Stages(c)[i] \in Seq(Item)
  BY <1>0, StageAt, Eight
<1> QED BY <1>1, StageAt

(* And it is one after the step. *)
LEMMA StagesTypeNext ==
  ASSUME NetTypes', NEW c \in Client
  PROVE  Stages(c)' \in [1..8 -> Seq(Item)]
<1>0. /\ got'[c] \in Seq(Item) /\ cliq'[c] \in Seq(Item) /\ sock'[c] \in Seq(Item)
      /\ outq' \in Seq(Item) /\ dataq' \in Seq(Item) /\ inq' \in Seq(Item)
      /\ phyq' \in Seq(Item) /\ line' \in Seq(Item)
  BY DEF NetTypes
<1>1. \A i \in 1..8 : Stages(c)'[i] \in Seq(Item)
  BY <1>0, StageAtNext, Eight
<1> QED BY <1>1, StageAtNext

(* One member of a family of queues gets another value.                    *)
LEMMA OneQueue ==
  ASSUME NEW f \in [Client -> Seq(Item)], NEW c \in Client, NEW q \in Seq(Item)
  PROVE  [f EXCEPT ![c] = q] \in [Client -> Seq(Item)]
OBVIOUS

(* A queue in three parts: what is in it, its order, and what it counts.   *)
InThree(q, u, d, v) == q = (u \o d) \o v

LEMMA ThreeParts ==
  ASSUME NEW u \in Seq(Item), NEW d \in Seq(Item), NEW v \in Seq(Item), NEW q,
         InThree(q, u, d, v)
  PROVE  /\ q \in Seq(Item) /\ ToSet(q) = ToSet(u) \cup ToSet(d) \cup ToSet(v)
         /\ Thin(u, q) /\ Thin(v, q) /\ (Sorted(q) => Before(u, v))
         /\ \A c, n : Count(q, c, n) = Count(u, c, n) + Count(d, c, n) + Count(v, c, n)
<1>1. PICK o : o = u \o d
  OBVIOUS
<1>2. o \in Seq(Item) /\ ToSet(o) = ToSet(u) \cup ToSet(d)
  BY <1>1, BothQueues
<1>3. q = o \o v
  BY <1>1 DEF InThree
<1>4. q \in Seq(Item) /\ ToSet(q) = ToSet(o) \cup ToSet(v)
  BY <1>2, <1>3, BothQueues
<1>5. Sorted(q) => Sorted(o) /\ Sorted(v) /\ Before(o, v)
  BY <1>2, <1>3, SortedParts
<1>6. Sorted(o) => Sorted(u)
  BY <1>1, SortedParts
<1>7. ASSUME NEW c, NEW n
      PROVE  Count(q, c, n) = Count(u, c, n) + Count(d, c, n) + Count(v, c, n)
  <2>1. Count(q, c, n) = Count(o, c, n) + Count(v, c, n)
    BY <1>2, <1>3, CountBoth
  <2>2. Count(o, c, n) = Count(u, c, n) + Count(d, c, n)
    BY <1>1, CountBoth
  <2> QED BY <2>1, <2>2
<1> QED BY <1>2, <1>4, <1>5, <1>6, <1>7 DEF Thin, Before

(* What is in the socket of a client are commands of that client.          *)
LEMMA SockFits ==
  ASSUME FlowInv, NEW c \in Client
  PROVE  /\ Sorted(sock[c]) /\ Before(inq, sock[c])
         /\ \A x \in ToSet(sock[c]) : x.k \in Raw /\ x.c = c /\ Fits(c, 8, x)
<1>1. StagesInv(c) /\ Stages(c)[8] = sock[c] /\ Stages(c)[7] = inq /\ 7 \in 1..8 /\ 8 \in 1..8
  BY StageAt DEF FlowInv
<1>2. Sorted(sock[c]) /\ Before(inq, sock[c])
  BY <1>1 DEF StagesInv, Flows
<1>3. \A x \in ToSet(sock[c]) : Fits(c, 8, x)
  BY <1>1 DEF StagesInv
<1>4. \A x : Fits(c, 8, x) => x.k \in Raw /\ x.c = c
  BY KindsOfItems DEF Fits, Raw
<1> QED BY <1>2, <1>3, <1>4

(* A packet of client c: u goes to the manager, d is dropped, v is still   *)
(* in the socket; z: it ended in the middle of a command.                   *)
Parts(c, u, d, v, z) ==
  /\ c = Head(rd) /\ rd # <<>> /\ rd' = Tail(rd)
  /\ sock[c] = (u \o d) \o v
  /\ inq' = inq \o u /\ sock' = [sock EXCEPT ![c] = v] /\ lost' = lost \cup ToSet(d)
  /\ torn' = [torn EXCEPT ![c] = z]
  /\ UNCHANGED <<peer, sent, got, backlog, net, inputs, outputs, wr, outq, notes, cliq,
                 cmdproc, mgrv, phyv, mainv>>

(* What one recv returns splits what is in the socket: u goes on, d is     *)
(* lost, v stays.                                                          *)
LEMMA ReceiveParts ==
  ASSUME NetTypes, Receive
  PROVE  \E c \in Client, u \in Seq(Item), d \in Seq(Item), v \in Seq(Item), z \in BOOLEAN :
           Parts(c, u, d, v, z)
<1>1. PICK c \in Client : c = Head(rd) /\ rd # <<>>
  BY DEF Receive
<1>2. PICK p \in Packet(c) :
         /\ inq' = inq \o Commands(c, p) /\ lost' = lost \cup Dropped(c, p)
         /\ sock' = [sock EXCEPT ![c] = SubSeq(@, Behind(c, p) + 1, Len(@))]
         /\ torn' = [torn EXCEPT ![c] = p.cut]
  BY <1>1 DEF Receive
<1>3. PICK q \in Seq(Item) : q = sock[c]
  BY DEF NetTypes
<1>4. PICK i \in Nat, j \in Nat :
         /\ i = (IF torn[c] THEN 0 ELSE p.k) /\ j = Behind(c, p) /\ i <= j /\ j <= Len(q)
         /\ p.cut \in BOOLEAN
  <2>1. p.k \in 0..Len(q) /\ p.cut \in BOOLEAN /\ (p.cut => p.k < Len(q)) /\ Len(q) \in Nat
    BY <1>3, LenProperties DEF Packet
  <2>2. Behind(c, p) \in Nat /\ p.k <= Behind(c, p) /\ Behind(c, p) <= Len(q)
    BY <2>1 DEF Behind
  <2>3. PICK h : h = IF torn[c] THEN 0 ELSE p.k
    OBVIOUS
  <2>4. h \in Nat /\ h <= Behind(c, p)
    BY <2>1, <2>2, <2>3
  <2> QED BY <2>1, <2>2, <2>3, <2>4
<1>5. PICK u : u = SubSeq(q, 1, i)
  OBVIOUS
<1>6. PICK d : d = SubSeq(q, i + 1, j)
  OBVIOUS
<1>7. PICK v : v = SubSeq(q, j + 1, Len(q))
  OBVIOUS
<1>8. u \in Seq(Item) /\ d \in Seq(Item) /\ v \in Seq(Item) /\ q = (u \o d) \o v
  <2>1. Len(q) \in Nat /\ \A m \in 1..Len(q) : q[m] \in Item
    BY LenProperties, ElementOfSeq
  <2>2. u \in Seq(Item)
    <3>1. \A m \in 1..i : q[m] \in Item
      BY <2>1, <1>4
    <3> QED BY <3>1, <1>5, SubSeqProperties
  <2>3. d \in Seq(Item)
    <3>1. \A m \in (i + 1)..j : q[m] \in Item
      BY <2>1, <1>4
    <3>2. i + 1 \in Int /\ j \in Int
      OBVIOUS
    <3> QED BY <3>1, <3>2, <1>6, SubSeqProperties
  <2>4. v \in Seq(Item)
    <3>1. \A m \in (j + 1)..Len(q) : q[m] \in Item
      BY <2>1
    <3>2. j + 1 \in Int /\ Len(q) \in Int
      BY <2>1
    <3> QED BY <3>1, <3>2, <1>7, SubSeqProperties
  <2>5. u \o d = SubSeq(q, 1, j)
    <3>1. 1 \in 1..(Len(q) + 1) /\ i \in (1 - 1)..Len(q) /\ j \in i..Len(q)
      BY <2>1, <1>4
    <3>2. SubSeq(q, 1, i) \o SubSeq(q, i + 1, j) = SubSeq(q, 1, j)
      BY <3>1, ConcatAdjacentSubSeq
    <3> QED BY <3>2, <1>5, <1>6
  <2>6. SubSeq(q, 1, j) \o v = SubSeq(q, 1, Len(q))
    <3>1. 1 \in 1..(Len(q) + 1) /\ j \in (1 - 1)..Len(q) /\ Len(q) \in j..Len(q)
      BY <2>1, <1>4
    <3>2. SubSeq(q, 1, j) \o SubSeq(q, j + 1, Len(q)) = SubSeq(q, 1, Len(q))
      BY <3>1, ConcatAdjacentSubSeq
    <3> QED BY <3>2, <1>7
  <2>7. SubSeq(q, 1, Len(q)) = q
    BY SubSeqFull
  <2> QED BY <2>2, <2>3, <2>4, <2>5, <2>6, <2>7
<1>9. Commands(c, p) = u
  <2>1. CASE torn[c]
    <3>1. i = 0 /\ SubSeq(q, 1, 0) = <<>>
      BY <2>1, <1>4
    <3> QED BY <3>1, <2>1, <1>5 DEF Commands
  <2>2. CASE ~torn[c]
    BY <2>2, <1>3, <1>4, <1>5 DEF Commands
  <2> QED BY <2>1, <2>2
<1>10. Dropped(c, p) = ToSet(d)
  <2>1. SubSeq(sock[c], IF torn[c] THEN 1 ELSE p.k + 1, Behind(c, p)) = d
    <3>1. (IF torn[c] THEN 1 ELSE p.k + 1) = i + 1
      BY <1>4
    <3> QED BY <3>1, <1>3, <1>4, <1>6
  <2> QED BY <2>1 DEF Dropped, Range, ToSet
<1>11. sock' = [sock EXCEPT ![c] = v]
  BY <1>2, <1>3, <1>4, <1>7 DEF NetTypes
<1>12. UNCHANGED <<peer, sent, got, backlog, net, inputs, outputs, wr, outq, notes, cliq,
                   cmdproc, mgrv, phyv, mainv>> /\ rd' = Tail(rd)
  BY DEF Receive
<1>13. PICK z \in BOOLEAN : z = p.cut
  BY <1>4
<1>14. inq' = inq \o u /\ lost' = lost \cup ToSet(d) /\ torn' = [torn EXCEPT ![c] = z]
  BY <1>2, <1>9, <1>10, <1>13
<1>15. Parts(c, u, d, v, z)
  BY <1>1, <1>3, <1>8, <1>11, <1>12, <1>14 DEF Parts
<1> QED BY <1>8, <1>15

(* What that says of the socket. *)
LEMMA SockParts ==
  ASSUME NEW c \in Client, NEW u \in Seq(Item), NEW d \in Seq(Item), NEW v \in Seq(Item), NEW z,
         Parts(c, u, d, v, z)
  PROVE  /\ sock[c] \in Seq(Item)
         /\ ToSet(u) \subseteq ToSet(sock[c]) /\ ToSet(d) \subseteq ToSet(sock[c])
         /\ Thin(u, sock[c]) /\ Thin(v, sock[c])
         /\ Sorted(sock[c]) => Sorted(u) /\ Before(u, v)
         /\ \A b, n : Count(sock[c], b, n) = Count(u, b, n) + Count(d, b, n) + Count(v, b, n)
<1>1. PICK q : q = sock[c]
  OBVIOUS
<1>2. InThree(q, u, d, v)
  BY <1>1 DEF Parts, InThree
<1>3. /\ q \in Seq(Item) /\ ToSet(q) = ToSet(u) \cup ToSet(d) \cup ToSet(v)
      /\ Thin(u, q) /\ Thin(v, q) /\ (Sorted(q) => Before(u, v))
      /\ \A b, n : Count(q, b, n) = Count(u, b, n) + Count(d, b, n) + Count(v, b, n)
  <2>1. /\ q \in Seq(Item) /\ ToSet(q) = ToSet(u) \cup ToSet(d) \cup ToSet(v)
        /\ Thin(u, q) /\ Thin(v, q) /\ (Sorted(q) => Before(u, v))
    BY <1>2, ThreeParts
  <2>2. ASSUME NEW b, NEW n
        PROVE  Count(q, b, n) = Count(u, b, n) + Count(d, b, n) + Count(v, b, n)
    BY <1>2, ThreeParts
  <2> QED BY <2>1, <2>2
<1>4. Sorted(q) => Sorted(u)
  BY <1>3 DEF Thin
<1> QED BY <1>1, <1>3, <1>4

(* The steps of, and with, the audio thread.                               *)
AudioStep == AudioTold \/ AudioWoken \/ StopAudio \/ JoinAudio

(* The types, step by step; only Accept needs to know more than them. *)
LEMMA TypesNext ==
  ASSUME NetTypes, ClientsInv, NetNext
  PROVE  NetTypes'
<1> USE DEF clientv, netv, mgrv, phyv, mainv, audiov
<1>1. ASSUME NEW c \in Client, Connect(c) PROVE NetTypes'
  <2>1. backlog' \in Seq(Client)
    BY <1>1, PushTail DEF NetTypes, Connect
  <2> QED BY <1>1, <2>1 DEF NetTypes, Connect
<1>2. ASSUME NEW c \in Client, Close(c) PROVE NetTypes'
  <2>1. sock' \in [Client -> Seq(Item)] /\ torn' \in [Client -> BOOLEAN]
    <3>1. [sock EXCEPT ![c] = <<>>] \in [Client -> Seq(Item)]
      BY OneQueue DEF NetTypes
    <3> QED BY <1>2, <3>1 DEF NetTypes, Close
  <2> QED BY <1>2, <2>1 DEF NetTypes, Close
<1>3. ASSUME NEW c \in Client, NEW k \in {"get", "set"}, Send(c, k) PROVE NetTypes'
  <2>1. Append(sent[c], k) \in Seq({"get", "set"}) /\ Len(Append(sent[c], k)) \in Nat
    BY AppendProperties, LenProperties DEF NetTypes
  <2>2. sent' \in [Client -> Seq({"get", "set"})] /\ sent'[c] = Append(sent[c], k)
    BY <1>3, <2>1 DEF NetTypes, Send
  <2> DEFINE x == [k |-> k, c |-> c, n |-> Len(sent'[c])]
  <2>3. x \in Item
    BY <2>1, <2>2 DEF Item, Raw
  <2>4. sock' = [sock EXCEPT ![c] = Append(sock[c], x)]
    BY <1>3 DEF Send
  <2> HIDE DEF x
  <2>5. Append(sock[c], x) \in Seq(Item)
    BY <2>3, PushTail DEF NetTypes
  <2>6. sock' \in [Client -> Seq(Item)]
    BY <2>4, <2>5, OneQueue DEF NetTypes
  <2> QED BY <1>3, <2>2, <2>6 DEF NetTypes, Send
<1>4. CASE Select
  <2>1. Sift(inputs, {c \in Client : Readable(c)}) \in Seq(Client)
    BY SiftProps DEF NetTypes
  <2>2. rd' \in Seq(Client \cup {"accept", "notify"})
    <3> DEFINE a == IF backlog = <<>> THEN <<>> ELSE <<"accept">>
               b == IF notes = 0 THEN <<>> ELSE <<"notify">>
               d == Sift(inputs, {c \in Client : Readable(c)})
               W == Client \cup {"accept", "notify"}
    <3>1. a \in Seq(W) /\ b \in Seq(W) /\ d \in Seq(W)
      <4>1. <<>> \in Seq(W) /\ <<"accept">> \in Seq(W) /\ <<"notify">> \in Seq(W)
        OBVIOUS
      <4>2. d \in Seq(W)
        <5>1. Client \subseteq W
          OBVIOUS
        <5> HIDE DEF d, W
        <5> QED BY <2>1, <5>1, SeqGrows DEF d
      <4> HIDE DEF d, W
      <4> QED BY <4>1, <4>2
    <3>2. rd' = a \o b \o d
      BY <1>4 DEF Select
    <3> HIDE DEF a, b, d, W
    <3>3. rd' \in Seq(W)
      BY <3>1, <3>2
    <3> QED BY <3>3 DEF W
  <2> QED BY <1>4, <2>2 DEF NetTypes, Select
<1>5. CASE Accept
  <2>1. CASE End("dead")
    BY <1>5, <2>1, EndTypes DEF NetTypes, Accept
  <2>2. CASE ~End("dead")
    <3>1. "accept" \in ToSet(rd) /\ rd # <<>>
      BY <1>5, ThinHead DEF NetTypes, Accept
    <3>2. Head(backlog) \in Client /\ Tail(backlog) \in Seq(Client)
          /\ Tail(rd) \in Seq(Client \cup {"accept", "notify"})
      BY <3>1, PopHead DEF NetTypes, ClientsInv
    <3>3. Append(inputs, Head(backlog)) \in Seq(Client)
      BY <3>2, PushTail DEF NetTypes
    <3> QED BY <1>5, <2>2, <3>2, <3>3 DEF NetTypes, Accept
  <2> QED BY <2>1, <2>2
<1>6. CASE Notified
  <2>1. CASE Stop \in Range(outq)
    BY <1>6, <2>1, EndTypes DEF NetTypes, Notified
  <2>2. CASE Stop \notin Range(outq)
    <3>1. ASSUME NEW c \in Client
          PROVE  cliq[c] \o Sift(outq, {x \in Range(outq) : c \in Receivers(x)}) \in Seq(Item)
      <4> DEFINE u == Sift(outq, {x \in Range(outq) : c \in Receivers(x)})
      <4>1. u \in Seq(Item)
        BY SiftProps DEF NetTypes
      <4> HIDE DEF u
      <4>2. cliq[c] \o u \in Seq(Item)
        BY <4>1 DEF NetTypes
      <4> QED BY <4>2 DEF u
    <3>2. cliq' \in [Client -> Seq(Item)]
      BY <1>6, <2>2, <3>1 DEF Notified
    <3>3. Tail(rd) \in Seq(Client \cup {"accept", "notify"})
      BY <1>6, PopHead DEF NetTypes, Notified
    <3>4. UNCHANGED <<clientv, sock, torn, inq, mgrv, phyv, inputs, backlog>>
          /\ outq' = <<>> /\ rd' = Tail(rd)
      BY <1>6, <2>2 DEF Notified
    <3> QED BY <3>2, <3>3, <3>4 DEF NetTypes
  <2> QED BY <2>1, <2>2
<1>7. CASE Receive
  <2>0. PICK c \in Client, u \in Seq(Item), d \in Seq(Item), v \in Seq(Item), z \in BOOLEAN :
          Parts(c, u, d, v, z)
    BY <1>7, ReceiveParts
  <2>1. /\ rd # <<>> /\ rd' = Tail(rd) /\ inq' = inq \o u /\ sock' = [sock EXCEPT ![c] = v]
        /\ torn' = [torn EXCEPT ![c] = z]
        /\ UNCHANGED <<peer, sent, got, backlog, inputs, outq, cliq, mgrv, phyv>>
    BY <2>0 DEF Parts
  <2>2. inq' \in Seq(Item)
    BY <2>1 DEF NetTypes
  <2>3. sock' \in [Client -> Seq(Item)] /\ torn' \in [Client -> BOOLEAN]
    BY <2>1 DEF NetTypes
  <2>4. Tail(rd) \in Seq(Client \cup {"accept", "notify"})
    BY <2>1, PopHead DEF NetTypes
  <2> QED BY <2>1, <2>2, <2>3, <2>4 DEF NetTypes
<1>8. CASE Disconnect
  <2>1. Sift(inputs, Client \ {Head(rd)}) \in Seq(Client)
    BY SiftProps DEF NetTypes
  <2>2. Tail(rd) \in Seq(Client \cup {"accept", "notify"})
    BY <1>8, PopHead DEF NetTypes, Disconnect
  <2>3. cliq' \in [Client -> Seq(Item)]
    BY <1>8 DEF NetTypes, Disconnect
  <2> QED BY <1>8, <2>1, <2>2, <2>3 DEF NetTypes, Disconnect
<1>9. CASE Write
  <2> DEFINE c == Head(wr)
  <2>1. CASE c \notin Range(inputs) /\ End("dead") /\ UNCHANGED <<got, cliq>>
    BY <1>9, <2>1, EndTypes DEF NetTypes, Write
  <2>2. CASE c \in Range(inputs) /\ cliq[c] = <<>> /\ UNCHANGED <<got, cliq, net, inputs, rd, backlog, notes>>
    BY <1>9, <2>2 DEF NetTypes, Write
  <2>3. CASE /\ c \in Range(inputs) /\ cliq[c] # <<>>
             /\ cliq' = [cliq EXCEPT ![c] = Tail(@)]
             /\ \/ /\ got' = IF peer[c] = "open"
                             THEN [got EXCEPT ![c] = Append(@, NextOut(c))] ELSE got
                   /\ UNCHANGED <<inputs, rd, backlog>>
                \/ End("dead") /\ UNCHANGED got
    <3>1. c \in Client
      <4>1. Range(inputs) \subseteq Client
        <5>1. inputs \in Seq(Client) /\ Range(inputs) = ToSet(inputs)
          BY DEF NetTypes, Range, ToSet
        <5> QED BY <5>1, ToSetProps
      <4> QED BY <4>1, <2>3
    <3>2. cliq[c] \in Seq(Item) /\ Tail(cliq[c]) \in Seq(Item) /\ NextOut(c) \in Item
      BY <3>1, <2>3, PopHead DEF NetTypes, NextOut
    <3>3. cliq' \in [Client -> Seq(Item)]
      BY <3>1, <3>2, <2>3, OneQueue DEF NetTypes
    <3>4. Append(got[c], NextOut(c)) \in Seq(Item)
      BY <3>1, <3>2, PushTail DEF NetTypes
    <3>5. got' \in [Client -> Seq(Item)]
      BY <3>1, <3>4, <2>3, OneQueue DEF NetTypes
    <3>6. inputs' \in Seq(Client) /\ backlog' \in Seq(Client)
          /\ rd' \in Seq(Client \cup {"accept", "notify"})
      BY <2>3, EndTypes DEF NetTypes
    <3> QED BY <1>9, <3>3, <3>5, <3>6 DEF NetTypes, Write
  <2> QED BY <1>9, <2>1, <2>2, <2>3 DEF Write
<1>10. CASE CmdProc
  <2>1. Tail(inq) \in Seq(Item) /\ Append(dataq, Head(inq)) \in Seq(Item)
    BY <1>10, PopHead, PushTail DEF NetTypes, CmdProc
  <2> QED BY <1>10, <2>1 DEF NetTypes, CmdProc
<1>11. CASE DealCmd
  <2> DEFINE x == [Head(dataq) EXCEPT !.k = IF @ = "get" THEN "reply" ELSE "frame"]
  <2>1. Head(dataq) \in Item /\ Tail(dataq) \in Seq(Item)
    BY <1>11, PopHead DEF NetTypes, DealCmd
  <2>2. x \in Item
    BY <2>1 DEF Item, Dealt
  <2>3. dataq' = Append(Tail(dataq), x)
    BY <1>11 DEF DealCmd
  <2> HIDE DEF x
  <2>4. dataq' \in Seq(Item)
    BY <2>1, <2>2, <2>3, PushTail
  <2> QED BY <1>11, <2>4 DEF NetTypes, DealCmd
<1>12. CASE ToNetwork
  <2>1. Tail(dataq) \in Seq(Item) /\ Append(outq, Head(dataq)) \in Seq(Item)
    BY <1>12, PopHead, PushTail DEF NetTypes, ToNetwork
  <2> QED BY <1>12, <2>1 DEF NetTypes, ToNetwork
<1>13. CASE ToPhy
  <2>1. Tail(dataq) \in Seq(Item) /\ Append(phyq, Head(dataq)) \in Seq(Item)
    BY <1>13, PopHead, PushTail DEF NetTypes, ToPhy
  <2> QED BY <1>13, <2>1 DEF NetTypes, ToPhy
<1>14. CASE Event
  <2>1. events' \in Nat /\ EventNo(events') \in Item
    BY <1>14, KindsOfItems DEF NetTypes, Event
  <2>2. Append(dataq, EventNo(events')) \in Seq(Item)
    BY <2>1, PushTail DEF NetTypes
  <2> QED BY <1>14, <2>1, <2>2 DEF NetTypes, Event
<1>15. CASE PhyWrite
  <2>1. CASE phyq = <<>>
    BY <1>15, <2>1 DEF NetTypes, PhyWrite
  <2>2. CASE phyq # <<>>
    <3>1. Tail(phyq) \in Seq(Item) /\ Append(line, Head(phyq)) \in Seq(Item)
      BY <2>2, PopHead, PushTail DEF NetTypes
    <3> QED BY <1>15, <2>2, <3>1 DEF NetTypes, PhyWrite
  <2> QED BY <2>1, <2>2
<1>16. CASE Exit
  <2>1. Append(inq, Stop) \in Seq(Item)
    BY KindsOfItems, PushTail DEF NetTypes
  <2> QED BY <1>16, <2>1 DEF NetTypes, Exit
<1>17. CASE JoinCmdProc
  <2>1. Append(outq, Stop) \in Seq(Item)
    BY KindsOfItems, PushTail DEF NetTypes
  <2> QED BY <1>17, <2>1 DEF NetTypes, JoinCmdProc
<1>18. CASE NotifyNetwork \/ NotifyPhy \/ ManagerEnds \/ PhyNotified
  BY <1>18 DEF NetTypes, NotifyNetwork, NotifyPhy, ManagerEnds, PhyNotified
<1>20. CASE ManagerDies
  <2>1. events' \in Nat
    BY <1>20 DEF NetTypes, ManagerDies
  <2> QED BY <1>20, <2>1 DEF NetTypes, ManagerDies
<1>19. CASE AudioStep \/ StopNetwork \/ JoinNetwork \/ JoinManager \/ JoinPhy
  BY <1>19 DEF NetTypes, AudioStep, AudioTold, AudioWoken, StopAudio, JoinAudio, StopNetwork,
              JoinNetwork, JoinManager, JoinPhy
<1> QED BY <1>1, <1>2, <1>3, <1>4, <1>5, <1>6, <1>7, <1>8, <1>9, <1>10, <1>11, <1>12, <1>13,
           <1>14, <1>15, <1>16, <1>17, <1>18, <1>19, <1>20
        DEF NetNext, NetStep, MgrStep, PhyStep, MainStep, AudioStep

-----------------------------------------------------------------------------
Growing == \A x \in Item : StandsFor(x) => StandsFor(x)'

(* While nobody sends and no event happens, items stand for what they      *)
(* stood for.                                                              *)
LEMMA StandsStays == ASSUME UNCHANGED <<sent, events>> PROVE Growing
BY DEF Growing, StandsFor

(* What fits into a queue still fits after the step. *)
LEMMA FitsStays ==
  ASSUME Growing, NEW c, NEW i, NEW x \in Item, Fits(c, i, x)
  PROVE  Fits(c, i, x)'
BY DEF Growing, Fits

(* What is in a stage of c is an item.                                     *)
LEMMA InStage ==
  ASSUME NetTypes, NEW c \in Client, NEW i \in 1..8
  PROVE  Stages(c)[i] \in Seq(Item) /\ ToSet(Stages(c)[i]) \subseteq Item
<1>1. Stages(c)[i] \in Seq(Item)
  BY StagesType
<1> QED BY <1>1, ToSetProps

(* A step that only takes items out of the queues of c. *)
LEMMA LoseSome ==
  ASSUME NetTypes, Growing, NEW c \in Client, StagesInv(c),
         \A i \in 1..8 : Thin(Stages(c)'[i], Stages(c)[i])
  PROVE  StagesInv(c)'
<1> DEFINE s == Stages(c)
           t == Stages(c)'
<1>1. Flows(s) /\ \A i \in 1..8 : Thin(t[i], s[i])
  BY DEF StagesInv
<1>2. Flows(t)
  <2> HIDE DEF s, t
  <2> QED BY <1>1, FlowThin
<1>3. ASSUME NEW i \in 1..8, NEW x \in ToSet(t[i]) PROVE Fits(c, i, x)'
  <2>1. x \in ToSet(s[i]) /\ x \in Item
    BY <1>1, <1>3, InStage DEF Thin
  <2>2. Fits(c, i, x)
    BY <2>1 DEF StagesInv
  <2> QED BY <2>1, <2>2, FitsStays
<1> QED BY <1>2, <1>3 DEF StagesInv

(* A step that leaves the queues of c alone. *)
LEMMA SameStages ==
  ASSUME NetTypes, Growing, NEW c \in Client, StagesInv(c), Stages(c)' = Stages(c)
  PROVE  StagesInv(c)'
<1>1. \A i \in 1..8 : Thin(Stages(c)'[i], Stages(c)[i])
  BY ThinNone
<1> QED BY <1>1, LoseSome

(* One more item, as a sequence of one. *)
LEMMA PushIsConcat ==
  ASSUME NEW q \in Seq(Item), NEW x \in Item
  PROVE  Append(q, x) = q \o <<x>>
OBVIOUS

(* A step that adds x to queue a: x is younger than all up to there, and   *)
(* older than what follows.                                                *)
LEMMA AddOne ==
  ASSUME NetTypes, NetTypes', Growing, NEW c \in Client, StagesInv(c), NEW a \in 1..8, NEW x \in Item,
         Stages(c)'[a] = Append(Stages(c)[a], x),
         \A i \in 1..8 \ {a} : Stages(c)'[i] = Stages(c)[i],
         Fits(c, a, x)',
         \A i \in 1..8 : /\ i <= a => Before(Stages(c)[i], <<x>>)
                         /\ i > a => Before(<<x>>, Stages(c)[i])
  PROVE  StagesInv(c)'
<1> DEFINE s == Stages(c)
           t == Stages(c)'
           u == <<x>>
<1>1. s \in [1..8 -> Seq(Item)] /\ t \in [1..8 -> Seq(Item)] /\ Flows(s)
  BY StagesType, StagesTypeNext DEF StagesInv
<1>2. u \in Seq(Item) /\ Sorted(u) /\ ToSet(u) = {x}
  BY DEF Sorted, ToSet
<1>3. /\ t[a] = Append(s[a], x) /\ \A i \in 1..8 \ {a} : t[i] = s[i]
      /\ \A i \in 1..8 : /\ i <= a => Before(s[i], u)
                         /\ i > a => Before(u, s[i])
  OBVIOUS
<1>4. t[a] = s[a] \o u /\ ToSet(t[a]) = ToSet(s[a]) \cup {x}
  <2>1. s[a] \in Seq(Item)
    BY <1>1
  <2> HIDE DEF s, t
  <2>2. Append(s[a], x) = s[a] \o <<x>>
    BY <2>1, PushIsConcat
  <2>3. ToSet(Append(s[a], x)) = ToSet(s[a]) \cup {x}
    BY <2>1, PushTail
  <2> QED BY <1>3, <2>2, <2>3
<1>5. Flows(t)
  <2> HIDE DEF s, t, u
  <2>1. Thin(s[a], s[a]) /\ s[a] \in Seq(Item) /\ Before(s[a], u)
    <3>1. a <= a
      OBVIOUS
    <3> QED BY <3>1, <1>1, <1>3, ThinNone
  <2>2. ASSUME NEW m \in 1..8 \ {a}
        PROVE  Thin(t[m], s[m]) /\ (m < a => Before(t[m], u)) /\ (m > a => Before(u, t[m]))
    BY <1>3, ThinNone
  <2> QED BY <1>1, <1>2, <1>4, <2>1, <2>2, FlowStep
<1>6. ASSUME NEW i \in 1..8, NEW y \in ToSet(t[i]) PROVE Fits(c, i, y)'
  <2>1. (y \in ToSet(s[i])) \/ (i = a /\ y = x)
    <3> HIDE DEF s, t
    <3> QED BY <1>3, <1>4, <1>6
  <2>2. CASE y \in ToSet(s[i])
    <3>1. Fits(c, i, y) /\ y \in Item
      BY <2>2, InStage DEF StagesInv
    <3> QED BY <3>1, FitsStays
  <2> QED BY <2>1, <2>2
<1> QED BY <1>5, <1>6 DEF StagesInv

(* A step that moves u from the front of queue b to the end of queue a,    *)
(* with nothing comparable between them.                                   *)
LEMMA MoveSome ==
  ASSUME NetTypes, NetTypes', Growing, NEW c \in Client, StagesInv(c),
         NEW a \in 1..8, NEW b \in 1..8, a < b, NEW u \in Seq(Item),
         Stages(c)'[a] = Stages(c)[a] \o u,
         Thin(u, Stages(c)[b]), Thin(Stages(c)'[b], Stages(c)[b]), Before(u, Stages(c)'[b]),
         \A i \in 1..8 \ {a, b} : Stages(c)'[i] = Stages(c)[i],
         \A x \in ToSet(u) : x.k \in KindsAt[a] /\ (a \in {1, 2, 8} /\ x.k # "event" => x.c = c),
         (a = b - 1) \/ (a = 3 /\ b = 6)
  PROVE  StagesInv(c)'
<1> DEFINE s == Stages(c)
           t == Stages(c)'
<1>1. s \in [1..8 -> Seq(Item)] /\ t \in [1..8 -> Seq(Item)] /\ Flows(s)
  BY StagesType, StagesTypeNext DEF StagesInv
<1>2. /\ t[a] = s[a] \o u /\ Thin(u, s[b]) /\ Thin(t[b], s[b]) /\ Before(u, t[b])
      /\ \A i \in 1..8 \ {a, b} : t[i] = s[i]
  OBVIOUS
<1>3. ASSUME NEW m \in 1..8, a < m, m < b PROVE Before(u, s[m])
  <2>1. a = 3 /\ b = 6 /\ m \in {4, 5}
    BY <1>3
  <2>2. \A y \in ToSet(s[m]) : y.k = "frame"
    BY <2>1, KindsOfItems DEF StagesInv, Fits
  <2>3. \A x \in ToSet(u) : x.k # "frame"
    BY <2>1, KindsOfItems
  <2> HIDE DEF s
  <2> QED BY <2>2, <2>3 DEF Before, Comparable, Raw
<1>4. Flows(t)
  <2> HIDE DEF s, t
  <2> QED BY <1>1, <1>2, <1>3, FlowMove
<1>5. ASSUME NEW i \in 1..8, NEW y \in ToSet(t[i]) PROVE Fits(c, i, y)'
  <2>1. (y \in ToSet(s[i])) \/ (i = a /\ y \in ToSet(u))
    <3>1. ToSet(s[a] \o u) = ToSet(s[a]) \cup ToSet(u)
      <4>1. s[a] \in Seq(Item)
        BY <1>1
      <4> HIDE DEF s
      <4> QED BY <4>1, BothQueues
    <3> HIDE DEF s, t
    <3> QED BY <1>2, <1>5, <3>1 DEF Thin
  <2>2. CASE y \in ToSet(s[i])
    <3>1. Fits(c, i, y) /\ y \in Item
      BY <2>2, InStage DEF StagesInv
    <3> QED BY <3>1, FitsStays
  <2>3. CASE i = a /\ y \in ToSet(u)
    <3>1. y \in ToSet(s[b])
      BY <2>3, <1>2 DEF Thin
    <3>2. Fits(c, b, y) /\ y \in Item
      BY <3>1, InStage DEF StagesInv
    <3>3. Fits(c, a, y)
      BY <2>3, <3>2 DEF Fits
    <3> QED BY <3>2, <3>3, <2>3, FitsStays
  <2> QED BY <2>1, <2>2, <2>3
<1> QED BY <1>4, <1>5 DEF StagesInv

(* One item moves. *)
LEMMA MoveOne ==
  ASSUME NetTypes, NetTypes', Growing, NEW c \in Client, StagesInv(c),
         NEW a \in 1..8, NEW b \in 1..8, a < b, NEW q, q = Stages(c)[b], q # <<>>,
         Stages(c)'[a] = Append(Stages(c)[a], Head(q)), Stages(c)'[b] = Tail(q),
         \A i \in 1..8 \ {a, b} : Stages(c)'[i] = Stages(c)[i],
         Head(q).k \in KindsAt[a], a \in {1, 2, 8} /\ Head(q).k # "event" => Head(q).c = c,
         (a = b - 1) \/ (a = 3 /\ b = 6)
  PROVE  StagesInv(c)'
<1> DEFINE u == <<Head(q)>>
<1>1. q \in Seq(Item) /\ Stages(c)[a] \in Seq(Item) /\ Sorted(q)
  BY InStage DEF StagesInv, Flows
<1>2. Thin(Tail(q), q) /\ Before(u, Tail(q)) /\ Head(q) \in ToSet(q)
  BY <1>1, ThinTail
<1>3. Head(q) \in Item /\ u \in Seq(Item) /\ ToSet(u) = {Head(q)} /\ Sorted(u)
  <2>1. Head(q) \in Item
    BY <1>1, PopHead
  <2> QED BY <2>1 DEF ToSet, Sorted
<1>4. Stages(c)'[a] = Stages(c)[a] \o u
  <2>1. Append(Stages(c)[a], Head(q)) = Stages(c)[a] \o <<Head(q)>>
    <3>1. PICK o \in Seq(Item) : o = Stages(c)[a]
      BY <1>1
    <3>2. Append(o, Head(q)) = o \o <<Head(q)>>
      BY <1>3, PushIsConcat
    <3> QED BY <3>1, <3>2
  <2> QED BY <2>1
<1>5. Thin(u, Stages(c)[b])
  BY <1>2, <1>3 DEF Thin
<1>6. \A x \in ToSet(u) : x.k \in KindsAt[a] /\ (a \in {1, 2, 8} /\ x.k # "event" => x.c = c)
  BY <1>3
<1> HIDE DEF u
<1>7. Thin(Stages(c)'[b], Stages(c)[b]) /\ Before(u, Stages(c)'[b])
  BY <1>2
<1> QED BY <1>3, <1>4, <1>5, <1>6, <1>7, MoveSome

-----------------------------------------------------------------------------
(* A step that leaves all queues alone. *)
LEMMA QuietStep ==
  ASSUME NetTypes, FlowInv,
         UNCHANGED <<sent, events, got, cliq, outq, line, phyq, dataq, inq, sock>>
  PROVE  FlowInv'
<1>1. \A c \in Client : Stages(c)' = Stages(c)
  BY DEF Stages
<1>2. \A c \in Client : StagesInv(c)'
  BY <1>1, StandsStays, SameStages DEF FlowInv
<1> QED BY <1>2 DEF FlowInv

(* The manager's thread dies: the queues stay as they are.                 *)
LEMMA DiesFlow ==
  ASSUME NetTypes, FlowInv, ManagerDies
  PROVE  FlowInv'
<1> USE DEF clientv, netv, mgrv, phyv, mainv, audiov
<1>1. /\ events' = events + 1
      /\ UNCHANGED <<sent, got, cliq, outq, line, phyq, dataq, inq, sock>>
  BY DEF ManagerDies
<1>2. Growing
  BY <1>1 DEF Growing, StandsFor, NetTypes
<1>3. \A c \in Client : Stages(c)' = Stages(c)
  BY <1>1 DEF Stages
<1>4. \A c \in Client : StagesInv(c)'
  BY <1>2, <1>3, SameStages DEF FlowInv
<1> QED BY <1>1, <1>4 DEF FlowInv

(* A command that is sent is younger than everything of its client.        *)
LEMMA SendFlow ==
  ASSUME NetTypes, NetTypes', FlowInv, NEW c \in Client, NEW k \in {"get", "set"}, Send(c, k)
  PROVE  FlowInv'
<1> USE DEF clientv, netv, mgrv, phyv, mainv, audiov
<1>0. PICK n : n = Len(sent[c]) + 1
  OBVIOUS
<1>1. Len(sent[c]) \in Nat /\ DOMAIN sent[c] = 1..Len(sent[c])
      /\ n = Len(sent[c]) + 1
  BY <1>0, LenProperties DEF NetTypes
<1>2. /\ sent' = [sent EXCEPT ![c] = Append(sent[c], k)] /\ events' = events
      /\ Len(sent'[c]) = n /\ sent'[c][n] = k /\ DOMAIN sent'[c] = 1..n
      /\ \A i \in 1..Len(sent[c]) : sent'[c][i] = sent[c][i]
  <2>1. sent[c] \in Seq({"get", "set"})
    BY DEF NetTypes
  <2>2. sent' = [sent EXCEPT ![c] = Append(sent[c], k)] /\ events' = events /\ sent'[c] = Append(sent[c], k)
    BY DEF Send, NetTypes
  <2> QED BY <2>1, <2>2, <1>1, AppendProperties, LenProperties
<1>3. Growing
  <2> SUFFICES ASSUME NEW y \in Item, StandsFor(y) PROVE StandsFor(y)'
    BY DEF Growing
  <2>1. CASE y.c \in Client /\ y.c # c
    <3>1. sent'[y.c] = sent[y.c]
      BY <1>2, <2>1 DEF NetTypes
    <3> QED BY <3>1, <1>2, <2>1 DEF StandsFor
  <2>2. CASE y.c = c
    BY <1>1, <1>2, <2>2 DEF StandsFor
  <2>3. CASE y.c \notin Client
    BY <1>2, <2>3 DEF StandsFor
  <2> QED BY <2>1, <2>2, <2>3
<1>4. PICK x \in Item : x = [k |-> k, c |-> c, n |-> n] /\ x.k = k /\ x.c = c /\ x.n = n
  <2> DEFINE y == [k |-> k, c |-> c, n |-> n]
  <2>1. y \in Item /\ y.k = k /\ y.c = c /\ y.n = n
    BY <1>1 DEF Item, Raw
  <2> QED BY <2>1
<1>5. sock' = [sock EXCEPT ![c] = Append(sock[c], x)]
  BY <1>2, <1>4 DEF Send
<1>6. Fits(c, 8, x)'
  <2>1. x.c \in Client /\ x.n \in DOMAIN sent'[x.c] /\ sent'[x.c][x.n] = k
    BY <1>1, <1>2, <1>4
  <2>2. x.k = k /\ k \in {"get", "set"} /\ x.c = c
    BY <1>4
  <2>3. StandsFor(x)'
    BY <2>1, <2>2 DEF StandsFor
  <2>4. x.k \in KindsAt[8]
    BY <2>2, KindsOfItems DEF Raw
  <2> QED BY <2>2, <2>3, <2>4 DEF Fits
<1>7. ASSUME NEW d \in Client PROVE StagesInv(d)'
  <2>0. StagesInv(d)
    BY DEF FlowInv
  <2>1. CASE d # c
    <3>1. sock'[d] = sock[d]
      BY <1>5, <2>1 DEF NetTypes
    <3>2. Stages(d)' = Stages(d)
      BY <3>1 DEF Stages, Send
    <3> QED BY <2>0, <3>2, <1>3, SameStages
  <2>2. CASE d = c
    <3>1. sock'[c] = Append(sock[c], x)
      BY <1>5 DEF NetTypes
    <3>2. Stages(c)'[8] = Append(Stages(c)[8], x)
      BY <3>1, StageAt, StageAtNext
    <3>3. \A i \in 1..8 \ {8} : Stages(c)'[i] = Stages(c)[i]
      BY StageAt, StageAtNext, Eight DEF Send
    <3>4. ASSUME NEW i \in 1..8 PROVE Before(Stages(c)[i], <<x>>)
      <4>1. \A y \in ToSet(Stages(c)[i]) : StandsFor(y) /\ y \in Item
        BY <2>0, <2>2, InStage DEF StagesInv, Fits
      <4>2. \A y \in ToSet(Stages(c)[i]) : y.c = c => y.n < n
        BY <4>1, <1>1, KindsOfItems DEF StandsFor
      <4>3. ToSet(<<x>>) = {x}
        BY DEF ToSet
      <4> QED BY <4>2, <4>3, <1>4 DEF Before, Comparable
    <3>5. \A i \in 1..8 : /\ i <= 8 => Before(Stages(c)[i], <<x>>)
                          /\ i > 8 => Before(<<x>>, Stages(c)[i])
      BY <3>4
    <3>6. StagesInv(c) /\ x \in Item /\ 8 \in 1..8
      BY <2>0, <2>2, <1>4
    <3>7. StagesInv(c)'
      BY <3>2, <3>3, <3>5, <3>6, <1>3, <1>6, AddOne
    <3> QED BY <3>7, <2>2
  <2> QED BY <2>1, <2>2
<1>8. DealtFirst(dataq')
  BY DEF FlowInv, Send
<1> QED BY <1>7, <1>8 DEF FlowInv

(* A client that leaves may take what is in its socket with it. *)
LEMMA CloseFlow ==
  ASSUME NetTypes, FlowInv, NEW c \in Client, Close(c)
  PROVE  FlowInv'
<1> USE DEF clientv, netv, mgrv, phyv, mainv, audiov
<1>1. Growing
  BY StandsStays DEF Close
<1>2. ASSUME NEW d \in Client PROVE StagesInv(d)'
  <2>1. sock'[d] = sock[d] \/ sock'[d] = <<>>
    BY DEF Close, NetTypes
  <2>2. \A i \in 1..8 \ {8} : Stages(d)'[i] = Stages(d)[i]
    BY StageAt, StageAtNext, Eight DEF Close
  <2>3. \A i \in 1..8 : Thin(Stages(d)'[i], Stages(d)[i])
    BY <2>1, <2>2, StageAt, StageAtNext, ThinNone
  <2> QED BY <1>1, <2>3, LoseSome DEF FlowInv
<1> QED BY <1>2 DEF FlowInv, Close

(* What is in outq goes to the queues of the clients it is for. *)
LEMMA NotifiedFlow ==
  ASSUME NetTypes, NetTypes', FlowInv, Notified
  PROVE  FlowInv'
<1> USE DEF clientv, netv, mgrv, phyv, mainv, audiov
<1>1. CASE Stop \in Range(outq)
  BY <1>1, QuietStep DEF Notified
<1>2. CASE Stop \notin Range(outq)
  <2>0. /\ cliq' = [c \in Client |->
                     cliq[c] \o Sift(outq, {x \in Range(outq) : c \in Receivers(x)})]
        /\ outq' = <<>> /\ UNCHANGED <<sent, events, got, line, phyq, dataq, inq, sock>>
    BY <1>2 DEF Notified
  <2>1. Growing
    BY <2>0, StandsStays
  <2>2. ASSUME NEW c \in Client PROVE StagesInv(c)'
    <3> DEFINE P == {x \in Range(outq) : c \in Receivers(x)}
               u == Sift(outq, P)
    <3>1. u \in Seq(Item) /\ Thin(u, outq) /\ ToSet(u) \subseteq P
      BY SiftProps, ThinSift DEF NetTypes
    <3>2. cliq'[c] = cliq[c] \o u
      BY <2>0
    <3>3. \A x \in ToSet(u) : x.k \in {"reply", "event"} /\ (x.k # "event" => x.c = c)
      <4> SUFFICES ASSUME NEW x \in ToSet(u)
                   PROVE  x.k \in {"reply", "event"} /\ (x.k # "event" => x.c = c)
        OBVIOUS
      <4>1. x \in ToSet(outq) /\ c \in Receivers(x)
        BY <3>1 DEF Range, ToSet
      <4>2. Fits(c, 3, x)
        BY <4>1, StageAt DEF FlowInv, StagesInv
      <4>3. x.k # "event" => x.c = c
        BY <4>1 DEF Receivers
      <4> QED BY <4>2, <4>3, KindsOfItems DEF Fits, StandsFor
    <3> HIDE DEF u
    <3>4. Stages(c)'[2] = Stages(c)[2] \o u
      BY <3>2, StageAt, StageAtNext
    <3>5. /\ Thin(u, Stages(c)[3]) /\ Thin(Stages(c)'[3], Stages(c)[3])
          /\ Before(u, Stages(c)'[3])
      <4>1. ToSet(<<>>) = {}
        BY DEF ToSet
      <4>2. Before(u, <<>>)
        BY <4>1 DEF Before
      <4>3. Stages(c)[3] = outq /\ Stages(c)'[3] = <<>>
        BY <2>0, StageAt, StageAtNext
      <4>4. Thin(<<>>, outq)
        BY ThinNone
      <4> QED BY <3>1, <4>2, <4>3, <4>4
    <3>6. \A i \in 1..8 \ {2, 3} : Stages(c)'[i] = Stages(c)[i]
      <4>1. /\ got'[c] = got[c] /\ line' = line /\ phyq' = phyq /\ dataq' = dataq /\ inq' = inq
            /\ sock'[c] = sock[c]
        BY <2>0
      <4>2. \A i \in {1, 4, 5, 6, 7, 8} : Stages(c)'[i] = Stages(c)[i]
        BY <4>1, StageAt, StageAtNext
      <4>3. 1..8 \ {2, 3} = {1, 4, 5, 6, 7, 8}
        OBVIOUS
      <4> QED BY <4>2, <4>3
    <3>7. \A x \in ToSet(u) : x.k \in KindsAt[2] /\ (2 \in {1, 2, 8} /\ x.k # "event" => x.c = c)
      BY <3>3, KindsOfItems
    <3>8. StagesInv(c) /\ u \in Seq(Item) /\ 2 \in 1..8 /\ 3 \in 1..8 /\ 2 < 3 /\ 2 = 3 - 1
      BY <3>1 DEF FlowInv
    <3> QED BY <2>1, <3>4, <3>5, <3>6, <3>7, <3>8, MoveSome
  <2> QED BY <2>0, <2>2 DEF FlowInv
<1> QED BY <1>1, <1>2

(* The commands of one client go to the queue of all.                      *)
LEMMA ReceiveFlow ==
  ASSUME NetTypes, NetTypes', FlowInv, Receive
  PROVE  FlowInv'
<1> USE DEF clientv, netv, mgrv, phyv, mainv, audiov
<1>r. PICK c \in Client, u \in Seq(Item), w \in Seq(Item), v \in Seq(Item), z \in BOOLEAN :
         Parts(c, u, w, v, z)
  BY ReceiveParts
<1>0. /\ inq' = inq \o u /\ sock' = [sock EXCEPT ![c] = v]
      /\ UNCHANGED <<sent, events, got, cliq, outq, line, phyq, dataq>>
  BY <1>r DEF Parts
<1>1. Growing
  BY <1>0, StandsStays
<1>p. Thin(u, sock[c]) /\ Thin(v, sock[c]) /\ (Sorted(sock[c]) => Sorted(u) /\ Before(u, v))
  BY <1>r, SockParts
<1>2. ASSUME NEW d \in Client PROVE StagesInv(d)'
  <2> DEFINE s == Stages(d)
             t == Stages(d)'
  <2>0. StagesInv(d) /\ StagesInv(c) /\ Sorted(sock[c])
    BY SockFits DEF FlowInv
  <2>1. s \in [1..8 -> Seq(Item)] /\ t \in [1..8 -> Seq(Item)] /\ Flows(s) /\ u \in Seq(Item)
    BY <1>0, <2>0, StagesType, StagesTypeNext DEF StagesInv, NetTypes
  <2>2. \A x \in ToSet(sock[c]) : x.k \in Raw /\ x.c = c /\ Fits(c, 8, x)
    BY SockFits
  <2>u. \A x \in ToSet(u) : x \in ToSet(sock[c])
    BY <1>p DEF Thin
  <2>3. Sorted(u)
    BY <2>0, <1>p
  <2>4. t[7] = inq \o u /\ s[7] = inq /\ \A i \in 1..6 : t[i] = s[i]
    <3>1. 1..6 = {1, 2, 3, 4, 5, 6}
      OBVIOUS
    <3>2. t[7] = inq \o u /\ s[7] = inq
      BY <1>0, StageAt, StageAtNext
    <3>3. \A i \in {1, 2, 3, 4, 5, 6} : t[i] = s[i]
      BY <1>0, StageAt, StageAtNext
    <3> HIDE DEF s, t
    <3> QED BY <3>1, <3>2, <3>3
  <2>5. (d = c => t[8] = v /\ s[8] = sock[c]) /\ (d # c => t[8] = s[8])
    <3>1. sock'[d] = IF d = c THEN v ELSE sock[d]
      BY <1>0 DEF NetTypes
    <3> QED BY <3>1, StageAt, StageAtNext
  <2>6. Before(inq, u)
    <3>1. Before(inq, sock[c])
      BY SockFits
    <3> QED BY <3>1, <2>u DEF Before
  <2>7. ASSUME NEW i \in 1..6 PROVE Before(s[i], u)
    <3>1. CASE d = c
      <4>1. s[8] = sock[c] /\ i < 8 /\ i \in 1..8 /\ 8 \in 1..8
        BY <3>1, StageAt
      <4> HIDE DEF s
      <4>2. Before(s[i], sock[c])
        BY <4>1, <2>1 DEF Flows
      <4> QED BY <4>2, <2>u DEF Before
    <3>2. CASE d # c /\ i \in {1, 2}
      <4>1. \A y \in ToSet(s[i]) : y.k = "event" \/ y.c = d
        BY <3>2, <2>0 DEF StagesInv, Fits
      <4> HIDE DEF s
      <4> QED BY <4>1, <3>2, <2>2, <2>u DEF Before, Comparable, Raw, Dealt
    <3>3. CASE i \in {3, 4, 5, 6}
      <4>1. s[i] = Stages(c)[i] /\ Stages(c)[8] = sock[c] /\ i \in 1..8 /\ i < 8
        BY <3>3, StageAt
      <4>2. Before(Stages(c)[i], Stages(c)[8])
        BY <4>1, <2>0 DEF StagesInv, Flows
      <4> HIDE DEF s
      <4> QED BY <4>1, <4>2, <2>u DEF Before
    <3>4. i \in {1, 2} \/ i \in {3, 4, 5, 6}
      OBVIOUS
    <3> QED BY <3>1, <3>2, <3>3, <3>4
  <2>8. Before(u, t[8])
    <3>1. CASE d = c
      BY <3>1, <2>0, <2>5, <1>p
    <3>2. CASE d # c
      <4>1. \A y \in ToSet(t[8]) : y.c = d
        <5>1. t[8] = sock[d]
          BY <2>5, <3>2, StageAt
        <5> HIDE DEF t
        <5> QED BY <5>1, SockFits
      <4> HIDE DEF t
      <4> QED BY <4>1, <3>2, <2>2, <2>u DEF Before, Comparable
    <3> QED BY <3>1, <3>2
  <2>9. Thin(t[8], s[8])
    <3> HIDE DEF s, t
    <3> QED BY <2>5, <1>p, ThinNone
  <2>10. Flows(t)
    <3> HIDE DEF s, t
    <3>1. ASSUME NEW m \in 1..8 \ {7}
          PROVE  Thin(t[m], s[m]) /\ (m < 7 => Before(t[m], u)) /\ (m > 7 => Before(u, t[m]))
      <4>1. CASE m = 8
        BY <4>1, <2>8, <2>9
      <4>2. CASE m \in 1..6
        BY <4>2, <2>4, <2>7, ThinNone
      <4> QED BY <4>1, <4>2
    <3>2. inq \in Seq(Item) /\ Thin(inq, s[7])
      BY <2>4, ThinNone DEF NetTypes
    <3>3. 7 \in 1..8
      OBVIOUS
    <3>4. t[7] = inq \o u
      BY <2>4
    <3> QED BY <2>1, <2>3, <2>6, <3>1, <3>2, <3>3, <3>4, FlowStep, ZenonT(60)
  <2>11. ASSUME NEW i \in 1..8, NEW y \in ToSet(t[i]) PROVE Fits(d, i, y)'
    <3>1. y \in ToSet(s[i]) \/ (i = 7 /\ y \in ToSet(u))
      <4>1. ToSet(inq \o u) = ToSet(inq) \cup ToSet(u)
        <5>1. inq \in Seq(Item) /\ u \in Seq(Item)
          BY <2>1 DEF NetTypes
        <5> QED BY <5>1, BothQueues
      <4>2. i = 7 \/ i = 8 \/ i \in 1..6
        OBVIOUS
      <4> HIDE DEF s, t
      <4> QED BY <4>1, <4>2, <2>4, <2>9, <2>11 DEF Thin
    <3>2. CASE y \in ToSet(s[i])
      <4>1. Fits(d, i, y) /\ y \in Item
        BY <3>2, <2>0, InStage DEF StagesInv
      <4> QED BY <4>1, <1>1, FitsStays
    <3>3. CASE i = 7 /\ y \in ToSet(u)
      <4>1. y.k \in Raw /\ StandsFor(y) /\ y \in Item
        BY <3>3, <2>1, <2>2, <2>u, ToSetProps DEF Fits
      <4>2. Fits(d, 7, y)
        BY <4>1, KindsOfItems DEF Fits
      <4> QED BY <4>1, <4>2, <3>3, <1>1, FitsStays
    <3> QED BY <3>1, <3>2, <3>3
  <2> QED BY <2>10, <2>11 DEF StagesInv
<1> QED BY <1>0, <1>2 DEF FlowInv

(* Seven of the eight queues of c are as they were.                        *)
LEMMA DisconnectFlow ==
  ASSUME NetTypes, FlowInv, Disconnect
  PROVE  FlowInv'
<1> USE DEF clientv, netv, mgrv, phyv, mainv, audiov
<1>0. /\ cliq' = [cliq EXCEPT ![Head(rd)] = <<>>]
      /\ UNCHANGED <<sent, events, got, outq, line, phyq, dataq, inq, sock>>
  BY DEF Disconnect
<1>1. Growing
  BY <1>0, StandsStays
<1>2. ASSUME NEW d \in Client PROVE StagesInv(d)'
  <2>1. cliq'[d] = cliq[d] \/ cliq'[d] = <<>>
    BY <1>0 DEF NetTypes
  <2>2. \A i \in 1..8 \ {2} : Stages(d)'[i] = Stages(d)[i]
    BY <1>0, StageAt, StageAtNext, Eight
  <2>3. \A i \in 1..8 : Thin(Stages(d)'[i], Stages(d)[i])
    BY <2>1, <2>2, StageAt, StageAtNext, ThinNone
  <2> QED BY <1>1, <2>3, LoseSome DEF FlowInv
<1> QED BY <1>0, <1>2 DEF FlowInv

(* The head of a client's queue is received, or lost with the client. *)
LEMMA WriteFlow ==
  ASSUME NetTypes, NetTypes', FlowInv, Write
  PROVE  FlowInv'
<1> USE DEF clientv, netv, mgrv, phyv, mainv, audiov
<1>1. PICK c : c = Head(wr)
  OBVIOUS
<1>2. UNCHANGED <<sent, events, outq, line, phyq, dataq, inq, sock>>
  BY DEF Write
<1>3. CASE UNCHANGED <<got, cliq>>
  BY <1>2, <1>3, QuietStep
<1>4. CASE /\ c \in Range(inputs) /\ cliq[c] # <<>>
           /\ cliq' = [cliq EXCEPT ![c] = Tail(@)]
           /\ got' = IF peer[c] = "open" THEN [got EXCEPT ![c] = Append(@, NextOut(c))] ELSE got
  <2>1. c \in Client
    <3>1. Range(inputs) \subseteq Client
      <4>1. inputs \in Seq(Client) /\ Range(inputs) = ToSet(inputs)
        BY DEF NetTypes, Range, ToSet
      <4> QED BY <4>1, ToSetProps
    <3> QED BY <3>1, <1>4
  <2>2. Growing
    BY <1>2, StandsStays
  <2>3. \A i \in 1..8 \ {1, 2} : \A d \in Client : Stages(d)'[i] = Stages(d)[i]
    <3>1. 1..8 \ {1, 2} = {3, 4, 5, 6, 7, 8}
      OBVIOUS
    <3> QED BY <1>2, <3>1, StageAt, StageAtNext
  <2>4. cliq[c] \in Seq(Item) /\ cliq'[c] = Tail(cliq[c]) /\ cliq[c] # <<>>
    BY <1>4, <2>1 DEF NetTypes
  <2>5. ASSUME NEW d \in Client, d # c PROVE StagesInv(d)'
    <3>1. got'[d] = got[d] /\ cliq'[d] = cliq[d]
      BY <1>4, <2>5 DEF NetTypes
    <3>2. Stages(d)' = Stages(d)
      BY <1>2, <3>1 DEF Stages
    <3> QED BY <2>2, <3>2, SameStages DEF FlowInv
  <2>6. StagesInv(c)'
    <3>1. CASE peer[c] # "open"
      <4>1. got'[c] = got[c]
        BY <1>4, <3>1
      <4>2. Thin(Tail(cliq[c]), cliq[c])
        BY <2>4, ThinTail
      <4>3. \A i \in 1..8 : Thin(Stages(c)'[i], Stages(c)[i])
        <5>1. Stages(c)'[1] = Stages(c)[1]
          BY <4>1, StageAt, StageAtNext
        <5>2. Thin(Stages(c)'[2], Stages(c)[2])
          BY <2>4, <4>2, StageAt, StageAtNext
        <5> QED BY <5>1, <5>2, <2>1, <2>3, ThinNone
      <4> QED BY <2>1, <2>2, <4>3, LoseSome DEF FlowInv
    <3>2. CASE peer[c] = "open"
      <4>1. PICK q : q = cliq[c]
        OBVIOUS
      <4>2. got'[c] = Append(got[c], Head(q)) /\ q \in Seq(Item) /\ q # <<>> /\ cliq'[c] = Tail(q)
        BY <1>4, <2>1, <2>4, <3>2, <4>1 DEF NetTypes, NextOut
      <4>3. /\ q = Stages(c)[2] /\ Stages(c)'[1] = Append(Stages(c)[1], Head(q))
            /\ Stages(c)'[2] = Tail(q)
        BY <4>1, <4>2, StageAt, StageAtNext
      <4>4. Head(q) \in ToSet(q)
        BY <4>2, ThinHead
      <4>5. Fits(c, 2, Head(q)) /\ StagesInv(c)
        BY <2>1, <4>3, <4>4 DEF FlowInv, StagesInv
      <4>6. Head(q).k \in KindsAt[1] /\ (1 \in {1, 2, 8} /\ Head(q).k # "event" => Head(q).c = c)
        BY <4>5, KindsOfItems DEF Fits
      <4>7. \A i \in 1..8 \ {1, 2} : Stages(c)'[i] = Stages(c)[i]
        BY <2>1, <2>3
      <4>8. 1 \in 1..8 /\ 2 \in 1..8 /\ 1 < 2 /\ 1 = 2 - 1
        OBVIOUS
      <4> QED BY <2>1, <2>2, <4>2, <4>3, <4>5, <4>6, <4>7, <4>8, MoveOne
    <3> QED BY <3>1, <3>2
  <2> QED BY <1>2, <2>5, <2>6 DEF FlowInv
<1> QED BY <1>1, <1>3, <1>4 DEF Write

(* A move between queues of all clients, as the queues of c show it.       *)
LEMMA SharedMove ==
  ASSUME NetTypes, NetTypes', FlowInv, UNCHANGED <<sent, events, got, cliq, sock>>,
         NEW a \in {3, 5, 6}, NEW b \in {6, 7}, NEW q,
         NEW c \in Client, q = Stages(c)[b], q # <<>>, Head(q).k \in KindsAt[a],
         Stages(c)'[a] = Append(Stages(c)[a], Head(q)), Stages(c)'[b] = Tail(q),
         \A i \in {3, 4, 5, 6, 7} \ {a, b} : Stages(c)'[i] = Stages(c)[i],
         a = b - 1 \/ (a = 3 /\ b = 6)
  PROVE  StagesInv(c)'
<1>1. Growing
  BY StandsStays
<1>2. Stages(c)'[1] = Stages(c)[1] /\ Stages(c)'[2] = Stages(c)[2] /\ Stages(c)'[8] = Stages(c)[8]
  BY StageAt, StageAtNext
<1>3. \A i \in 1..8 \ {a, b} : Stages(c)'[i] = Stages(c)[i]
  BY <1>2, Eight
<1>4. a \in 1..8 /\ b \in 1..8 /\ a < b /\ a \notin {1, 2, 8}
  OBVIOUS
<1>5. StagesInv(c)
  BY DEF FlowInv
<1> QED BY <1>1, <1>3, <1>4, <1>5, MoveOne

(* The head of inq goes behind everything in dataq, or ends the thread. *)
LEMMA CmdProcFlow ==
  ASSUME NetTypes, NetTypes', FlowInv, CmdProc, Client # {}
  PROVE  FlowInv'
<1> USE DEF clientv, netv, mgrv, phyv, mainv, audiov
<1>0. /\ inq # <<>> /\ inq' = Tail(inq) /\ inq \in Seq(Item)
      /\ UNCHANGED <<sent, events, got, cliq, outq, line, phyq, sock>>
  BY DEF CmdProc, NetTypes
<1>1. CASE Head(inq) = Stop
  <2>1. dataq' = dataq
    BY <1>1 DEF CmdProc
  <2>2. Thin(Tail(inq), inq)
    BY <1>0, ThinTail
  <2>3. Growing
    BY <1>0, StandsStays
  <2>4. ASSUME NEW c \in Client PROVE StagesInv(c)'
    <3>1. \A i \in 1..8 \ {7} : Stages(c)'[i] = Stages(c)[i]
      BY <1>0, <2>1, StageAt, StageAtNext, Eight
    <3>2. Thin(Stages(c)'[7], Stages(c)[7])
      BY <1>0, <2>2, StageAt, StageAtNext
    <3>3. \A i \in 1..8 : Thin(Stages(c)'[i], Stages(c)[i])
      BY <3>1, <3>2, ThinNone
    <3> QED BY <2>3, <3>3, LoseSome DEF FlowInv
  <2> QED BY <2>1, <2>4 DEF FlowInv
<1>2. CASE Head(inq) # Stop
  <2>1. dataq' = Append(dataq, Head(inq))
    BY <1>2 DEF CmdProc
  <2>2. PICK q : q = inq
    OBVIOUS
  <2>3. Head(q) \in ToSet(q) /\ Head(q) \in Item
    BY <1>0, <2>2, ThinHead, PopHead
  <2>4. PICK d \in Client : TRUE
    OBVIOUS
  <2>5. Stages(d)[6] = dataq /\ Stages(d)[7] = q /\ 6 \in 1..8 /\ 7 \in 1..8
    BY <2>2, StageAt
  <2>6. Head(q).k \in Raw
    <3>1. Fits(d, 7, Head(q))
      BY <2>3, <2>5 DEF FlowInv, StagesInv
    <3>2. Head(q).k \in Raw \cup {"stop"} /\ StandsFor(Head(q))
      BY <3>1, KindsOfItems DEF Fits
    <3> QED BY <3>2, <1>2, <2>2, KindsOfItems DEF StandsFor, Raw
  <2>7. ASSUME NEW c \in Client PROVE StagesInv(c)'
    <3>1. Head(q).k \in KindsAt[6]
      BY <2>6, KindsOfItems
    <3>2. q = Stages(c)[7] /\ q # <<>>
      BY <1>0, <2>2, StageAt
    <3>3. Stages(c)'[6] = Append(Stages(c)[6], Head(q)) /\ Stages(c)'[7] = Tail(q)
      BY <1>0, <2>1, <2>2, StageAt, StageAtNext
    <3>4. \A i \in {3, 4, 5, 6, 7} \ {6, 7} : Stages(c)'[i] = Stages(c)[i]
      BY <1>0, StageAt, StageAtNext
    <3>5. 6 \in {3, 5, 6} /\ 7 \in {6, 7} /\ 6 = 7 - 1
          /\ UNCHANGED <<sent, events, got, cliq, sock>>
      BY <1>0
    <3> QED BY <3>1, <3>2, <3>3, <3>4, <3>5, SharedMove
  <2>8. DealtFirst(dataq')
    <3>1. ToSet(dataq') = ToSet(dataq) \cup {Head(q)}
      <4>1. dataq \in Seq(Item)
        BY DEF NetTypes
      <4> QED BY <2>1, <2>2, <2>3, <4>1, PushTail
    <3>2. Before(dataq, q)
      BY <2>5 DEF FlowInv, StagesInv, Flows
    <3>3. Head(q).k \notin Dealt
      BY <2>6 DEF Raw, Dealt
    <3> QED BY <3>1, <3>2, <3>3, <2>3 DEF DealtFirst, Before, Comparable, FlowInv
  <2> QED BY <2>7, <2>8 DEF FlowInv
<1> QED BY <1>1, <1>2

(* dataq loses its head to another queue, or has one more.                 *)
LEMMA DealtTail ==
  ASSUME NetTypes, FlowInv, dataq # <<>>
  PROVE  DealtFirst(Tail(dataq))
<1>1. ToSet(Tail(dataq)) \subseteq ToSet(dataq)
  BY ThinTail DEF Thin, NetTypes
<1> QED BY <1>1 DEF DealtFirst, FlowInv

(* A reply or an event passes the frames, with which it is not compared. *)
LEMMA ToNetworkFlow ==
  ASSUME NetTypes, NetTypes', FlowInv, ToNetwork
  PROVE  FlowInv'
<1> USE DEF clientv, netv, mgrv, phyv, mainv, audiov
<1>1. PICK q : q = dataq
  OBVIOUS
<1>2. /\ q # <<>> /\ dataq' = Tail(q) /\ outq' = Append(outq, Head(q))
      /\ Head(q).k \in {"reply", "event"}
      /\ UNCHANGED <<sent, events, got, cliq, line, phyq, inq, sock>>
  BY <1>1 DEF ToNetwork
<1>3. ASSUME NEW c \in Client PROVE StagesInv(c)'
  <2>1. Head(q).k \in KindsAt[3]
    BY <1>2, KindsOfItems
  <2>2. q = Stages(c)[6] /\ q # <<>>
    BY <1>1, <1>2, StageAt
  <2>3. Stages(c)'[3] = Append(Stages(c)[3], Head(q)) /\ Stages(c)'[6] = Tail(q)
    BY <1>2, StageAt, StageAtNext
  <2>4. \A i \in {3, 4, 5, 6, 7} \ {3, 6} : Stages(c)'[i] = Stages(c)[i]
    BY <1>2, StageAt, StageAtNext
  <2>5. /\ 3 \in {3, 5, 6} /\ 6 \in {6, 7} /\ 3 = 3 /\ 6 = 6
        /\ UNCHANGED <<sent, events, got, cliq, sock>>
    BY <1>2
  <2> QED BY <2>1, <2>2, <2>3, <2>4, <2>5, SharedMove
<1> QED BY <1>1, <1>2, <1>3, DealtTail DEF FlowInv

(* A frame goes to the line's queue. *)
LEMMA ToPhyFlow ==
  ASSUME NetTypes, NetTypes', FlowInv, ToPhy
  PROVE  FlowInv'
<1> USE DEF clientv, netv, mgrv, phyv, mainv, audiov
<1>1. PICK q : q = dataq
  OBVIOUS
<1>2. /\ q # <<>> /\ dataq' = Tail(q) /\ phyq' = Append(phyq, Head(q)) /\ Head(q).k = "frame"
      /\ UNCHANGED <<sent, events, got, cliq, line, outq, inq, sock>>
  BY <1>1 DEF ToPhy
<1>3. ASSUME NEW c \in Client PROVE StagesInv(c)'
  <2>1. Head(q).k \in KindsAt[5]
    BY <1>2, KindsOfItems
  <2>2. q = Stages(c)[6] /\ q # <<>>
    BY <1>1, <1>2, StageAt
  <2>3. Stages(c)'[5] = Append(Stages(c)[5], Head(q)) /\ Stages(c)'[6] = Tail(q)
    BY <1>2, StageAt, StageAtNext
  <2>4. \A i \in {3, 4, 5, 6, 7} \ {5, 6} : Stages(c)'[i] = Stages(c)[i]
    BY <1>2, StageAt, StageAtNext
  <2>5. /\ 5 \in {3, 5, 6} /\ 6 \in {6, 7} /\ 5 = 6 - 1
        /\ UNCHANGED <<sent, events, got, cliq, sock>>
    BY <1>2
  <2> QED BY <2>1, <2>2, <2>3, <2>4, <2>5, SharedMove
<1> QED BY <1>1, <1>2, <1>3, DealtTail DEF FlowInv

(* A frame is written, or lost with the thread. *)
LEMMA PhyWriteFlow ==
  ASSUME NetTypes, NetTypes', FlowInv, PhyWrite
  PROVE  FlowInv'
<1> USE DEF clientv, netv, mgrv, phyv, mainv, audiov
<1>1. PICK q : q = phyq
  OBVIOUS
<1>2. /\ UNCHANGED <<sent, events, got, cliq, outq, dataq, inq, sock>> /\ q \in Seq(Item)
  BY <1>1 DEF PhyWrite, NetTypes
<1>3. CASE phyq' = phyq /\ line' = line
  BY <1>2, <1>3, QuietStep
<1>4. CASE q # <<>> /\ phyq' = Tail(q) /\ line' = line
  <2>1. Thin(Tail(q), q) /\ Growing
    BY <1>2, <1>4, ThinTail, StandsStays
  <2>2. ASSUME NEW c \in Client PROVE StagesInv(c)'
    <3>1. \A i \in 1..8 \ {5} : Stages(c)'[i] = Stages(c)[i]
      BY <1>2, <1>4, StageAt, StageAtNext, Eight
    <3>2. Thin(Stages(c)'[5], Stages(c)[5])
      BY <1>1, <1>4, <2>1, StageAt, StageAtNext
    <3>3. \A i \in 1..8 : Thin(Stages(c)'[i], Stages(c)[i])
      BY <3>1, <3>2, ThinNone
    <3> QED BY <2>1, <3>3, LoseSome DEF FlowInv
  <2> QED BY <1>2, <2>2 DEF FlowInv
<1>5. CASE q # <<>> /\ phyq' = Tail(q) /\ line' = Append(line, Head(q))
  <2>1. ASSUME NEW c \in Client PROVE StagesInv(c)'
    <3>1. /\ q = Stages(c)[5] /\ Stages(c)'[4] = Append(Stages(c)[4], Head(q))
          /\ Stages(c)'[5] = Tail(q)
      BY <1>1, <1>5, StageAt, StageAtNext
    <3>2. Head(q) \in ToSet(q)
      BY <1>2, <1>5, ThinHead
    <3>3. Fits(c, 5, Head(q)) /\ StagesInv(c)
      BY <3>1, <3>2 DEF FlowInv, StagesInv
    <3>4. Head(q).k \in KindsAt[4] /\ (4 \in {1, 2, 8} /\ Head(q).k # "event" => Head(q).c = c)
      BY <3>3, KindsOfItems DEF Fits
    <3>5. \A i \in 1..8 \ {4, 5} : Stages(c)'[i] = Stages(c)[i]
      <4>1. 1..8 \ {4, 5} = {1, 2, 3, 6, 7, 8}
        OBVIOUS
      <4> QED BY <1>2, <4>1, StageAt, StageAtNext
    <3>6. 4 \in 1..8 /\ 5 \in 1..8 /\ 4 < 5 /\ 4 = 5 - 1 /\ Growing
      BY <1>2, StandsStays
    <3> QED BY <1>5, <3>1, <3>3, <3>4, <3>5, <3>6, MoveOne
  <2> QED BY <1>2, <2>1 DEF FlowInv
<1> QED BY <1>1, <1>3, <1>4, <1>5 DEF PhyWrite

(* A command turns into its answer: that is behind the older answers of    *)
(* the client and ahead of the younger commands.                           *)
LEMMA DealCmdFlow ==
  ASSUME NetTypes, NetTypes', FlowInv, DealCmd, Client # {}
  PROVE  FlowInv'
<1> USE DEF clientv, netv, mgrv, phyv, mainv, audiov
<1>1. PICK q : q = dataq
  OBVIOUS
<1>2. PICK x : x = Head(q)
  OBVIOUS
<1>3. PICK y : y = [x EXCEPT !.k = IF @ = "get" THEN "reply" ELSE "frame"]
  OBVIOUS
<1>4. /\ q \in Seq(Item) /\ q # <<>> /\ x.k \in {"get", "set"} /\ dataq' = Append(Tail(q), y)
      /\ UNCHANGED <<sent, events, got, cliq, outq, line, phyq, inq, sock>>
  BY <1>1, <1>2, <1>3 DEF DealCmd, NetTypes
<1>5. x \in Item /\ x \in ToSet(q) /\ Tail(q) \in Seq(Item)
  BY <1>2, <1>4, PopHead, ThinHead
<1>6. /\ y \in Item /\ y.c = x.c /\ y.n = x.n
      /\ y.k = IF x.k = "get" THEN "reply" ELSE "frame"
  BY <1>3, <1>5 DEF Item, Dealt
<1>7. Thin(Tail(q), q) /\ (Sorted(q) => Before(<<x>>, Tail(q)))
  BY <1>2, <1>4, ThinTail
<1>8. PICK u \in Seq(Item) : u = <<y>> /\ ToSet(u) = {y} /\ Sorted(u)
  <2>1. <<y>> \in Seq(Item) /\ ToSet(<<y>>) = {y} /\ Sorted(<<y>>)
    BY <1>6 DEF ToSet, Sorted
  <2> QED BY <2>1
<1>9. dataq' = Tail(q) \o u /\ ToSet(dataq') = ToSet(Tail(q)) \cup {y}
  <2>1. Append(Tail(q), y) = Tail(q) \o <<y>>
    BY <1>5, <1>6, PushIsConcat
  <2>2. ToSet(Append(Tail(q), y)) = ToSet(Tail(q)) \cup {y}
    <3> DEFINE r == Tail(q)
    <3>1. r \in Seq(Item)
      BY <1>5
    <3> HIDE DEF r
    <3>2. ToSet(Append(r, y)) = ToSet(r) \cup {y}
      BY <3>1, <1>6, PushTail
    <3> QED BY <3>2 DEF r
  <2> QED BY <2>1, <2>2, <1>4, <1>8
<1>10. Before(Tail(q), u)
  <2>1. \A z \in ToSet(Tail(q)) : z \in ToSet(q)
    BY <1>7 DEF Thin
  <2>2. \A z \in ToSet(q) : z.k \in Dealt /\ z.c = x.c => z.n < x.n
    BY <1>1, <1>4, <1>5 DEF FlowInv, DealtFirst, Raw
  <2>3. y.k \in Dealt /\ y.k \notin Raw
    BY <1>6 DEF Dealt, Raw
  <2> QED BY <2>1, <2>2, <2>3, <1>6, <1>8 DEF Before, Comparable
<1>11. ASSUME NEW c \in Client PROVE StagesInv(c)' /\ Sorted(q)
  <2> DEFINE s == Stages(c)
             t == Stages(c)'
  <2>1. s \in [1..8 -> Seq(Item)] /\ t \in [1..8 -> Seq(Item)] /\ Flows(s) /\ StagesInv(c)
    BY StagesType, StagesTypeNext DEF FlowInv, StagesInv
  <2>2. s[6] = q /\ t[6] = Tail(q) \o u
    BY <1>1, <1>9, StageAt, StageAtNext
  <2>3. \A i \in 1..8 \ {6} : t[i] = s[i]
    <3>1. 1..8 \ {6} = {1, 2, 3, 4, 5, 7, 8}
      OBVIOUS
    <3> QED BY <1>4, <3>1, StageAt, StageAtNext
  <2>4. ASSUME NEW m \in 1..8, m < 6 PROVE Before(s[m], u)
    <3>1. Before(s[m], q)
      <4>1. 6 \in 1..8
        OBVIOUS
      <4> HIDE DEF s
      <4> QED BY <4>1, <2>1, <2>2, <2>4 DEF Flows
    <3> HIDE DEF s
    <3>2. \A z \in ToSet(s[m]) : Comparable(z, x) => z.n < x.n
      BY <3>1, <1>5 DEF Before
    <3>3. \A z : Comparable(z, y) => Comparable(z, x)
      BY <1>4, <1>6 DEF Comparable, Raw, Dealt
    <3> QED BY <3>2, <3>3, <1>6, <1>8 DEF Before
  <2>5. ASSUME NEW m \in 1..8, m > 6 PROVE Before(u, s[m])
    <3>1. Before(q, s[m])
      <4>1. 6 \in 1..8 /\ 6 < m
        BY <2>5
      <4> HIDE DEF s
      <4> QED BY <4>1, <2>1, <2>2 DEF Flows
    <3>2. \A z \in ToSet(s[m]) : z.k \in Raw \cup {"stop"}
      <4>1. m = 7 \/ m = 8
        BY <2>5
      <4> QED BY <4>1, <2>1, KindsOfItems DEF StagesInv, Fits
    <3> HIDE DEF s
    <3>3. \A z \in ToSet(s[m]) : Comparable(x, z) => x.n < z.n
      BY <3>1, <1>5 DEF Before
    <3>4. \A z \in ToSet(s[m]) : Comparable(y, z) => Comparable(x, z)
      BY <3>2, <1>4, <1>6 DEF Comparable, Raw, Dealt
    <3> QED BY <3>3, <3>4, <1>6, <1>8 DEF Before
  <2>6. Flows(t)
    <3> HIDE DEF s, t
    <3>1. ASSUME NEW m \in 1..8 \ {6}
          PROVE  Thin(t[m], s[m]) /\ (m < 6 => Before(t[m], u)) /\ (m > 6 => Before(u, t[m]))
      BY <2>3, <2>4, <2>5, ThinNone
    <3>2. 6 \in 1..8 /\ Thin(Tail(q), s[6])
      BY <1>7, <2>2
    <3> QED BY <2>1, <2>2, <1>5, <1>8, <1>10, <3>1, <3>2, FlowStep
  <2>7. Growing
    BY <1>4, StandsStays
  <2>8. Fits(c, 6, x)
    BY <1>5, <2>1, <2>2 DEF StagesInv
  <2>9. Fits(c, 6, y)
    <3>1. StandsFor(y)
      BY <2>8, <1>4, <1>6, KindsOfItems DEF Fits, StandsFor
    <3>2. y.k \in KindsAt[6]
      BY <1>6, KindsOfItems DEF Dealt
    <3> QED BY <3>1, <3>2 DEF Fits
  <2>10. ASSUME NEW i \in 1..8, NEW z \in ToSet(t[i]) PROVE Fits(c, i, z)'
    <3>1. z \in ToSet(s[i]) \/ (i = 6 /\ z = y)
      <4>1. t[6] = dataq' /\ ToSet(Tail(q)) \subseteq ToSet(q)
        BY <1>7, <1>9, <2>2 DEF Thin
      <4> HIDE DEF s, t
      <4> QED BY <4>1, <1>9, <2>2, <2>3, <2>10
    <3>2. CASE z \in ToSet(s[i])
      <4>1. Fits(c, i, z) /\ z \in Item
        BY <3>2, <2>1, InStage DEF StagesInv
      <4> QED BY <4>1, <2>7, FitsStays
    <3>3. CASE i = 6 /\ z = y
      BY <3>3, <2>7, <2>9, <1>6, FitsStays
    <3> QED BY <3>1, <3>2, <3>3
  <2>11. Sorted(q)
    <3>1. 6 \in 1..8
      OBVIOUS
    <3> QED BY <3>1, <2>1, <2>2 DEF Flows
  <2> QED BY <2>6, <2>10, <2>11 DEF StagesInv
<1>12. DealtFirst(dataq')
  <2>1. Before(<<x>>, Tail(q))
    BY <1>7, <1>11
  <2>2. \A z \in ToSet(Tail(q)) : z.k \in Raw /\ z.c = x.c => x.n < z.n
    <3>1. ToSet(<<x>>) = {x}
      BY DEF ToSet
    <3> QED BY <2>1, <3>1, <1>4 DEF Before, Comparable, Raw
  <2>3. \A a, b \in ToSet(Tail(q)) : a.k \in Dealt /\ b.k \in Raw /\ a.c = b.c => a.n < b.n
    BY <1>1, <1>7 DEF FlowInv, DealtFirst, Thin
  <2>4. y.k \notin Raw
    BY <1>6 DEF Raw
  <2> QED BY <2>2, <2>3, <2>4, <1>6, <1>9 DEF DealtFirst
<1> QED BY <1>11, <1>12 DEF FlowInv

(* An event is younger than all others.                                    *)
LEMMA EventFlow ==
  ASSUME NetTypes, NetTypes', FlowInv, Event
  PROVE  FlowInv'
<1> USE DEF clientv, netv, mgrv, phyv, mainv, audiov
<1>1. PICK n \in Nat : n = events + 1
  BY DEF NetTypes
<1>2. PICK x \in Item : x = EventNo(n)
  BY KindsOfItems
<1>3. x.k = "event" /\ x.c = "none" /\ x.n = n
  BY <1>2, KindsOfItems
<1>4. /\ events' = n /\ dataq' = Append(dataq, x)
      /\ UNCHANGED <<sent, got, cliq, outq, line, phyq, inq, sock>>
  BY <1>1, <1>2 DEF Event
<1>5. events \in Nat /\ dataq \in Seq(Item)
  BY DEF NetTypes
<1>6. Growing
  <2>1. \A m \in 1..events : m \in 1..events'
    BY <1>1, <1>4, <1>5
  <2> QED BY <1>4, <2>1 DEF Growing, StandsFor
<1>7. ASSUME NEW c \in Client PROVE StagesInv(c)'
  <2>1. Stages(c)'[6] = Append(Stages(c)[6], x)
    BY <1>4, StageAt, StageAtNext
  <2>2. \A i \in 1..8 \ {6} : Stages(c)'[i] = Stages(c)[i]
    <3>1. 1..8 \ {6} = {1, 2, 3, 4, 5, 7, 8}
      OBVIOUS
    <3> QED BY <1>4, <3>1, StageAt, StageAtNext
  <2>3. StagesInv(c)
    BY DEF FlowInv
  <2>4. Fits(c, 6, x)'
    <3>1. n \in 1..events'
      BY <1>1, <1>4, <1>5
    <3>2. StandsFor(x)'
      BY <3>1, <1>3 DEF StandsFor
    <3> QED BY <3>2, <1>3, KindsOfItems DEF Fits
  <2>5. ASSUME NEW i \in 1..8, NEW z \in ToSet(Stages(c)[i])
        PROVE  (Comparable(z, x) => z.n < x.n) /\ (i > 6 => ~Comparable(x, z))
    <3>1. Fits(c, i, z) /\ z \in Item
      BY <2>3, InStage DEF StagesInv
    <3>2. Comparable(z, x) => z.k = "event"
      BY <1>3 DEF Comparable, Raw
    <3>3. z.k = "event" => z.n < x.n
      BY <3>1, <1>1, <1>3, <1>5, KindsOfItems DEF Fits, StandsFor
    <3>4. i > 6 => z.k \in Raw \cup {"stop"}
      <4>1. i > 6 => i = 7 \/ i = 8
        OBVIOUS
      <4> QED BY <4>1, <3>1, KindsOfItems DEF Fits
    <3>5. Comparable(x, z) => z.k = "event"
      BY <1>3 DEF Comparable, Raw, Dealt
    <3> QED BY <3>2, <3>3, <3>4, <3>5 DEF Raw
  <2>6. ASSUME NEW i \in 1..8
        PROVE  /\ i <= 6 => Before(Stages(c)[i], <<x>>)
               /\ i > 6 => Before(<<x>>, Stages(c)[i])
    <3>1. ToSet(<<x>>) = {x}
      BY DEF ToSet
    <3> QED BY <2>5, <3>1 DEF Before
  <2>7. 6 \in 1..8
    OBVIOUS
  <2> QED BY <2>1, <2>2, <2>3, <2>4, <2>6, <2>7, <1>6, AddOne
<1>8. DealtFirst(dataq')
  <2>1. ToSet(dataq') = ToSet(dataq) \cup {x}
    BY <1>4, <1>5, PushTail
  <2> QED BY <2>1, <1>3 DEF DealtFirst, FlowInv, Dealt, Raw
<1> QED BY <1>7, <1>8 DEF FlowInv

(* None, which tells a thread to end, is not compared with anything.       *)
LEMMA StopFlow ==
  ASSUME NetTypes, NetTypes', FlowInv, Exit \/ JoinCmdProc
  PROVE  FlowInv'
<1> USE DEF clientv, netv, mgrv, phyv, mainv, audiov
<1>1. PICK x \in Item : x = Stop
  BY KindsOfItems
<1>2. UNCHANGED <<sent, events, got, cliq, line, phyq, dataq, sock>>
  BY DEF Exit, JoinCmdProc
<1>3. PICK a \in {3, 7} : /\ a = 7 => inq' = Append(inq, x) /\ outq' = outq
                          /\ a = 3 => outq' = Append(outq, x) /\ inq' = inq
  BY <1>1 DEF Exit, JoinCmdProc
<1>4. Growing
  BY <1>2, StandsStays
<1>5. ASSUME NEW c \in Client PROVE StagesInv(c)'
  <2>1. Stages(c)'[a] = Append(Stages(c)[a], x)
    BY <1>3, StageAt, StageAtNext
  <2>2. \A i \in 1..8 \ {a} : Stages(c)'[i] = Stages(c)[i]
    BY <1>2, <1>3, StageAt, StageAtNext, Eight
  <2>3. Fits(c, a, x)'
    BY <1>1, KindsOfItems DEF Fits, StandsFor
  <2>4. \A z : ~Comparable(z, x) /\ ~Comparable(x, z)
    BY <1>1, KindsOfItems DEF Comparable, Raw, Dealt
  <2>5. ASSUME NEW i \in 1..8
        PROVE  /\ i <= a => Before(Stages(c)[i], <<x>>)
               /\ i > a => Before(<<x>>, Stages(c)[i])
    <3>1. ToSet(<<x>>) = {x}
      BY DEF ToSet
    <3> QED BY <2>4, <3>1 DEF Before
  <2>6. a \in 1..8 /\ StagesInv(c)
    BY DEF FlowInv
  <2> QED BY <2>1, <2>2, <2>3, <2>5, <2>6, <1>4, AddOne
<1> QED BY <1>2, <1>5 DEF FlowInv

(* Every step keeps the queues in order. *)
LEMMA FlowNext ==
  ASSUME NetTypes, NetTypes', FlowInv, [NetNext]_netVars, Client # {}
  PROVE  FlowInv'
<1> USE DEF clientv, netv, mgrv, phyv, mainv, audiov
<1>1. ASSUME NEW c \in Client, Connect(c) PROVE FlowInv'
  BY <1>1, QuietStep DEF Connect
<1>2. ASSUME NEW c \in Client, Close(c) PROVE FlowInv'
  BY <1>2, CloseFlow
<1>3. ASSUME NEW c \in Client, NEW k \in {"get", "set"}, Send(c, k) PROVE FlowInv'
  BY <1>3, SendFlow
<1>4. CASE Select \/ Accept
  BY <1>4, QuietStep DEF Select, Accept
<1>5. CASE Notified \/ Receive \/ Disconnect \/ Write
  BY <1>5, NotifiedFlow, ReceiveFlow, DisconnectFlow, WriteFlow
<1>6. CASE CmdProc \/ DealCmd \/ ToNetwork \/ ToPhy
  BY <1>6, CmdProcFlow, DealCmdFlow, ToNetworkFlow, ToPhyFlow
<1>7. CASE Event \/ PhyWrite \/ Exit \/ JoinCmdProc
  BY <1>7, EventFlow, PhyWriteFlow, StopFlow
<1>8. CASE NotifyNetwork \/ NotifyPhy \/ ManagerEnds \/ PhyNotified
  BY <1>8, QuietStep DEF NotifyNetwork, NotifyPhy, ManagerEnds, PhyNotified
<1>9. CASE AudioStep \/ StopNetwork \/ JoinNetwork \/ JoinManager \/ JoinPhy
  BY <1>9, QuietStep DEF AudioStep, AudioTold, AudioWoken, StopAudio, JoinAudio, StopNetwork,
                         JoinNetwork, JoinManager, JoinPhy
<1>10. CASE UNCHANGED netVars
  BY <1>10, QuietStep DEF netVars
<1>11. CASE ManagerDies
  BY <1>11, DiesFlow
<1> QED BY <1>1, <1>2, <1>3, <1>4, <1>5, <1>6, <1>7, <1>8, <1>9, <1>10, <1>11
        DEF AudioStep, NetNext, NetStep, MgrStep, PhyStep, MainStep

-----------------------------------------------------------------------------
(* What FlowInv says of what was received and of the line.                 *)
LEMMA FlowIsOrder ==
  ASSUME NetTypes, FlowInv
  PROVE  InOrder
<1> SUFFICES ASSUME NEW c \in Client
             PROVE  /\ \A i, j \in DOMAIN got[c] :
                         i < j /\ got[c][i].k = got[c][j].k => got[c][i].n < got[c][j].n
                    /\ \A i, j \in DOMAIN line :
                         i < j /\ line[i].c = c /\ line[j].c = c => line[i].n < line[j].n
  BY DEF InOrder
<1>1. StagesInv(c) /\ 1 \in 1..8 /\ 4 \in 1..8
  BY DEF FlowInv
<1>2. Sorted(got[c]) /\ Sorted(line)
  BY <1>1, StageAt DEF StagesInv, Flows
<1>3. \A i \in DOMAIN got[c] : Fits(c, 1, got[c][i])
  BY <1>1, StageAt DEF StagesInv, ToSet
<1>4. \A i \in DOMAIN line : line[i].k = "frame"
  BY <1>1, StageAt, KindsOfItems DEF StagesInv, ToSet, Fits
<1>5. \A i, j \in DOMAIN got[c] : got[c][i].k = got[c][j].k => Comparable(got[c][i], got[c][j])
  <2> SUFFICES ASSUME NEW i \in DOMAIN got[c], NEW j \in DOMAIN got[c], got[c][i].k = got[c][j].k
               PROVE  got[c][i].c = got[c][j].c /\ got[c][i].k # "stop"
    BY DEF Comparable
  <2>1. Fits(c, 1, got[c][i]) /\ Fits(c, 1, got[c][j])
    BY <1>3
  <2>2. got[c][i].k \in {"reply", "event"}
    BY <2>1, KindsOfItems DEF Fits
  <2>3. CASE got[c][i].k = "event"
    BY <2>1, <2>3, KindsOfItems DEF Fits, StandsFor
  <2>4. CASE got[c][i].k # "event"
    BY <2>1, <2>2, <2>4, KindsOfItems DEF Fits
  <2> QED BY <2>3, <2>4
<1>6. \A i, j \in DOMAIN line :
        line[i].c = c /\ line[j].c = c => Comparable(line[i], line[j])
  BY <1>4 DEF Comparable
<1> QED BY <1>2, <1>5, <1>6 DEF Sorted

-----------------------------------------------------------------------------
(* Where a command is between the client's socket and its queue.           *)
Between == ToSet(inq) \cup ToSet(dataq) \cup ToSet(outq)

(* The lists of the network thread stay, and nothing new is between.       *)
LEMMA ClientsStay ==
  ASSUME ClientsInv, UNCHANGED <<peer, sock, torn, net, backlog, inputs, rd, wr>>,
         \A x \in Between' : x.c = "none" \/ \E y \in Between : y.c = x.c
  PROVE  ClientsInv'
<1>1. \A x \in Between' : Alive' /\ x.c \in Client => x.c \in ToSet(inputs') \/ peer'[x.c] = "closed"
  <2> SUFFICES ASSUME NEW x \in Between', Alive', x.c \in Client
               PROVE  x.c \in ToSet(inputs') \/ peer'[x.c] = "closed"
    OBVIOUS
  <2>1. PICK y \in Between : y.c = x.c
    BY KindsOfItems
  <2>2. Alive
    BY DEF Alive
  <2> QED BY <2>1, <2>2 DEF ClientsInv, Between
<1>2. Alive' = Alive
  BY DEF Alive
<1> QED BY <1>1, <1>2 DEF ClientsInv, Between, Readable

(* The end of the network thread leaves nothing to say.                    *)
LEMMA ClientsEnd ==
  ASSUME NEW how \in {"dead", "ended"}, End(how)
  PROVE  ClientsInv'
<1>1. ToSet(<<>>) = {} /\ IsInjective(<<>>)
  BY DEF ToSet, IsInjective
<1>2. /\ net' = how /\ inputs' = <<>> /\ backlog' = <<>> /\ rd' = <<>> /\ wr' = <<>>
  BY DEF End
<1>3. ~Alive'
  BY <1>2 DEF Alive
<1> QED BY <1>1, <1>2, <1>3 DEF ClientsInv

(* A new connection was in neither list before. *)
LEMMA ConnectClients ==
  ASSUME NetTypes, ClientsInv, NEW c \in Client, Connect(c)
  PROVE  ClientsInv'
<1>0. /\ peer[c] = "new" /\ backlog' = Append(backlog, c) /\ backlog \in Seq(Client)
      /\ UNCHANGED <<sock, torn, net, inputs, rd, wr, inq, dataq, outq>>
  BY DEF Connect, mgrv, NetTypes
<1>1. \A d \in Client : peer'[d] = IF d = c THEN "open" ELSE peer[d]
  BY DEF Connect, NetTypes
<1>2. ToSet(backlog') = ToSet(backlog) \cup {c} /\ c \notin ToSet(backlog) \cup ToSet(inputs)
  BY <1>0, PushTail DEF ClientsInv
<1>3. IsInjective(backlog') /\ backlog' # <<>>
  <2>1. IsInjective(backlog')
    BY <1>0, <1>2, PushTail DEF ClientsInv
  <2> QED BY <1>0, <2>1
<1>4. ToSet(backlog) \subseteq Client /\ ToSet(inputs) \subseteq Client
  BY ToSetProps DEF NetTypes
<1>5. \A d \in ToSet(backlog') \cup ToSet(inputs') : peer'[d] # "new"
  BY <1>0, <1>1, <1>2, <1>4 DEF ClientsInv
<1>6. \A d \in Client \cap ToSet(rd') :
        d \in ToSet(inputs') /\ Readable(d)'
  BY <1>0, <1>1 DEF ClientsInv, Readable
<1>7. Alive' = Alive
  BY <1>0 DEF Alive
<1>8. ASSUME NEW x \in ToSet(inq') \cup ToSet(dataq') \cup ToSet(outq'), Alive', x.c \in Client
      PROVE  x.c \in ToSet(inputs') \/ peer'[x.c] = "closed"
  BY <1>0, <1>1, <1>7, <1>8 DEF ClientsInv
<1> QED BY <1>0, <1>2, <1>3, <1>5, <1>6, <1>7, <1>8 DEF ClientsInv

(* A client sends or leaves: its socket does not become empty unless it    *)
(* left.                                                                   *)
LEMMA SendCloseClients ==
  ASSUME NetTypes, ClientsInv, NEW c \in Client,
         Close(c) \/ \E k \in {"get", "set"} : Send(c, k)
  PROVE  ClientsInv'
<1>0. UNCHANGED <<net, backlog, inputs, rd, wr, inq, dataq, outq>>
  BY DEF Send, Close, mgrv
<1>1. ASSUME NEW d \in Client
      PROVE  /\ peer'[d] = peer[d] \/ peer'[d] = "closed"
             /\ Readable(d) => Readable(d)'
  <2>1. CASE Close(c)
    <3>1. peer'[d] = IF d = c THEN "closed" ELSE peer[d]
      BY <2>1 DEF Close, NetTypes
    <3>2. (sock'[d] = sock[d] /\ torn'[d] = torn[d]) \/ d = c
      BY <2>1 DEF Close, NetTypes
    <3> QED BY <3>1, <3>2 DEF Readable
  <2>2. CASE \E k \in {"get", "set"} : Send(c, k)
    <3>1. PICK k \in {"get", "set"} : Send(c, k)
      BY <2>2
    <3>2. PICK x : x = [k |-> k, c |-> c, n |-> Len(sent'[c])]
      OBVIOUS
    <3>3. sock' = [sock EXCEPT ![c] = Append(sock[c], x)] /\ peer' = peer /\ torn' = torn
      BY <3>1, <3>2 DEF Send
    <3>4. sock'[d] = IF d = c THEN Append(sock[c], x) ELSE sock[d]
      BY <3>3 DEF NetTypes
    <3>5. x \in Item
      <4>1. Len(sent'[c]) \in Nat
        <5>1. sent'[c] = Append(sent[c], k) /\ sent[c] \in Seq({"get", "set"})
          BY <3>1 DEF Send, NetTypes
        <5>2. sent'[c] \in Seq({"get", "set"})
          BY <5>1
        <5> QED BY <5>2, LenProperties
      <4> QED BY <3>2, <4>1 DEF Item, Raw
    <3>6. Append(sock[c], x) # <<>>
      <4>1. sock[c] \in Seq(Item)
        BY DEF NetTypes
      <4> QED BY <3>5, <4>1
    <3> QED BY <3>3, <3>4, <3>6 DEF Readable
  <2> QED BY <2>1, <2>2
<1>2. ToSet(backlog) \subseteq Client /\ ToSet(inputs) \subseteq Client
  BY ToSetProps DEF NetTypes
<1>3. \A d \in ToSet(backlog') \cup ToSet(inputs') : peer'[d] # "new"
  BY <1>0, <1>1, <1>2 DEF ClientsInv
<1>4. \A d \in Client \cap ToSet(rd') :
        d \in ToSet(inputs') /\ Readable(d)'
  BY <1>0, <1>1 DEF ClientsInv
<1>5. Alive' = Alive
  BY <1>0 DEF Alive
<1>6. ASSUME NEW x \in ToSet(inq') \cup ToSet(dataq') \cup ToSet(outq'), Alive', x.c \in Client
      PROVE  x.c \in ToSet(inputs') \/ peer'[x.c] = "closed"
  BY <1>0, <1>1, <1>5, <1>6 DEF ClientsInv
<1> QED BY <1>0, <1>3, <1>4, <1>5, <1>6 DEF ClientsInv

(* A round of select: every socket once.                                   *)
LEMMA SelectClients ==
  ASSUME NetTypes, ClientsInv, Select
  PROVE  ClientsInv'
<1> DEFINE P == {c \in Client : Readable(c)}
<1>0. /\ UNCHANGED <<peer, sock, torn, net, backlog, inputs, inq, dataq, outq>>
      /\ Alive /\ inputs \in Seq(Client)
  BY DEF Select, InSelect, clientv, mgrv, NetTypes
<1>1. PICK a : a = IF backlog = <<>> THEN <<>> ELSE <<"accept">>
  OBVIOUS
<1>2. PICK b : b = IF notes = 0 THEN <<>> ELSE <<"notify">>
  OBVIOUS
<1>3. PICK d : d = Sift(inputs, P)
  OBVIOUS
<1>4. rd' = a \o b \o d
  BY <1>1, <1>2, <1>3 DEF Select
<1>5. d \in Seq(Client) /\ ToSet(d) = ToSet(inputs) \cap P /\ IsInjective(d)
  BY <1>0, <1>3, SiftProps, SiftOnce DEF ClientsInv
<1> HIDE DEF P
<1> DEFINE W == Client \cup {"accept", "notify"}
<1>6. /\ a \in Seq(W) /\ b \in Seq(W) /\ IsInjective(a) /\ IsInjective(b)
      /\ ToSet(a) = (IF backlog = <<>> THEN {} ELSE {"accept"})
      /\ ToSet(b) = (IF notes = 0 THEN {} ELSE {"notify"})
  <2>1. <<>> \in Seq(W) /\ ToSet(<<>>) = {} /\ IsInjective(<<>>)
    BY DEF ToSet, IsInjective
  <2>2. \A x \in W : <<x>> \in Seq(W) /\ ToSet(<<x>>) = {x} /\ IsInjective(<<x>>)
    BY DEF ToSet, IsInjective
  <2>3. "accept" \in W /\ "notify" \in W
    OBVIOUS
  <2> HIDE DEF W
  <2> QED BY <1>1, <1>2, <2>1, <2>2, <2>3
<1>7. d \in Seq(W) /\ ToSet(d) \subseteq Client
  <2>1. Client \subseteq W
    OBVIOUS
  <2>2. ToSet(d) \subseteq Client
    BY <1>5, ToSetProps
  <2> HIDE DEF W
  <2>3. d \in Seq(W)
    BY <2>1, <1>5, SeqGrows
  <2> QED BY <2>2, <2>3
<1> HIDE DEF W
<1>8. a \o b \in Seq(W) /\ ToSet(a \o b) = ToSet(a) \cup ToSet(b) /\ IsInjective(a \o b)
  <2>1. ToSet(a) \cap ToSet(b) = {}
    BY <1>6
  <2> QED BY <2>1, <1>6, BothQueues
<1>9. ToSet(rd') = ToSet(a) \cup ToSet(b) \cup ToSet(d) /\ IsInjective(rd')
  <2>1. PICK e \in Seq(W) : e = a \o b
    BY <1>8
  <2>2. ToSet(e) \cap ToSet(d) = {}
    BY <2>1, <1>6, <1>7, <1>8, KindsOfItems
  <2>3. ToSet(e \o d) = ToSet(e) \cup ToSet(d) /\ IsInjective(e \o d)
    <3>1. e \in Seq(W) /\ IsInjective(e) /\ d \in Seq(W) /\ IsInjective(d)
      BY <2>1, <1>5, <1>7, <1>8
    <3> QED BY <2>2, <3>1, BothQueues
  <2> QED BY <2>1, <2>3, <1>4, <1>8
<1>10. "accept" \in ToSet(rd') => backlog' # <<>>
  BY <1>0, <1>6, <1>7, <1>9, KindsOfItems
<1>11. \A c \in Client \cap ToSet(rd') :
         c \in ToSet(inputs') /\ Readable(c)'
  <2> SUFFICES ASSUME NEW c \in Client \cap ToSet(rd')
               PROVE  c \in ToSet(inputs') /\ Readable(c)'
    OBVIOUS
  <2>1. c \in ToSet(d)
    BY <1>6, <1>9, KindsOfItems
  <2> QED BY <2>1, <1>0, <1>5 DEF P, Readable
<1>12. Alive'
  BY <1>0 DEF Alive
<1> QED BY <1>0, <1>9, <1>10, <1>11, <1>12 DEF ClientsInv

(* A connection goes from the one list to the other. *)
LEMMA AcceptClients ==
  ASSUME NetTypes, ClientsInv, Accept
  PROVE  ClientsInv'
<1>1. CASE End("dead")
  BY <1>1, ClientsEnd
<1>2. CASE ~End("dead")
  <2>0. /\ inputs' = Append(inputs, Head(backlog)) /\ backlog' = Tail(backlog) /\ rd' = Tail(rd)
        /\ UNCHANGED <<peer, sock, torn, net, wr, inq, dataq, outq>> /\ rd # <<>> /\ Head(rd) = "accept"
    BY <1>2 DEF Accept, clientv, mgrv
  <2>1. PICK W : rd \in Seq(W)
    BY DEF NetTypes
  <2>2. /\ backlog \in Seq(Client) /\ inputs \in Seq(Client)
    BY DEF NetTypes
  <2>3. "accept" \in ToSet(rd)
    BY <2>0, <2>1, ThinHead
  <2>4. backlog # <<>>
    BY <2>3 DEF ClientsInv
  <2>5. PICK h \in Client : h = Head(backlog)
    BY <2>2, <2>4, PopHead
  <2>6. /\ ToSet(backlog) = {h} \cup ToSet(backlog') /\ IsInjective(backlog')
        /\ h \notin ToSet(backlog')
    BY <2>0, <2>2, <2>4, <2>5, PopHead DEF ClientsInv
  <2>7. ToSet(inputs') = ToSet(inputs) \cup {h} /\ IsInjective(inputs')
    <3>1. h \notin ToSet(inputs)
      BY <2>6 DEF ClientsInv
    <3> QED BY <3>1, <2>0, <2>2, <2>5, PushTail DEF ClientsInv
  <2>8. ToSet(rd) = {"accept"} \cup ToSet(rd') /\ IsInjective(rd') /\ "accept" \notin ToSet(rd')
    BY <2>0, <2>1, PopHead DEF ClientsInv
  <2>9. Alive' = Alive
    BY <2>0 DEF Alive
  <2>10. ~Alive' => rd' = <<>> /\ wr' = <<>>
    BY <2>0, <2>9 DEF ClientsInv
  <2> QED BY <2>0, <2>6, <2>7, <2>8, <2>9, <2>10 DEF ClientsInv, Readable
<1> QED BY <1>1, <1>2

(* After a notification outq is empty. *)
LEMMA NotifiedClients ==
  ASSUME NetTypes, ClientsInv, Notified
  PROVE  ClientsInv'
<1>1. CASE Stop \in Range(outq)
  BY <1>1, ClientsEnd DEF Notified
<1>2. CASE Stop \notin Range(outq)
  <2>0. /\ outq' = <<>> /\ rd' = Tail(rd) /\ rd # <<>>
        /\ UNCHANGED <<peer, sock, torn, net, backlog, inputs, wr, inq, dataq>>
    BY <1>2 DEF Notified, clientv, mgrv
  <2>1. ToSet(rd') \subseteq ToSet(rd) /\ IsInjective(rd')
    BY <2>0, PopHead DEF ClientsInv, NetTypes
  <2>2. ToSet(outq') = {}
    BY <2>0 DEF ToSet
  <2>3. Alive' = Alive
    BY <2>0 DEF Alive
  <2>4. ~Alive' => rd' = <<>> /\ wr' = <<>>
    BY <2>0, <2>3 DEF ClientsInv
  <2> QED BY <2>0, <2>1, <2>2, <2>3, <2>4 DEF ClientsInv, Readable
<1> QED BY <1>1, <1>2

(* Who is read from is in the list of clients, and is not read from twice  *)
(* in a round.                                                             *)
LEMMA ReceiveClients ==
  ASSUME NetTypes, FlowInv, ClientsInv, Receive
  PROVE  ClientsInv'
<1>r. PICK c \in Client, u \in Seq(Item), w \in Seq(Item), v \in Seq(Item), z \in BOOLEAN :
         Parts(c, u, w, v, z)
  BY ReceiveParts
<1>1. /\ c = Head(rd) /\ rd # <<>> /\ rd' = Tail(rd)
      /\ inq' = inq \o u /\ sock' = [sock EXCEPT ![c] = v] /\ torn' = [torn EXCEPT ![c] = z]
      /\ UNCHANGED <<peer, net, backlog, inputs, wr, dataq, outq>>
  BY <1>r DEF Parts, mgrv
<1>3. ToSet(rd) = {c} \cup ToSet(rd') /\ IsInjective(rd') /\ c \notin ToSet(rd')
  BY <1>1, PopHead DEF ClientsInv, NetTypes
<1>4. c \in ToSet(inputs)
  BY <1>3 DEF ClientsInv
<1>5. \A d \in Client : d # c => sock'[d] = sock[d] /\ torn'[d] = torn[d]
  BY <1>1 DEF NetTypes
<1>6. \A x \in ToSet(u) : x.c = c
  <2>1. ToSet(u) \subseteq ToSet(sock[c])
    BY <1>r, SockParts
  <2> QED BY <2>1, SockFits
<1>7. ToSet(inq') = ToSet(inq) \cup ToSet(u)
  <2>1. inq \in Seq(Item)
    BY DEF NetTypes
  <2> QED BY <1>1, <2>1, BothQueues
<1>8. Alive' = Alive
  BY <1>1 DEF Alive
<1>9. ~Alive' => rd' = <<>> /\ wr' = <<>>
  <2>1. Alive
    BY <1>1 DEF ClientsInv
  <2> QED BY <1>8, <2>1
<1>10. \A d \in Client \cap ToSet(rd') : d \in ToSet(inputs') /\ Readable(d)'
  BY <1>1, <1>3, <1>5 DEF ClientsInv, Readable
<1>11. \A x \in ToSet(inq') \cup ToSet(dataq') \cup ToSet(outq') :
         Alive' /\ x.c \in Client => x.c \in ToSet(inputs') \/ peer'[x.c] = "closed"
  BY <1>1, <1>4, <1>6, <1>7, <1>8 DEF ClientsInv
<1> QED BY <1>1, <1>3, <1>8, <1>9, <1>10, <1>11 DEF ClientsInv

(* A client is forgotten only if it left.                                  *)
LEMMA DisconnectClients ==
  ASSUME NetTypes, ClientsInv, Disconnect
  PROVE  ClientsInv' /\ peer[Head(rd)] = "closed"
<1>1. PICK c \in Client : c = Head(rd)
  BY DEF Disconnect
<1>2. /\ rd # <<>> /\ rd' = Tail(rd) /\ inputs' = Sift(inputs, Client \ {c})
      /\ sock[c] = <<>> /\ ~torn[c]
      /\ UNCHANGED <<peer, sock, torn, net, backlog, wr, inq, dataq, outq>>
  BY <1>1 DEF Disconnect, clientv, mgrv
<1>3. ToSet(rd) = {c} \cup ToSet(rd') /\ IsInjective(rd') /\ c \notin ToSet(rd')
  BY <1>1, <1>2, PopHead DEF ClientsInv, NetTypes
<1>4. peer[c] = "closed"
  BY <1>2, <1>3 DEF ClientsInv, Readable
<1>5. ToSet(inputs') = ToSet(inputs) \ {c} /\ IsInjective(inputs')
  <2>1. inputs \in Seq(Client) /\ ToSet(inputs) \subseteq Client
    BY ToSetProps DEF NetTypes
  <2>2. ToSet(inputs') = ToSet(inputs) \cap (Client \ {c})
    BY <1>2, <2>1, SiftProps
  <2>3. IsInjective(inputs')
    BY <1>2, <2>1, SiftOnce DEF ClientsInv
  <2> QED BY <2>1, <2>2, <2>3
<1>6. Alive' = Alive
  BY <1>2 DEF Alive
<1>7. ~Alive' => rd' = <<>> /\ wr' = <<>>
  BY <1>2, <1>6 DEF ClientsInv
<1>8. \A x \in ToSet(inq') \cup ToSet(dataq') \cup ToSet(outq') :
         Alive' /\ x.c \in Client => x.c \in ToSet(inputs') \/ peer'[x.c] = "closed"
  BY <1>2, <1>4, <1>5, <1>6 DEF ClientsInv
<1>9. \A d \in Client \cap ToSet(rd') :
         d \in ToSet(inputs') /\ Readable(d)'
  BY <1>2, <1>3, <1>5 DEF ClientsInv, Readable
<1>10. ClientsInv'
  BY <1>2, <1>3, <1>5, <1>6, <1>7, <1>8, <1>9 DEF ClientsInv
<1> QED BY <1>1, <1>4, <1>10

(* The second half of a round leaves the lists alone, or the thread is     *)
(* dead.                                                                   *)
LEMMA WriteClients ==
  ASSUME NetTypes, ClientsInv, Write
  PROVE  ClientsInv'
<1>1. CASE End("dead")
  BY <1>1, ClientsEnd
<1>2. CASE ~End("dead")
  <2>0. /\ wr' = Tail(wr) /\ wr # <<>>
        /\ UNCHANGED <<peer, sock, torn, net, backlog, inputs, rd, inq, dataq, outq>>
    BY <1>2 DEF Write, mgrv
  <2>1. Alive' = Alive /\ Alive
    BY <2>0 DEF Alive, ClientsInv
  <2> QED BY <2>0, <2>1 DEF ClientsInv, Readable
<1> QED BY <1>1, <1>2

(* The other threads: what is between goes on, or "none" is added.         *)
LEMMA BetweenStays ==
  ASSUME NetTypes,
         CmdProc \/ DealCmd \/ ToNetwork \/ ToPhy \/ Event \/ Exit \/ JoinCmdProc
  PROVE  \A x \in Between' : x.c = "none" \/ \E y \in Between : y.c = x.c
<1>0. inq \in Seq(Item) /\ dataq \in Seq(Item) /\ outq \in Seq(Item) /\ Stop \in Item
      /\ Stop.c = "none"
  BY KindsOfItems DEF NetTypes
<1>1. ASSUME NEW q \in Seq(Item), q # <<>>
      PROVE  ToSet(Tail(q)) \subseteq ToSet(q) /\ Head(q) \in ToSet(q) /\ Head(q) \in Item
             /\ Tail(q) \in Seq(Item)
  BY <1>1, PopHead, ThinHead
<1>2. ASSUME NEW q \in Seq(Item), NEW x \in Item
      PROVE  ToSet(Append(q, x)) = ToSet(q) \cup {x}
  BY PushTail
<1>3. CASE CmdProc
  <2>1. /\ inq # <<>> /\ inq' = Tail(inq) /\ outq' = outq
        /\ dataq' = dataq \/ dataq' = Append(dataq, Head(inq))
    BY <1>3 DEF CmdProc
  <2>2. ToSet(inq') \subseteq ToSet(inq) /\ Head(inq) \in ToSet(inq) /\ Head(inq) \in Item
    BY <1>0, <1>1, <2>1
  <2>3. ToSet(dataq') \subseteq ToSet(dataq) \cup {Head(inq)}
    BY <1>0, <1>2, <2>1, <2>2
  <2> QED BY <2>1, <2>2, <2>3 DEF Between
<1>4. CASE DealCmd
  <2>1. PICK y : y = [Head(dataq) EXCEPT !.k = IF @ = "get" THEN "reply" ELSE "frame"]
    OBVIOUS
  <2>2. dataq # <<>> /\ dataq' = Append(Tail(dataq), y) /\ inq' = inq /\ outq' = outq
    BY <1>4, <2>1 DEF DealCmd
  <2>3. y \in Item /\ y.c = Head(dataq).c
    BY <1>0, <1>1, <2>1, <2>2 DEF Item, Dealt
  <2>4. ToSet(dataq') = ToSet(Tail(dataq)) \cup {y}
    BY <1>0, <1>1, <1>2, <2>2, <2>3
  <2> QED BY <1>0, <1>1, <2>2, <2>3, <2>4 DEF Between
<1>5. CASE ToNetwork
  <2>1. /\ dataq # <<>> /\ dataq' = Tail(dataq) /\ inq' = inq /\ outq' = Append(outq, Head(dataq))
    BY <1>5 DEF ToNetwork
  <2> QED BY <1>0, <1>1, <1>2, <2>1 DEF Between
<1>6. CASE ToPhy
  <2>1. /\ dataq # <<>> /\ dataq' = Tail(dataq) /\ inq' = inq /\ outq' = outq
    BY <1>6 DEF ToPhy
  <2> QED BY <1>0, <1>1, <2>1 DEF Between
<1>7. CASE Event
  <2>1. PICK n \in Nat : n = events + 1
    BY DEF NetTypes
  <2>2. dataq' = Append(dataq, EventNo(n)) /\ inq' = inq /\ outq' = outq
    BY <1>7, <2>1 DEF Event
  <2>3. EventNo(n) \in Item /\ EventNo(n).c = "none"
    BY KindsOfItems
  <2> QED BY <1>0, <1>2, <2>2, <2>3 DEF Between
<1>8. CASE Exit
  <2>1. inq' = Append(inq, Stop) /\ dataq' = dataq /\ outq' = outq
    BY <1>8 DEF Exit, mgrv
  <2> QED BY <1>0, <1>2, <2>1 DEF Between
<1>9. CASE JoinCmdProc
  <2>1. outq' = Append(outq, Stop) /\ dataq' = dataq /\ inq' = inq
    BY <1>9 DEF JoinCmdProc, mgrv
  <2> QED BY <1>0, <1>2, <2>1 DEF Between
<1> QED BY <1>3, <1>4, <1>5, <1>6, <1>7, <1>8, <1>9

(* Every step keeps the lists of the network thread in order. *)
LEMMA ClientsNext ==
  ASSUME NetTypes, FlowInv, ClientsInv, [NetNext]_netVars
  PROVE  ClientsInv'
<1>1. ASSUME NEW c \in Client, Connect(c) PROVE ClientsInv'
  BY <1>1, ConnectClients
<1>2. ASSUME NEW c \in Client, Close(c) \/ \E k \in {"get", "set"} : Send(c, k) PROVE ClientsInv'
  BY <1>2, SendCloseClients
<1>3. CASE NetStep
  BY <1>3, SelectClients, AcceptClients, NotifiedClients, ReceiveClients, DisconnectClients,
     WriteClients DEF NetStep
<1>4. CASE CmdProc \/ DealCmd \/ ToNetwork \/ ToPhy \/ Event \/ Exit \/ JoinCmdProc
  <2>1. UNCHANGED <<peer, sock, torn, net, backlog, inputs, rd, wr>>
    BY <1>4 DEF CmdProc, DealCmd, ToNetwork, ToPhy, Event, Exit, JoinCmdProc, clientv, netv
  <2> QED BY <1>4, <2>1, BetweenStays, ClientsStay
<1>5. ASSUME UNCHANGED <<clientv, netv, inq, dataq, outq>> PROVE ClientsInv'
  <2>1. Between' = Between
    BY <1>5 DEF Between
  <2>2. UNCHANGED <<peer, sock, torn, net, backlog, inputs, rd, wr>>
    BY <1>5 DEF clientv, netv
  <2> QED BY <2>1, <2>2, ClientsStay
<1>6. CASE NotifyNetwork \/ NotifyPhy \/ ManagerDies \/ ManagerEnds \/ PhyNotified \/ PhyWrite
  BY <1>5, <1>6 DEF NotifyNetwork, NotifyPhy, ManagerDies, ManagerEnds, PhyNotified, PhyWrite, mgrv
<1>7. CASE AudioStep \/ StopNetwork \/ JoinNetwork \/ JoinManager \/ JoinPhy
  BY <1>5, <1>7 DEF AudioStep, AudioTold, AudioWoken, StopAudio, JoinAudio, StopNetwork,
                    JoinNetwork, JoinManager, JoinPhy, mgrv
<1>8. CASE UNCHANGED netVars
  BY <1>5, <1>8 DEF netVars, mgrv
<1> QED BY <1>1, <1>2, <1>3, <1>4, <1>6, <1>7, <1>8
        DEF NetNext, MgrStep, PhyStep, MainStep, AudioStep

-----------------------------------------------------------------------------
(* The command n of c asks for a reply that c still waits for.             *)
Waiting(c, n) ==
  Alive /\ peer[c] = "open" /\ n \in DOMAIN sent[c] /\ sent[c][n] = "get"

(* A client that has not connected yet has not sent anything, and what was *)
(* cut had been sent.                                                      *)
NewIsQuiet == \A c \in Client : peer[c] = "new" => sent[c] = <<>>
LostWasSent == \A x \in lost : x.c \in Client /\ x.n \in DOMAIN sent[x.c]

(* The places in which it has to be. *)
Due(c, n) == IF Gone(c, n) THEN 0 ELSE 1

(* NoReplyLost, by who waits. *)
LEMMA LostOrNot ==
  /\ NoReplyLost <=> \A c \in Client : \A n : Waiting(c, n) => PlacesOf(c, n) = Due(c, n)
  /\ NoReplyLost' <=> \A c \in Client : \A n : Waiting(c, n)' => PlacesOf(c, n)' = Due(c, n)'
BY DEF NoReplyLost, Waiting, Due

(* The places of a command, now and after a step. *)
LEMMA PlacesNow ==
  ASSUME NetTypes, NEW c \in Client, NEW n
  PROVE  /\ PlacesOf(c, n) = Count(sock[c], c, n) + Count(inq, c, n) + Count(dataq, c, n)
                             + Count(outq, c, n) + Count(cliq[c], c, n) + Count(got[c], c, n)
         /\ Count(sock[c], c, n) \in Nat /\ Count(inq, c, n) \in Nat /\ Count(dataq, c, n) \in Nat
         /\ Count(outq, c, n) \in Nat /\ Count(cliq[c], c, n) \in Nat /\ Count(got[c], c, n) \in Nat
<1>1. /\ sock[c] \in Seq(Item) /\ inq \in Seq(Item) /\ dataq \in Seq(Item) /\ outq \in Seq(Item)
      /\ cliq[c] \in Seq(Item) /\ got[c] \in Seq(Item)
  BY DEF NetTypes
<1> QED BY <1>1, CountNat DEF PlacesOf

(* The same places after the step. *)
LEMMA PlacesNext ==
  ASSUME NEW c, NEW n
  PROVE  PlacesOf(c, n)' = Count(sock'[c], c, n) + Count(inq', c, n) + Count(dataq', c, n)
                           + Count(outq', c, n) + Count(cliq'[c], c, n) + Count(got'[c], c, n)
BY DEF PlacesOf, Count

(* An empty queue counts nothing. *)
LEMMA EmptyCount ==
  ASSUME NEW c, NEW n
  PROVE  Count(<<>>, c, n) = 0
<1>1. <<>> \in Seq(Item) /\ ToSet(<<>>) = {}
  BY DEF ToSet
<1> QED BY <1>1, CountNone

(* Something went from one queue to the next.                              *)
LEMMA MovedCount ==
  ASSUME NetTypes, NetTypes', NEW c \in Client, NEW n, UNCHANGED sock,
         \/ /\ UNCHANGED <<outq, cliq, got>>
            /\ Count(inq', c, n) + Count(dataq', c, n) = Count(inq, c, n) + Count(dataq, c, n)
         \/ /\ UNCHANGED <<inq, cliq, got>>
            /\ Count(dataq', c, n) + Count(outq', c, n) = Count(dataq, c, n) + Count(outq, c, n)
         \/ /\ UNCHANGED <<inq, dataq, outq>>
            /\ Count(cliq'[c], c, n) + Count(got'[c], c, n)
                 = Count(cliq[c], c, n) + Count(got[c], c, n)
  PROVE  PlacesOf(c, n)' = PlacesOf(c, n)
<1>1. /\ sock[c] \in Seq(Item) /\ inq \in Seq(Item) /\ dataq \in Seq(Item) /\ outq \in Seq(Item)
      /\ cliq[c] \in Seq(Item) /\ got[c] \in Seq(Item)
      /\ inq' \in Seq(Item) /\ dataq' \in Seq(Item) /\ outq' \in Seq(Item)
      /\ cliq'[c] \in Seq(Item) /\ got'[c] \in Seq(Item)
  BY DEF NetTypes
<1>2. PICK s0 \in Nat, i0 \in Nat, d0 \in Nat, o0 \in Nat, q0 \in Nat, g0 \in Nat :
        /\ s0 = Count(sock[c], c, n) /\ i0 = Count(inq, c, n) /\ d0 = Count(dataq, c, n)
        /\ o0 = Count(outq, c, n) /\ q0 = Count(cliq[c], c, n) /\ g0 = Count(got[c], c, n)
  BY <1>1, CountNat
<1>3. PICK i1 \in Nat, d1 \in Nat, o1 \in Nat, q1 \in Nat, g1 \in Nat :
        /\ i1 = Count(inq', c, n) /\ d1 = Count(dataq', c, n)
        /\ o1 = Count(outq', c, n) /\ q1 = Count(cliq'[c], c, n) /\ g1 = Count(got'[c], c, n)
  BY <1>1, CountNat
<1>4. PlacesOf(c, n) = s0 + i0 + d0 + o0 + q0 + g0
  BY <1>2, PlacesNow
<1>5. PlacesOf(c, n)' = s0 + i1 + d1 + o1 + q1 + g1
  BY <1>2, <1>3, PlacesNext
<1>6. \/ o1 = o0 /\ q1 = q0 /\ g1 = g0 /\ i1 + d1 = i0 + d0
      \/ i1 = i0 /\ q1 = q0 /\ g1 = g0 /\ d1 + o1 = d0 + o0
      \/ i1 = i0 /\ d1 = d0 /\ o1 = o0 /\ q1 + g1 = q0 + g0
  BY <1>2, <1>3
<1>7. s0 + i1 + d1 + o1 + q1 + g1 = s0 + i0 + d0 + o0 + q0 + g0
  BY <1>6
<1> QED BY <1>4, <1>5, <1>7

(* A reply in outq finds its client in the list, for the client has not    *)
(* left.                                                                   *)
LEMMA NotifiedCount ==
  ASSUME NetTypes, FlowInv, ClientsInv, Notified, NEW c \in Client, NEW n,
         Waiting(c, n), Waiting(c, n)'
  PROVE  PlacesOf(c, n)' = PlacesOf(c, n)
<1> USE DEF clientv, netv, mgrv, phyv, mainv, audiov
<1>1. Stop \notin Range(outq)
  BY DEF Waiting, Alive, Notified, End
<1>2. PICK P : P = {x \in Range(outq) : c \in Receivers(x)}
  OBVIOUS
<1>3. /\ cliq'[c] = cliq[c] \o Sift(outq, P) /\ outq' = <<>>
      /\ UNCHANGED <<sock, inq, dataq, got>>
  BY <1>1, <1>2 DEF Notified
<1>4. outq \in Seq(Item) /\ cliq[c] \in Seq(Item) /\ StagesInv(c) /\ Stages(c)[3] = outq
  BY StageAt DEF NetTypes, FlowInv
<1>5. \A x \in ToSet(outq) : x.c = c /\ x.n = n => x \in P
  <2> SUFFICES ASSUME NEW x \in ToSet(outq), x.c = c PROVE x \in P
    OBVIOUS
  <2>1. Fits(c, 3, x)
    BY <1>4 DEF StagesInv
  <2>2. x.k # "event"
    BY <2>1, KindsOfItems DEF Fits, StandsFor
  <2>3. c \in ToSet(inputs)
    BY DEF ClientsInv, Waiting
  <2>4. ToSet(inputs) = Range(inputs) /\ ToSet(outq) = Range(outq)
    BY DEF ToSet, Range
  <2> QED BY <1>2, <2>2, <2>3, <2>4 DEF Receivers
<1>6. Count(Sift(outq, P), c, n) = Count(outq, c, n) /\ Sift(outq, P) \in Seq(Item)
  <2>1. Sift(outq, P) \in Seq(Item)
    BY <1>4, SiftProps
  <2>2. Count(Sift(outq, P), c, n) = Count(outq, c, n)
    BY <1>4, <1>5, CountSift
  <2> QED BY <2>1, <2>2
<1>7. Count(cliq'[c], c, n) = Count(cliq[c], c, n) + Count(outq, c, n)
  <2>1. PICK u \in Seq(Item) : u = Sift(outq, P)
    BY <1>6
  <2>2. PICK v \in Seq(Item) : v = cliq[c]
    BY <1>4
  <2>3. Count(v \o u, c, n) = Count(v, c, n) + Count(u, c, n)
    BY CountBoth
  <2> QED BY <1>3, <1>6, <2>1, <2>2, <2>3
<1>8. /\ Count(outq', c, n) = 0 /\ Count(sock'[c], c, n) = Count(sock[c], c, n)
      /\ Count(inq', c, n) = Count(inq, c, n) /\ Count(dataq', c, n) = Count(dataq, c, n)
      /\ Count(got'[c], c, n) = Count(got[c], c, n)
  BY <1>3, EmptyCount
<1>9. /\ Count(sock[c], c, n) \in Nat /\ Count(inq, c, n) \in Nat /\ Count(dataq, c, n) \in Nat
      /\ Count(outq, c, n) \in Nat /\ Count(cliq[c], c, n) \in Nat /\ Count(got[c], c, n) \in Nat
  BY PlacesNow
<1> QED BY <1>7, <1>8, <1>9, PlacesNow, PlacesNext

(* A command that is in a queue counts there. *)
LEMMA CountSome ==
  ASSUME NEW q \in Seq(Item), NEW x \in ToSet(q)
  PROVE  Count(q, x.c, x.n) # 0
<1>1. PICK i \in DOMAIN q : q[i] = x
  BY DEF ToSet
<1>2. PICK P : P = {j \in DOMAIN q : q[j].c = x.c /\ q[j].n = x.n}
  OBVIOUS
<1>3. IsFiniteSet(P) /\ i \in P
  <2>1. IsFiniteSet(DOMAIN q)
    BY LenProperties, FS_Interval
  <2>2. P \subseteq DOMAIN q
    BY <1>2
  <2> QED BY <1>1, <1>2, <2>1, <2>2, FS_Subset
<1>4. Cardinality(P) # 0
  BY <1>3, FS_EmptySet
<1> QED BY <1>2, <1>4 DEF Count

(* The commands in the socket of one client are not those of another, and  *)
(* what is dropped is counted no more and is lost.                         *)
LEMMA ReceiveCount ==
  ASSUME NetTypes, NetTypes', FlowInv, Receive, NEW c \in Client, NEW n, Waiting(c, n),
         PlacesOf(c, n) = Due(c, n)
  PROVE  PlacesOf(c, n)' = Due(c, n)'
<1> USE DEF clientv, netv, mgrv, phyv, mainv, audiov
<1>r. PICK b \in Client, u \in Seq(Item), w \in Seq(Item), v \in Seq(Item), z \in BOOLEAN :
         Parts(b, u, w, v, z)
  BY ReceiveParts
<1>1. /\ inq' = inq \o u /\ sock' = [sock EXCEPT ![b] = v]
      /\ lost' = lost \cup ToSet(w) /\ UNCHANGED <<dataq, outq, cliq, got>>
  BY <1>r DEF Parts
<1>2. PICK i0 \in Nat, d0 \in Nat, o0 \in Nat, q0 \in Nat, g0 \in Nat :
        /\ i0 = Count(inq, c, n) /\ d0 = Count(dataq, c, n)
        /\ o0 = Count(outq, c, n) /\ q0 = Count(cliq[c], c, n) /\ g0 = Count(got[c], c, n)
  BY PlacesNow, ZenonT(30)
<1>3. PICK cu \in Nat, cw \in Nat, cv \in Nat :
        /\ cu = Count(u, c, n) /\ cw = Count(w, c, n) /\ cv = Count(v, c, n)
  BY CountNat
<1>4. Count(inq', c, n) = i0 + cu
  <2>1. PICK o \in Seq(Item) : o = inq
    BY DEF NetTypes
  <2>2. Count(o \o u, c, n) = Count(o, c, n) + Count(u, c, n)
    BY CountBoth
  <2> QED BY <1>1, <1>2, <1>3, <2>1, <2>2
<1>6. ToSet(u) \subseteq ToSet(sock[b]) /\ ToSet(w) \subseteq ToSet(sock[b])
      /\ sock[b] \in Seq(Item)
  BY <1>r, SockParts
<1>7. Count(sock[b], c, n) = cu + cw + cv
  <2>1. Count(sock[b], c, n) = Count(u, c, n) + Count(w, c, n) + Count(v, c, n)
    BY <1>r, SockParts
  <2> QED BY <1>3, <2>1
<1>8. \A x \in ToSet(sock[b]) : x.c = b /\ x.k \in Raw /\ Fits(b, 8, x)
  BY SockFits
<1>9. PlacesOf(c, n)' = Count(sock'[c], c, n) + (i0 + cu) + d0 + o0 + q0 + g0
  BY <1>1, <1>2, <1>4, PlacesNext
<1>10. PlacesOf(c, n) = Count(sock[c], c, n) + i0 + d0 + o0 + q0 + g0
  BY <1>2, PlacesNow
<1>11. PICK x : x = [k |-> "get", c |-> c, n |-> n] /\ x.c = c /\ x.n = n
  <2> DEFINE y == [k |-> "get", c |-> c, n |-> n]
  <2>1. y.c = c /\ y.n = n
    OBVIOUS
  <2> QED BY <2>1
<1>12. (Gone(c, n) <=> x \in lost) /\ (Gone(c, n)' <=> x \in lost \cup ToSet(w))
  BY <1>1, <1>11 DEF Gone
<1>13. CASE c # b
  <2>1. sock'[c] = sock[c] /\ x \notin ToSet(w)
    BY <1>1, <1>6, <1>8, <1>11, <1>13 DEF NetTypes
  <2>2. cu = 0
    <3>1. \A y \in ToSet(u) : ~(y.c = c /\ y.n = n)
      BY <1>6, <1>8, <1>13
    <3> QED BY <3>1, <1>3, CountNone
  <2>3. Count(sock[c], c, n) \in Nat
    BY PlacesNow
  <2>4. PlacesOf(c, n)' = PlacesOf(c, n)
    BY <1>9, <1>10, <2>1, <2>2, <2>3
  <2>5. Due(c, n)' = Due(c, n)
    BY <1>12, <2>1 DEF Due
  <2> QED BY <2>4, <2>5
<1>14. CASE c = b
  <2>1. Count(sock'[c], c, n) = cv
    BY <1>1, <1>3, <1>14 DEF NetTypes
  <2>9. PICK after \in Nat : after = PlacesOf(c, n)'
    <3>1. cv + (i0 + cu) + d0 + o0 + q0 + g0 \in Nat
      OBVIOUS
    <3> QED BY <3>1, <1>9, <2>1
  <2>2. PlacesOf(c, n) = after + cw
    <3>1. after = cv + (i0 + cu) + d0 + o0 + q0 + g0
      BY <1>9, <2>1, <2>9
    <3>2. PlacesOf(c, n) = (cu + cw + cv) + i0 + d0 + o0 + q0 + g0
      BY <1>7, <1>10, <1>14
    <3> QED BY <3>1, <3>2
  <2>4. x \in ToSet(w) => cw # 0
    BY <1>3, <1>11, CountSome
  <2>5. x \notin ToSet(w) => cw = 0
    <3>1. ASSUME NEW y \in ToSet(w), y.c = c, y.n = n PROVE y = x
      <4>1. y \in Item /\ y.k \in Raw /\ Fits(b, 8, y)
        BY <1>6, <1>8, ToSetProps
      <4>2. y.k = "get"
        BY <4>1, <3>1 DEF Fits, StandsFor, Waiting, Raw, Stop
      <4> QED BY <4>1, <4>2, <3>1, <1>11 DEF Item
    <3>2. x \notin ToSet(w) => \A y \in ToSet(w) : ~(y.c = c /\ y.n = n)
      BY <3>1
    <3> QED BY <3>2, <1>3, CountNone
  <2>6. CASE x \in ToSet(w)
    <3>1. Due(c, n)' = 0
      BY <2>6, <1>12 DEF Due
    <3>2. PlacesOf(c, n) \in {0, 1}
      BY DEF Due
    <3>3. after = 0
      BY <2>2, <2>4, <2>6, <3>2
    <3> QED BY <2>9, <3>1, <3>3
  <2>7. CASE x \notin ToSet(w)
    <3>1. Due(c, n)' = Due(c, n)
      BY <2>7, <1>12 DEF Due
    <3>2. PlacesOf(c, n) = after
      BY <2>2, <2>5, <2>7
    <3> QED BY <2>9, <3>1, <3>2
  <2> QED BY <2>6, <2>7
<1> QED BY <1>13, <1>14

(* Only a client that left is forgotten, with its queue. *)
LEMMA DisconnectCount ==
  ASSUME NetTypes, ClientsInv, Disconnect, NEW c \in Client, NEW n, Waiting(c, n)
  PROVE  PlacesOf(c, n)' = PlacesOf(c, n)
<1> USE DEF clientv, netv, mgrv, phyv, mainv, audiov
<1>1. PICK b \in Client : b = Head(rd)
  BY DEF Disconnect
<1>2. peer[b] = "closed"
  BY <1>1, DisconnectClients
<1>3. cliq' = [cliq EXCEPT ![b] = <<>>] /\ UNCHANGED <<sock, inq, dataq, outq, got>>
  BY <1>1 DEF Disconnect
<1>4. cliq'[c] = cliq[c]
  BY <1>2, <1>3 DEF Waiting, NetTypes
<1> QED BY <1>3, <1>4, PlacesNow, PlacesNext

(* The head of the queue of a client that stays is received by it. *)
LEMMA WriteCount ==
  ASSUME NetTypes, NetTypes', Write, NEW c \in Client, NEW n, Waiting(c, n), Waiting(c, n)'
  PROVE  PlacesOf(c, n)' = PlacesOf(c, n)
<1> USE DEF clientv, netv, mgrv, phyv, mainv, audiov
<1>1. PICK b : b = Head(wr)
  OBVIOUS
<1>2. UNCHANGED <<sock, inq, dataq, outq>>
  BY DEF Write
<1>3. ~End("dead")
  BY DEF Waiting, Alive, End
<1>4. CASE UNCHANGED <<got, cliq>>
  BY <1>2, <1>4, PlacesNow, PlacesNext
<1>5. CASE /\ b \in Range(inputs) /\ cliq[b] # <<>>
           /\ cliq' = [cliq EXCEPT ![b] = Tail(@)]
           /\ got' = IF peer[b] = "open" THEN [got EXCEPT ![b] = Append(@, NextOut(b))] ELSE got
  <2>1. CASE b # c
    <3>1. cliq'[c] = cliq[c] /\ got'[c] = got[c]
      BY <1>5, <2>1 DEF NetTypes
    <3> QED BY <1>2, <3>1, PlacesNow, PlacesNext
  <2>2. CASE b = c
    <3>1. PICK q \in Seq(Item) : q = cliq[c]
      BY DEF NetTypes
    <3>2. PICK g \in Seq(Item) : g = got[c]
      BY DEF NetTypes
    <3>3. q # <<>> /\ cliq'[c] = Tail(q) /\ got'[c] = Append(g, Head(q))
      BY <1>5, <2>2, <3>1, <3>2 DEF NetTypes, Waiting, NextOut
    <3>4. PICK h \in Item : h = Head(q)
      BY <3>3, PopHead
    <3>5. Count(q, c, n) = Count(Tail(q), c, n) + (IF h.c = c /\ h.n = n THEN 1 ELSE 0)
      BY <3>3, <3>4, CountPop
    <3>6. Count(Append(g, h), c, n) = Count(g, c, n) + (IF h.c = c /\ h.n = n THEN 1 ELSE 0)
      BY CountPush
    <3>7. Tail(q) \in Seq(Item) /\ Count(Tail(q), c, n) \in Nat
      <4>1. PICK t \in Seq(Item) : t = Tail(q)
        BY <3>3, PopHead
      <4>2. Count(t, c, n) \in Nat
        BY CountNat
      <4> QED BY <4>1, <4>2
    <3>8. Count(cliq'[c], c, n) + Count(got'[c], c, n) = Count(cliq[c], c, n) + Count(got[c], c, n)
      <4>1. Count(g, c, n) \in Nat
        BY CountNat
      <4> QED BY <4>1, <3>1, <3>2, <3>3, <3>4, <3>5, <3>6, <3>7
    <3> QED BY <1>2, <3>8, MovedCount
  <2> QED BY <2>1, <2>2
<1> QED BY <1>1, <1>3, <1>4, <1>5 DEF Write

(* One item x leaves the front of a queue, or is added to one.             *)
LEMMA PopCount ==
  ASSUME NEW q \in Seq(Item), q # <<>>, NEW c, NEW n
  PROVE  /\ Head(q) \in Item /\ Tail(q) \in Seq(Item) /\ Count(Tail(q), c, n) \in Nat
         /\ Count(q, c, n) = Count(Tail(q), c, n)
                             + (IF Head(q).c = c /\ Head(q).n = n THEN 1 ELSE 0)
<1>1. Head(q) \in Item /\ Tail(q) \in Seq(Item)
  BY PopHead
<1>2. Count(q, c, n) = Count(Tail(q), c, n) + (IF Head(q).c = c /\ Head(q).n = n THEN 1 ELSE 0)
  BY CountPop
<1>3. Count(Tail(q), c, n) \in Nat
  <2>1. PICK t \in Seq(Item) : t = Tail(q)
    BY <1>1
  <2>2. Count(t, c, n) \in Nat
    BY CountNat
  <2> QED BY <2>1, <2>2
<1> QED BY <1>1, <1>2, <1>3

(* From inq to dataq. *)
LEMMA CmdProcCount ==
  ASSUME NetTypes, NetTypes', CmdProc, NEW c \in Client, NEW n
  PROVE  PlacesOf(c, n)' = PlacesOf(c, n)
<1> USE DEF clientv, netv, mgrv, phyv, mainv, audiov
<1>1. PICK q \in Seq(Item) : q = inq
  BY DEF NetTypes
<1>2. PICK d \in Seq(Item) : d = dataq
  BY DEF NetTypes
<1>3. q # <<>> /\ inq' = Tail(q) /\ UNCHANGED <<sock, outq, cliq, got>>
  BY <1>1 DEF CmdProc
<1>4. PICK h \in Item : h = Head(q)
  BY <1>3, PopHead
<1>5. /\ Count(Tail(q), c, n) \in Nat
      /\ Count(q, c, n) = Count(Tail(q), c, n) + (IF h.c = c /\ h.n = n THEN 1 ELSE 0)
  BY <1>3, <1>4, PopCount
<1>6. CASE h = Stop
  <2>1. dataq' = dataq
    BY <1>1, <1>4, <1>6 DEF CmdProc
  <2>2. h.c # c
    BY <1>6, KindsOfItems
  <2> QED BY <1>1, <1>3, <1>5, <2>1, <2>2, PlacesNow, PlacesNext
<1>7. CASE h # Stop
  <2>1. dataq' = Append(d, h)
    BY <1>1, <1>2, <1>4, <1>7 DEF CmdProc
  <2>2. Count(Append(d, h), c, n) = Count(d, c, n) + (IF h.c = c /\ h.n = n THEN 1 ELSE 0)
    BY CountPush
  <2>3. Count(d, c, n) \in Nat /\ Count(q, c, n) \in Nat
    BY CountNat
  <2>4. Count(inq', c, n) + Count(dataq', c, n) = Count(inq, c, n) + Count(dataq, c, n)
    BY <1>1, <1>2, <1>3, <1>5, <2>1, <2>2, <2>3
  <2> QED BY <1>3, <2>4, MovedCount
<1> QED BY <1>6, <1>7

(* The answer has the client and the number of its command. *)
LEMMA DealCmdCount ==
  ASSUME NetTypes, DealCmd, NEW c \in Client, NEW n
  PROVE  PlacesOf(c, n)' = PlacesOf(c, n)
<1> USE DEF clientv, netv, mgrv, phyv, mainv, audiov
<1>1. PICK q \in Seq(Item) : q = dataq
  BY DEF NetTypes
<1>2. PICK y : y = [Head(q) EXCEPT !.k = IF @ = "get" THEN "reply" ELSE "frame"]
  OBVIOUS
<1>3. q # <<>> /\ dataq' = Append(Tail(q), y) /\ UNCHANGED <<sock, inq, outq, cliq, got>>
  BY <1>1, <1>2 DEF DealCmd
<1>4. PICK h \in Item : h = Head(q)
  BY <1>3, PopHead
<1>5. /\ Count(Tail(q), c, n) \in Nat /\ Tail(q) \in Seq(Item)
      /\ Count(q, c, n) = Count(Tail(q), c, n) + (IF h.c = c /\ h.n = n THEN 1 ELSE 0)
  BY <1>3, <1>4, PopCount
<1>6. y \in Item /\ y.c = h.c /\ y.n = h.n
  BY <1>2, <1>4 DEF Item, Dealt
<1>7. PICK t \in Seq(Item) : t = Tail(q)
  BY <1>5
<1>8. Count(Append(t, y), c, n) = Count(t, c, n) + (IF y.c = c /\ y.n = n THEN 1 ELSE 0)
  BY <1>6, CountPush
<1> QED BY <1>1, <1>3, <1>5, <1>6, <1>7, <1>8, PlacesNow, PlacesNext

(* From dataq to outq. *)
LEMMA ToNetworkCount ==
  ASSUME NetTypes, NetTypes', ToNetwork, NEW c \in Client, NEW n
  PROVE  PlacesOf(c, n)' = PlacesOf(c, n)
<1> USE DEF clientv, netv, mgrv, phyv, mainv, audiov
<1>1. PICK q \in Seq(Item) : q = dataq
  BY DEF NetTypes
<1>2. PICK o \in Seq(Item) : o = outq
  BY DEF NetTypes
<1>3. /\ q # <<>> /\ dataq' = Tail(q) /\ outq' = Append(o, Head(q))
      /\ UNCHANGED <<sock, inq, cliq, got>>
  BY <1>1, <1>2 DEF ToNetwork
<1>4. PICK h \in Item : h = Head(q)
  BY <1>3, PopHead
<1>5. /\ Count(Tail(q), c, n) \in Nat
      /\ Count(q, c, n) = Count(Tail(q), c, n) + (IF h.c = c /\ h.n = n THEN 1 ELSE 0)
  BY <1>3, <1>4, PopCount
<1>6. Count(Append(o, h), c, n) = Count(o, c, n) + (IF h.c = c /\ h.n = n THEN 1 ELSE 0)
  BY CountPush
<1>7. Count(o, c, n) \in Nat /\ Count(q, c, n) \in Nat
  BY CountNat
<1>8. Count(dataq', c, n) + Count(outq', c, n) = Count(dataq, c, n) + Count(outq, c, n)
  BY <1>1, <1>2, <1>3, <1>4, <1>5, <1>6, <1>7
<1> QED BY <1>3, <1>8, MovedCount

(* A frame stands for a command that does not ask for a reply.             *)
LEMMA ToPhyCount ==
  ASSUME NetTypes, FlowInv, ToPhy, NEW c \in Client, NEW n, Waiting(c, n)
  PROVE  PlacesOf(c, n)' = PlacesOf(c, n)
<1> USE DEF clientv, netv, mgrv, phyv, mainv, audiov
<1>1. PICK q \in Seq(Item) : q = dataq
  BY DEF NetTypes
<1>2. q # <<>> /\ dataq' = Tail(q) /\ UNCHANGED <<sock, inq, outq, cliq, got>>
  BY <1>1 DEF ToPhy
<1>3. PICK h \in Item : h = Head(q) /\ h \in ToSet(q) /\ h.k = "frame"
  BY <1>1, <1>2, PopHead, ThinHead DEF ToPhy
<1>4. /\ Count(Tail(q), c, n) \in Nat
      /\ Count(q, c, n) = Count(Tail(q), c, n) + (IF h.c = c /\ h.n = n THEN 1 ELSE 0)
  BY <1>2, <1>3, PopCount
<1>5. Fits(c, 6, h)
  <2>1. StagesInv(c) /\ Stages(c)[6] = q /\ 6 \in 1..8
    BY <1>1, StageAt DEF FlowInv
  <2> QED BY <2>1, <1>3 DEF StagesInv
<1>6. ~(h.c = c /\ h.n = n)
  BY <1>3, <1>5, KindsOfItems DEF Fits, StandsFor, Waiting
<1> QED BY <1>1, <1>2, <1>4, <1>6, PlacesNow, PlacesNext

(* What is put into a queue for nobody.                                    *)
LEMMA NobodyCount ==
  ASSUME NetTypes, Event \/ Exit \/ JoinCmdProc, NEW c \in Client, NEW n
  PROVE  PlacesOf(c, n)' = PlacesOf(c, n)
<1> USE DEF clientv, netv, mgrv, phyv, mainv, audiov
<1>1. ASSUME NEW q \in Seq(Item), NEW x \in Item, x.c = "none"
      PROVE  Count(Append(q, x), c, n) = Count(q, c, n)
  <2>1. Count(Append(q, x), c, n) = Count(q, c, n) + (IF x.c = c /\ x.n = n THEN 1 ELSE 0)
    BY CountPush
  <2>2. x.c # c
    BY <1>1, KindsOfItems
  <2>3. Count(q, c, n) \in Nat
    BY CountNat
  <2> QED BY <2>1, <2>2, <2>3
<1>2. inq \in Seq(Item) /\ dataq \in Seq(Item) /\ outq \in Seq(Item)
  BY DEF NetTypes
<1>3. Stop \in Item /\ Stop.c = "none"
  BY KindsOfItems
<1>4. CASE Event
  <2>1. PICK m \in Nat : m = events + 1
    BY DEF NetTypes
  <2>2. PICK x \in Item : x = EventNo(m) /\ x.c = "none"
    BY KindsOfItems
  <2>3. dataq' = Append(dataq, x) /\ UNCHANGED <<sock, inq, outq, cliq, got>>
    BY <1>4, <2>1, <2>2 DEF Event
  <2>4. Count(dataq', c, n) = Count(dataq, c, n)
    BY <1>1, <1>2, <2>2, <2>3
  <2> QED BY <2>3, <2>4, PlacesNow, PlacesNext
<1>5. CASE Exit
  <2>1. inq' = Append(inq, Stop) /\ UNCHANGED <<sock, dataq, outq, cliq, got>>
    BY <1>5 DEF Exit
  <2>2. Count(inq', c, n) = Count(inq, c, n)
    BY <1>1, <1>2, <1>3, <2>1
  <2> QED BY <2>1, <2>2, PlacesNow, PlacesNext
<1>6. CASE JoinCmdProc
  <2>1. outq' = Append(outq, Stop) /\ UNCHANGED <<sock, dataq, inq, cliq, got>>
    BY <1>6 DEF JoinCmdProc
  <2>2. Count(outq', c, n) = Count(outq, c, n)
    BY <1>1, <1>2, <1>3, <2>1
  <2> QED BY <2>1, <2>2, PlacesNow, PlacesNext
<1> QED BY <1>4, <1>5, <1>6

(* A new command is in the socket of its client only.                      *)
LEMMA SendCount ==
  ASSUME NetTypes, FlowInv, LostWasSent, NEW c \in Client, NEW k \in {"get", "set"}, Send(c, k),
         NEW d \in Client, NEW n, Waiting(d, n)'
  PROVE  /\ Waiting(d, n) => PlacesOf(d, n)' = PlacesOf(d, n)
         /\ ~Waiting(d, n) => PlacesOf(d, n)' = Due(d, n)
<1> USE DEF clientv, netv, mgrv, phyv, mainv, audiov
<1>1. PICK m : m = Len(sent[c]) + 1
  OBVIOUS
<1>2. /\ sent[c] \in Seq({"get", "set"}) /\ Len(sent[c]) \in Nat /\ m \in Nat
      /\ DOMAIN sent[c] = 1..Len(sent[c])
  <2>1. sent[c] \in Seq({"get", "set"})
    BY DEF NetTypes
  <2> QED BY <1>1, <2>1, LenProperties
<1>3. /\ UNCHANGED <<net, peer, inq, dataq, outq, cliq, got>> /\ peer[c] = "open"
      /\ sent' = [sent EXCEPT ![c] = Append(sent[c], k)]
  BY DEF Send
<1>4. /\ sent'[c] = Append(sent[c], k) /\ Len(sent'[c]) = m /\ DOMAIN sent'[c] = 1..m
      /\ \A i \in 1..Len(sent[c]) : sent'[c][i] = sent[c][i]
  <2>1. sent'[c] = Append(sent[c], k)
    BY <1>3 DEF NetTypes
  <2> QED BY <1>1, <1>2, <2>1, AppendProperties, LenProperties
<1>5. PICK x \in Item : x = [k |-> k, c |-> c, n |-> m] /\ x.c = c /\ x.n = m
  <2> DEFINE y == [k |-> k, c |-> c, n |-> m]
  <2>1. y \in Item /\ y.c = c /\ y.n = m
    BY <1>2 DEF Item, Raw
  <2> QED BY <2>1
<1>6. sock' = [sock EXCEPT ![c] = Append(sock[c], x)]
  BY <1>4, <1>5 DEF Send
<1>7. CASE d # c
  <2>1. sent'[d] = sent[d] /\ sock'[d] = sock[d]
    BY <1>3, <1>6, <1>7 DEF NetTypes
  <2>2. Waiting(d, n)
    BY <1>3, <2>1 DEF Waiting, Alive
  <2> QED BY <1>3, <2>1, <2>2, PlacesNow, PlacesNext
<1>8. CASE d = c
  <2>1. PICK s \in Seq(Item) : s = sock[c]
    BY DEF NetTypes
  <2>2. sock'[c] = Append(s, x)
    BY <1>6, <2>1 DEF NetTypes
  <2>3. Count(Append(s, x), c, n) = Count(s, c, n) + (IF x.c = c /\ x.n = n THEN 1 ELSE 0)
    BY CountPush
  <2>4. n \in 1..m /\ Alive /\ peer[c] = "open" /\ sent'[c][n] = "get"
    BY <1>3, <1>4, <1>8 DEF Waiting, Alive
  <2>5. CASE n # m
    <3>1. n \in 1..Len(sent[c])
      BY <1>1, <1>2, <2>4, <2>5
    <3>2. Waiting(c, n)
      BY <1>2, <1>4, <2>4, <3>1 DEF Waiting
    <3>3. Count(Append(s, x), c, n) = Count(s, c, n)
      <4>1. Count(s, c, n) \in Nat
        BY CountNat
      <4> QED BY <4>1, <2>3, <2>5, <1>5
    <3> QED BY <1>3, <1>8, <2>1, <2>2, <3>2, <3>3, PlacesNow, PlacesNext
  <2>6. CASE n = m
    <3>1. n \notin DOMAIN sent[c]
      BY <1>1, <1>2, <2>6
    <3>2. ASSUME NEW i \in {1, 2, 3, 6, 7, 8} PROVE Count(Stages(c)[i], c, n) = 0
      <4>1. PICK q \in Seq(Item) : q = Stages(c)[i]
        BY <3>2, InStage
      <4>2. \A z \in ToSet(q) : Fits(c, i, z)
        BY <4>1 DEF FlowInv, StagesInv
      <4>3. \A z \in ToSet(q) : ~(z.c = c /\ z.n = n)
        BY <3>1, <4>2, KindsOfItems DEF Fits, StandsFor
      <4>4. Count(q, c, n) = 0
        BY <4>3, CountNone
      <4> QED BY <4>1, <4>4
    <3>3. /\ Count(sock[c], c, n) = 0 /\ Count(inq, c, n) = 0 /\ Count(dataq, c, n) = 0
          /\ Count(outq, c, n) = 0 /\ Count(cliq[c], c, n) = 0 /\ Count(got[c], c, n) = 0
      BY <3>2, StageAt
    <3>4. Count(sock'[c], c, n) = 1
      BY <1>5, <2>1, <2>2, <2>3, <2>6, <3>3
    <3>7. Due(c, n) = 1
      <4>1. PICK y : y = [k |-> "get", c |-> c, n |-> n] /\ y.c = c /\ y.n = n
        <5> DEFINE e == [k |-> "get", c |-> c, n |-> n]
        <5>1. e.c = c /\ e.n = n
          OBVIOUS
        <5> QED BY <5>1
      <4>2. y \notin lost
        BY <3>1, <4>1 DEF LostWasSent
      <4> QED BY <4>1, <4>2 DEF Due, Gone
    <3>5. PlacesOf(c, n)' = Due(c, n)
      BY <1>3, <3>3, <3>4, <3>7, PlacesNext
    <3>6. ~Waiting(c, n)
      BY <3>1 DEF Waiting
    <3> QED BY <1>8, <3>5, <3>6
  <2> QED BY <2>5, <2>6
<1> QED BY <1>7, <1>8

(* Nobody waits for more than before, except who has just sent a command.  *)
LEMMA WaitingBefore ==
  ASSUME UNCHANGED <<sent, peer>>, net' = net \/ net' \in {"dead", "ended"}, NEW c, NEW n,
         Waiting(c, n)'
  PROVE  Waiting(c, n)
BY DEF Waiting, Alive

(* The threads do not change what clients did, nor do they start the       *)
(* network thread again.                                                   *)
LEMMA NetKept ==
  ASSUME \/ NetStep \/ CmdProc \/ MgrStep \/ Event \/ ManagerDies \/ PhyStep \/ AudioStep
         \/ Exit \/ MainStep
  PROVE  /\ UNCHANGED <<sent, peer>> /\ (net' = net \/ net' \in {"dead", "ended"})
         /\ ~Receive => UNCHANGED lost
<1> USE DEF clientv, netv, mgrv, phyv, mainv, audiov
<1>1. CASE NetStep
  BY <1>1 DEF NetStep, Select, Accept, Notified, Receive, Disconnect, Write, End
<1>2. CASE CmdProc \/ MgrStep \/ Event \/ ManagerDies
  BY <1>2 DEF CmdProc, MgrStep, DealCmd, ToNetwork, ToPhy, NotifyNetwork, NotifyPhy, ManagerEnds,
              Event, ManagerDies
<1>3. CASE PhyStep \/ AudioStep \/ Exit \/ MainStep
  BY <1>3 DEF PhyStep, PhyNotified, PhyWrite, Exit, MainStep, JoinCmdProc, StopNetwork,
              JoinNetwork, AudioStep, AudioTold, AudioWoken, StopAudio, JoinAudio, JoinManager,
              JoinPhy
<1> QED BY <1>1, <1>2, <1>3

(* A step that leaves the counted queues alone. *)
LEMMA QuietCount ==
  ASSUME NetTypes, NEW c \in Client, NEW n, UNCHANGED <<sock, inq, dataq, outq, cliq, got>>
  PROVE  PlacesOf(c, n)' = PlacesOf(c, n)
BY PlacesNow, PlacesNext

(* Who is named twice below: every step but those of the clients.          *)
OwnStep ==
  \/ NetStep \/ CmdProc \/ MgrStep \/ Event \/ ManagerDies \/ PhyStep \/ AudioStep
  \/ Exit \/ MainStep

(* Only what was sent is lost, and who is new has sent nothing. *)
LEMMA SentNext ==
  ASSUME NetTypes, FlowInv, NewIsQuiet, LostWasSent, [NetNext]_netVars
  PROVE  NewIsQuiet' /\ LostWasSent'
<1> USE DEF clientv, netv, mgrv, phyv, mainv, audiov
<1>1. ASSUME NEW d \in Client
      PROVE  /\ sent'[d] = sent[d] \/ (peer[d] = "open" /\ peer' = peer)
             /\ peer'[d] = "new" => peer[d] = "new"
             /\ DOMAIN sent[d] \subseteq DOMAIN sent'[d]
             /\ ~Receive => UNCHANGED lost
  <2>1. ASSUME NEW c \in Client, Connect(c) \/ Close(c)
        PROVE  sent' = sent /\ lost' = lost /\ (peer'[d] = "new" => peer[d] = "new")
    BY <2>1 DEF Connect, Close, NetTypes
  <2>2. ASSUME NEW c \in Client, NEW k \in {"get", "set"}, Send(c, k)
        PROVE  /\ peer' = peer /\ lost' = lost /\ (sent'[d] = sent[d] \/ peer[d] = "open")
               /\ DOMAIN sent[d] \subseteq DOMAIN sent'[d]
    <3>1. peer' = peer /\ lost' = lost /\ peer[c] = "open"
      BY <2>2 DEF Send
    <3>2. sent' = [sent EXCEPT ![c] = Append(sent[c], k)]
      BY <2>2 DEF Send
    <3>3. PICK q \in Seq({"get", "set"}) : q = sent[c]
      BY DEF NetTypes
    <3>4. DOMAIN q \subseteq DOMAIN Append(q, k)
      BY AppendProperties, LenProperties
    <3>5. sent'[d] = IF d = c THEN Append(q, k) ELSE sent[d]
      BY <3>2, <3>3 DEF NetTypes
    <3> QED BY <3>1, <3>3, <3>4, <3>5
  <2>3. CASE OwnStep
    BY <2>3, NetKept DEF OwnStep
  <2>4. CASE UNCHANGED netVars
    BY <2>4 DEF netVars
  <2> QED BY <2>1, <2>2, <2>3, <2>4 DEF NetNext, OwnStep, AudioStep
<1>2. NewIsQuiet'
  BY <1>1 DEF NewIsQuiet
<1>3. \A x \in lost' : x.c \in Client /\ x.n \in DOMAIN sent[x.c]
  <2>1. CASE ~Receive
    <3>1. CASE Client = {}
      <4>1. lost' = lost
        BY <2>1, <3>1, NetKept DEF NetNext, AudioStep, netVars
      <4> QED BY <4>1 DEF LostWasSent
    <3>2. CASE Client # {}
      BY <2>1, <3>2, <1>1 DEF LostWasSent
    <3> QED BY <3>1, <3>2
  <2>2. CASE Receive
    <3>1. PICK c \in Client, u \in Seq(Item), w \in Seq(Item), v \in Seq(Item), z \in BOOLEAN :
             Parts(c, u, w, v, z)
      BY <2>2, ReceiveParts
    <3>2. lost' = lost \cup ToSet(w)
      BY <3>1 DEF Parts
    <3>5. \A x \in ToSet(w) : Fits(c, 8, x) /\ x.c = c /\ x.k \in Raw
      <4>1. ToSet(w) \subseteq ToSet(sock[c])
        BY <3>1, SockParts
      <4> QED BY <4>1, SockFits
    <3>6. \A x \in ToSet(w) : x.c \in Client /\ x.n \in DOMAIN sent[x.c]
      BY <3>5 DEF Fits, StandsFor, Raw, Stop
    <3> QED BY <3>2, <3>6 DEF LostWasSent
  <2> QED BY <2>1, <2>2
<1>4. LostWasSent'
  BY <1>1, <1>3 DEF LostWasSent
<1> QED BY <1>2, <1>4

(* Every step leaves a command that is waited for in one place, or loses   *)
(* it for good.                                                            *)
LEMMA LostNext ==
  ASSUME NetTypes, NetTypes', FlowInv, ClientsInv, NewIsQuiet, LostWasSent, NoReplyLost,
         [NetNext]_netVars
  PROVE  NoReplyLost'
<1> USE DEF clientv, netv, mgrv, phyv, mainv, audiov
<1> SUFFICES ASSUME NEW d \in Client, NEW n, Waiting(d, n)' PROVE PlacesOf(d, n)' = Due(d, n)'
  BY LostOrNot
<1>1. Waiting(d, n) => PlacesOf(d, n) = Due(d, n)
  BY LostOrNot
<1>0. lost' = lost => Due(d, n)' = Due(d, n)
  BY DEF Due, Gone
<1>2. ASSUME NEW c \in Client, Connect(c) PROVE PlacesOf(d, n)' = Due(d, n)'
  <2>1. UNCHANGED <<sent, net, lost, sock, inq, dataq, outq, cliq, got>> /\ peer[c] = "new"
        /\ peer' = [peer EXCEPT ![c] = "open"]
    BY <1>2 DEF Connect
  <2>2. d # c
    <3>1. sent[c] = <<>>
      BY <2>1 DEF NewIsQuiet
    <3>2. DOMAIN sent'[c] = {}
      BY <2>1, <3>1
    <3> QED BY <3>2 DEF Waiting
  <2>3. Waiting(d, n)
    BY <2>1, <2>2 DEF Waiting, Alive, NetTypes
  <2> QED BY <1>0, <1>1, <2>1, <2>3, QuietCount
<1>3. ASSUME NEW c \in Client, Close(c) PROVE PlacesOf(d, n)' = Due(d, n)'
  <2>1. UNCHANGED <<sent, net, lost, inq, dataq, outq, cliq, got>>
        /\ peer' = [peer EXCEPT ![c] = "closed"]
        /\ sock' \in {sock, [sock EXCEPT ![c] = <<>>]}
    BY <1>3 DEF Close
  <2>2. d # c
    BY <2>1 DEF Waiting, NetTypes
  <2>3. Waiting(d, n) /\ sock'[d] = sock[d]
    BY <2>1, <2>2 DEF Waiting, Alive, NetTypes
  <2> QED BY <1>0, <1>1, <2>1, <2>3, PlacesNow, PlacesNext
<1>4. ASSUME NEW c \in Client, NEW k \in {"get", "set"}, Send(c, k) PROVE PlacesOf(d, n)' = Due(d, n)'
  <2>1. lost' = lost
    BY <1>4 DEF Send
  <2> QED BY <1>0, <1>1, <1>4, <2>1, SendCount
<1>5. CASE OwnStep
  <2>1. Waiting(d, n) /\ (~Receive => lost' = lost)
    BY <1>5, NetKept, WaitingBefore DEF OwnStep
  <2>2. CASE Receive
    BY <1>1, <2>1, <2>2, ReceiveCount
  <2>3. CASE ~Receive
    <3>1. CASE Select \/ Accept
      <4>1. PlacesOf(d, n)' = PlacesOf(d, n)
        BY <3>1, QuietCount DEF Select, Accept
      <4> QED BY <1>0, <1>1, <2>1, <2>3, <4>1
    <3>2. CASE Notified \/ Disconnect \/ Write
      <4>1. PlacesOf(d, n)' = PlacesOf(d, n)
        BY <2>1, <3>2, NotifiedCount, DisconnectCount, WriteCount
      <4> QED BY <1>0, <1>1, <2>1, <2>3, <4>1
    <3>3. CASE CmdProc \/ DealCmd \/ ToNetwork \/ ToPhy
      <4>1. PlacesOf(d, n)' = PlacesOf(d, n)
        BY <2>1, <3>3, CmdProcCount, DealCmdCount, ToNetworkCount, ToPhyCount
      <4> QED BY <1>0, <1>1, <2>1, <2>3, <4>1
    <3>4. CASE Event \/ Exit \/ JoinCmdProc
      <4>1. PlacesOf(d, n)' = PlacesOf(d, n)
        BY <3>4, NobodyCount
      <4> QED BY <1>0, <1>1, <2>1, <2>3, <4>1
    <3>5. CASE NotifyNetwork \/ NotifyPhy \/ ManagerDies \/ ManagerEnds \/ PhyNotified \/ PhyWrite
      <4>1. PlacesOf(d, n)' = PlacesOf(d, n)
        BY <3>5, QuietCount DEF NotifyNetwork, NotifyPhy, ManagerDies, ManagerEnds, PhyNotified,
                                PhyWrite
      <4> QED BY <1>0, <1>1, <2>1, <2>3, <4>1
    <3>6. CASE AudioStep \/ StopNetwork \/ JoinNetwork \/ JoinManager \/ JoinPhy
      <4>1. PlacesOf(d, n)' = PlacesOf(d, n)
        BY <3>6, QuietCount DEF AudioStep, AudioTold, AudioWoken, StopAudio, JoinAudio,
                                StopNetwork, JoinNetwork, JoinManager, JoinPhy
      <4> QED BY <1>0, <1>1, <2>1, <2>3, <4>1
    <3> QED BY <1>5, <2>3, <3>1, <3>2, <3>3, <3>4, <3>5, <3>6
            DEF OwnStep, NetStep, MgrStep, PhyStep, MainStep, AudioStep
  <2> QED BY <2>2, <2>3
<1>6. CASE UNCHANGED netVars
  <2>1. Waiting(d, n)
    BY <1>6 DEF netVars, Waiting, Alive
  <2>2. UNCHANGED <<lost, sock, inq, dataq, outq, cliq, got>>
    BY <1>6 DEF netVars
  <2> QED BY <1>0, <1>1, <2>1, <2>2, QuietCount
<1> QED BY <1>2, <1>3, <1>4, <1>5, <1>6 DEF NetNext, OwnStep, AudioStep

-----------------------------------------------------------------------------
NetInv == NetTypes /\ FlowInv /\ ClientsInv /\ NewIsQuiet /\ LostWasSent /\ NoReplyLost

(* The hub starts with empty queues. *)
LEMMA NetInitInv ==
  ASSUME NetInit
  PROVE  NetInv
<1>0. /\ peer = [c \in Client |-> "new"] /\ sent = [c \in Client |-> <<>>]
      /\ got = [c \in Client |-> <<>>] /\ cliq = [c \in Client |-> <<>>]
      /\ sock = [c \in Client |-> <<>>]
      /\ backlog = <<>> /\ inputs = <<>> /\ rd = <<>> /\ wr = <<>>
      /\ inq = <<>> /\ outq = <<>> /\ dataq = <<>> /\ phyq = <<>> /\ line = <<>> /\ events = 0
      /\ net = "run" /\ lost = {} /\ torn = [c \in Client |-> FALSE]
  BY DEF NetInit
<1>1. NetTypes
  BY <1>0 DEF NetTypes
<1>2. ToSet(<<>>) = {} /\ IsInjective(<<>>) /\ Sorted(<<>>)
  BY DEF ToSet, IsInjective, Sorted
<1>3. FlowInv
  <2>1. DealtFirst(dataq)
    BY <1>0, <1>2 DEF DealtFirst
  <2>2. ASSUME NEW c \in Client PROVE StagesInv(c)
    <3>1. \A i \in 1..8 : Stages(c)[i] = <<>>
      BY <1>0, StageAt, Eight
    <3> QED BY <1>2, <3>1 DEF StagesInv, Flows, Before
  <2> QED BY <2>1, <2>2 DEF FlowInv
<1>4. ClientsInv
  BY <1>0, <1>2 DEF ClientsInv, Alive
<1>5. NewIsQuiet /\ LostWasSent /\ NoReplyLost
  <2>1. \A c \in Client : sent[c] = <<>> /\ DOMAIN sent[c] = {}
    BY <1>0
  <2> QED BY <1>0, <2>1 DEF NewIsQuiet, LostWasSent, NoReplyLost
<1> QED BY <1>1, <1>3, <1>4, <1>5 DEF NetInv

(* The invariant is inductive. *)
LEMMA NetInvNext ==
  ASSUME NetInv, [NetNext]_netVars, Client # {}
  PROVE  NetInv'
<1>1. NetTypes'
  <2>1. CASE NetNext
    BY <2>1, TypesNext DEF NetInv
  <2>2. CASE UNCHANGED netVars
    BY <2>2 DEF NetInv, NetTypes, netVars, clientv, netv, mgrv, phyv, mainv, audiov
  <2> QED BY <2>1, <2>2
<1>2. FlowInv'
  BY <1>1, FlowNext DEF NetInv
<1>3. ClientsInv'
  BY ClientsNext DEF NetInv
<1>4. NoReplyLost' /\ NewIsQuiet' /\ LostWasSent'
  BY <1>1, LostNext, SentNext DEF NetInv
<1> QED BY <1>1, <1>2, <1>3, <1>4 DEF NetInv

(* What holds in every state of the hub, if there is a client at all. *)
LEMMA NetInvAlways == NetSpec /\ Client # {} => []NetInv
<1>1. CASE Client = {}
  BY <1>1
<1>2. CASE Client # {}
  <2>1. NetInit => NetInv
    BY NetInitInv
  <2>2. NetInv /\ [NetNext]_netVars => NetInv'
    BY <1>2, NetInvNext
  <2> QED BY <2>1, <2>2, PTL DEF NetSpec
<1> QED BY <1>1, <1>2

(* Whatever the clients, the size of the sockets and the amount of work: a *)
(* client receives its replies in the order of its commands, and events in *)
(* the order they happened, and the line carries the frames of a client in *)
(* the order of its commands (on_reply, on_event, phy.write and the queues *)
(* between them).                                                          *)
THEOREM HubQueuesKeepOrder == NetSpec => []InOrder
<1>1. CASE Client = {}
  <2>1. InOrder
    BY <1>1 DEF InOrder
  <2> QED BY <2>1, PTL
<1>2. CASE Client # {}
  <2>1. NetInv => InOrder
    BY FlowIsOrder DEF NetInv
  <2> QED BY <1>2, <2>1, NetInvAlways, PTL
<1> QED BY <1>1, <1>2

(* While the network thread runs, a request of a client that stays is in   *)
(* exactly one socket or queue until the client has its reply, unless recv *)
(* cut it or what was in front of it: then it is in none (the select loop, *)
(* cmd_proc and the manager's loop, also after the manager's death).       *)
THEOREM HubLosesNoReply == NetSpec => []NoReplyLost
<1>1. CASE Client = {}
  <2>1. NoReplyLost
    BY <1>1 DEF NoReplyLost
  <2> QED BY <2>1, PTL
<1>2. CASE Client # {}
  <2>1. NetInv => NoReplyLost
    BY DEF NetInv
  <2> QED BY <1>2, <2>1, NetInvAlways, PTL
<1> QED BY <1>1, <1>2
=============================================================================
