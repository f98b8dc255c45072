------------------------ MODULE DeviceRegistryProofs ------------------------
(***************************************************************************)
(* Proofs about DeviceRegistry, for any number of devices, locations, ids  *)
(* and restarts.                                                           *)
(***************************************************************************)
EXTENDS DeviceRegistry, QueueFacts, FiniteSetTheorems

-----------------------------------------------------------------------------
(* The operators. *)

(* FirstAt finds an element of S when there is one. *)
LEMMA FirstAtProps ==
  ASSUME NEW q \in Seq(Id), NEW S, NEW e \in ToSet(q), e \in S
  PROVE  /\ FirstAt(q, S) \in 1..Len(q)
         /\ q[FirstAt(q, S)] \in S
<1> DEFINE T == {i \in 1..Len(q) : q[i] \in S}
<1>1. DOMAIN q = 1..Len(q) /\ Len(q) \in Nat
  BY ToSetProps
<1>2. T \in SUBSET Nat /\ T # {}
  BY <1>1 DEF ToSet
<1>3. PICK x \in T : \A y \in T : x <= y
  BY <1>2, LeastNat
<1>4. /\ x \in DOMAIN q /\ q[x] \in S
      /\ \A j \in 1..(x - 1) : q[j] \notin S
  BY <1>1, <1>3
<1> QED BY <1>1, <1>4 DEF FirstAt

(* The links of E are those of some device map with the devices of D. *)
SameDevices(D, E) ==
  /\ E \in [Id -> Device]
  /\ \A x \in Id : /\ E[x].mac = D[x].mac
                   /\ E[x].loc = D[x].loc
                   /\ E[x].state = D[x].state

(* link_device changes nothing but a link, and an infrared device's link   *)
(* then leads to an online remote.                                         *)
LEMMA LinkDeviceProps ==
  ASSUME NEW D \in [Id -> Device], NEW q \in Seq(Id), NEW d \in Id
  PROVE  /\ SameDevices(D, LinkDevice(D, q, d))
         /\ \A x \in Id \ {d} : LinkDevice(D, q, d)[x] = D[x]
         /\ DrvOf(D[d].mac) = IrDrv =>
              \/ LinkDevice(D, q, d)[d].ir_dev = NULL
              \/ LinkDevice(D, q, d)[d].ir_dev \in RemotesFor(D, q, d)
<1> DEFINE rs == RemotesFor(D, q, d)
           r == IF rs = {} THEN NULL ELSE q[FirstAt(q, rs)]
<1>1. CASE DrvOf(D[d].mac) # IrDrv
  BY <1>1 DEF LinkDevice, SameDevices
<1>2. CASE DrvOf(D[d].mac) = IrDrv
  <2>1. LinkDevice(D, q, d) = [D EXCEPT ![d].ir_dev = r]
    BY <1>2 DEF LinkDevice
  <2>2. r = NULL \/ r \in rs
    <3>1. ASSUME NEW e \in rs
          PROVE  q[FirstAt(q, rs)] \in rs
      BY FirstAtProps DEF RemotesFor
    <3> QED BY <3>1
  <2>3. rs \subseteq Id
    BY ToSetProps DEF RemotesFor
  <2> HIDE DEF rs, r
  <2>4. [D EXCEPT ![d].ir_dev = r] \in [Id -> Device]
    BY <2>2, <2>3 DEF Device, NULL
  <2>5. SameDevices(D, [D EXCEPT ![d].ir_dev = r])
    BY <2>4 DEF SameDevices, Device
  <2>6. [D EXCEPT ![d].ir_dev = r][d].ir_dev = r
    BY DEF Device
  <2>7. \A x \in Id \ {d} : [D EXCEPT ![d].ir_dev = r][x] = D[x]
    OBVIOUS
  <2> QED BY <2>1, <2>2, <2>5, <2>6, <2>7 DEF rs
<1> QED BY <1>1, <1>2

(* update_link changes nothing but links. Any link it sets leads to the    *)
(* remote p if p is online; if p is offline, an infrared device of q that  *)
(* used p uses another remote of q, or none.                               *)
LEMMA UpdateLinkProps ==
  ASSUME NEW D \in [Id -> Device], NEW q \in Seq(Id), NEW p \in Id
  PROVE  /\ SameDevices(D, UpdateLink(D, q, p))
         /\ \A x \in Id : x \notin ToSet(q) \/ x = p => UpdateLink(D, q, p)[x] = D[x]
         /\ D[p].state = "online" =>
              \A x \in Id :
                \/ UpdateLink(D, q, p)[x].ir_dev = D[x].ir_dev
                \/ /\ UpdateLink(D, q, p)[x].ir_dev = p
                   /\ TypeOf(D[p].mac) = "remote"
         /\ D[p].state # "online" /\ TypeOf(D[p].mac) = "remote" =>
              \A x \in ToSet(q) \ {p} : DrvOf(D[x].mac) = IrDrv =>
                \/ /\ UpdateLink(D, q, p)[x].ir_dev = D[x].ir_dev
                   /\ D[x].ir_dev # p
                \/ UpdateLink(D, q, p)[x].ir_dev = NULL
                \/ /\ UpdateLink(D, q, p)[x].ir_dev \in ToSet(q)
                   /\ TypeOf(D[UpdateLink(D, q, p)[x].ir_dev].mac) = "remote"
<1> DEFINE U == UpdateLink(D, q, p)
           C(x) == [D EXCEPT ![x].ir_dev = NULL]
           N(x) == LinkDevice(C(x), q, x)
<1>1. CASE TypeOf(D[p].mac) # "remote"
  BY <1>1 DEF UpdateLink, SameDevices
<1>2. CASE TypeOf(D[p].mac) = "remote"
  <2>1. U = [x \in Id |->
               IF x \notin ToSet(q) \/ x = p THEN D[x]
               ELSE IF D[p].state = "online"
                    THEN IF SameRoom(D, p, x) THEN [D[x] EXCEPT !.ir_dev = p] ELSE D[x]
                    ELSE IF D[x].ir_dev = p THEN N(x)[x] ELSE D[x]]
    BY <1>2, Zenon DEF UpdateLink
  <2>2. ASSUME NEW x \in Id
        PROVE  /\ N(x)[x] \in Device
               /\ N(x)[x].mac = D[x].mac
               /\ N(x)[x].loc = D[x].loc
               /\ N(x)[x].state = D[x].state
               /\ DrvOf(D[x].mac) = IrDrv =>
                    \/ N(x)[x].ir_dev = NULL
                    \/ /\ N(x)[x].ir_dev \in ToSet(q)
                       /\ TypeOf(D[N(x)[x].ir_dev].mac) = "remote"
    <3>1. /\ C(x) \in [Id -> Device]
          /\ \A y \in Id : /\ C(x)[y].mac = D[y].mac
                           /\ C(x)[y].loc = D[y].loc
                           /\ C(x)[y].state = D[y].state
      BY DEF Device, NULL
    <3> HIDE DEF C
    <3>2. /\ SameDevices(C(x), N(x))
          /\ DrvOf(C(x)[x].mac) = IrDrv =>
               \/ N(x)[x].ir_dev = NULL
               \/ N(x)[x].ir_dev \in RemotesFor(C(x), q, x)
      BY <3>1, LinkDeviceProps
    <3> HIDE DEF N
    <3>3. ASSUME NEW r \in RemotesFor(C(x), q, x)
          PROVE  r \in ToSet(q) /\ TypeOf(D[r].mac) = "remote"
      BY <3>1, ToSetProps DEF RemotesFor
    <3> QED BY <3>1, <3>2, <3>3 DEF SameDevices
  <2>3. ASSUME NEW x \in Id
        PROVE  /\ [D[x] EXCEPT !.ir_dev = p] \in Device
               /\ [D[x] EXCEPT !.ir_dev = p].mac = D[x].mac
               /\ [D[x] EXCEPT !.ir_dev = p].loc = D[x].loc
               /\ [D[x] EXCEPT !.ir_dev = p].state = D[x].state
               /\ [D[x] EXCEPT !.ir_dev = p].ir_dev = p
    BY DEF Device
  <2> HIDE DEF U, N
  <2>4. U \in [Id -> Device]
    BY <2>1, <2>2, <2>3
  <2>5. SameDevices(D, U)
    BY <2>1, <2>2, <2>3, <2>4 DEF SameDevices
  <2>6. \A x \in Id : x \notin ToSet(q) \/ x = p => U[x] = D[x]
    BY <2>1
  <2>7. D[p].state = "online" =>
          \A x \in Id : U[x].ir_dev = D[x].ir_dev \/ U[x].ir_dev = p
    BY <2>1, <2>3
  <2>8. ASSUME D[p].state # "online", NEW x \in ToSet(q) \ {p},
               DrvOf(D[x].mac) = IrDrv
        PROVE  \/ U[x].ir_dev = D[x].ir_dev /\ D[x].ir_dev # p
               \/ U[x].ir_dev = NULL
               \/ /\ U[x].ir_dev \in ToSet(q)
                  /\ TypeOf(D[U[x].ir_dev].mac) = "remote"
    <3>1. x \in Id
      BY ToSetProps
    <3>2. U[x] = IF D[x].ir_dev = p THEN N(x)[x] ELSE D[x]
      BY <2>1, <2>8, <3>1
    <3> QED BY <2>2, <2>8, <3>1, <3>2
  <2> QED BY <1>2, <2>5, <2>6, <2>7, <2>8 DEF U
<1> QED BY <1>1, <1>2

(* The infrared devices of A send through remotes in B. *)
LinksInto(D, A, B) ==
  \A x \in A :
    DrvOf(D[x].mac) = IrDrv /\ D[x].ir_dev # NULL =>
      D[x].ir_dev \in B /\ TypeOf(D[D[x].ir_dev].mac) = "remote"

(* The device map after an online device d of q was linked and the others  *)
(* were told: the devices are the same, and links that led into q do.      *)
LEMMA RelinkProps ==
  ASSUME NEW D \in [Id -> Device], NEW q \in Seq(Id), NEW d \in ToSet(q),
         NEW E, E = UpdateLink(LinkDevice(D, q, d), q, d)
  PROVE  /\ SameDevices(D, E)
         /\ D[d].state = "online" /\ LinksInto(D, ToSet(q) \ {d}, ToSet(q))
              => LinksInto(E, ToSet(q), ToSet(q))
<1> DEFINE L == LinkDevice(D, q, d)
<1>1. ToSet(q) \subseteq Id /\ d \in Id
  BY ToSetProps
<1>2. /\ SameDevices(D, L)
      /\ \A x \in Id \ {d} : L[x] = D[x]
      /\ DrvOf(D[d].mac) = IrDrv =>
           \/ L[d].ir_dev = NULL
           \/ L[d].ir_dev \in RemotesFor(D, q, d)
  BY <1>1, LinkDeviceProps
<1> HIDE DEF L
<1>3. L \in [Id -> Device]
  BY <1>2 DEF SameDevices
<1>4. /\ SameDevices(L, E)
      /\ L[d].state = "online" =>
           \A x \in Id :
             \/ E[x].ir_dev = L[x].ir_dev
             \/ E[x].ir_dev = d /\ TypeOf(L[d].mac) = "remote"
  BY <1>1, <1>3, UpdateLinkProps DEF L
<1>5. SameDevices(D, E)
  BY <1>2, <1>4 DEF SameDevices
<1>6. ASSUME D[d].state = "online", LinksInto(D, ToSet(q) \ {d}, ToSet(q)),
             NEW x \in ToSet(q), DrvOf(E[x].mac) = IrDrv, E[x].ir_dev # NULL
      PROVE  E[x].ir_dev \in ToSet(q) /\ TypeOf(E[E[x].ir_dev].mac) = "remote"
  <2>1. L[d].state = "online" /\ L[d].mac = D[d].mac
    BY <1>1, <1>2, <1>6 DEF SameDevices
  <2>2. CASE E[x].ir_dev = d /\ TypeOf(L[d].mac) = "remote"
    BY <2>1, <2>2, <1>1, <1>5 DEF SameDevices
  <2>3. CASE E[x].ir_dev = L[x].ir_dev
    <3>1. L[x].ir_dev \in ToSet(q) /\ TypeOf(D[L[x].ir_dev].mac) = "remote"
      <4>1. DrvOf(D[x].mac) = IrDrv
        BY <1>1, <1>5, <1>6 DEF SameDevices
      <4>2. CASE x = d
        <5>1. L[d].ir_dev \in RemotesFor(D, q, d)
          BY <4>1, <4>2, <2>3, <1>2, <1>6
        <5>2. \A r \in RemotesFor(D, q, d) :
                r \in ToSet(q) /\ TypeOf(D[r].mac) = "remote"
          BY DEF RemotesFor
        <5> QED BY <5>1, <5>2, <4>2
      <4>3. CASE x # d
        BY <4>1, <4>3, <2>3, <1>1, <1>2, <1>6 DEF LinksInto
      <4> QED BY <4>2, <4>3
    <3> QED BY <3>1, <2>3, <1>1, <1>5 DEF SameDevices
  <2> QED BY <2>1, <2>2, <2>3, <1>1, <1>4
<1>7. D[d].state = "online" /\ LinksInto(D, ToSet(q) \ {d}, ToSet(q))
        => LinksInto(E, ToSet(q), ToSet(q))
  BY <1>6 DEF LinksInto
<1> QED BY <1>5, <1>7

(* Taking an offline device d out of a queue: links of the others that led *)
(* into the queue still do, without d.                                     *)
LEMMA UnlinkProps ==
  ASSUME NEW D \in [Id -> Device], NEW q \in Seq(Id), NEW d \in Id,
         d \notin ToSet(q), D[d].state = "offline",
         LinksInto(D, ToSet(q), ToSet(q) \cup {d}),
         NEW E, E = UpdateLink(D, q, d)
  PROVE  SameDevices(D, E) /\ E[d] = D[d] /\ LinksInto(E, ToSet(q), ToSet(q))
<1>1. ToSet(q) \subseteq Id
  BY ToSetProps
<1>2. SameDevices(D, E) /\ E[d] = D[d]
  BY UpdateLinkProps
<1>3. ASSUME NEW x \in ToSet(q), DrvOf(E[x].mac) = IrDrv, E[x].ir_dev # NULL
      PROVE  E[x].ir_dev \in ToSet(q) /\ TypeOf(E[E[x].ir_dev].mac) = "remote"
  <2>1. DrvOf(D[x].mac) = IrDrv
    BY <1>1, <1>2, <1>3 DEF SameDevices
  <2>2. CASE TypeOf(D[d].mac) # "remote"
    <3>1. E = D
      BY <2>2 DEF UpdateLink
    <3> QED BY <3>1, <2>1, <2>2, <1>3 DEF LinksInto
  <2>3. CASE TypeOf(D[d].mac) = "remote"
    <3>1. \/ E[x].ir_dev = D[x].ir_dev /\ D[x].ir_dev # d
          \/ /\ E[x].ir_dev \in ToSet(q)
             /\ TypeOf(D[E[x].ir_dev].mac) = "remote"
      <4>1. x \in ToSet(q) \ {d} /\ D[d].state # "online"
        BY <1>3
      <4> QED BY <4>1, <2>1, <2>3, <1>3, UpdateLinkProps
    <3>2. E[x].ir_dev \in ToSet(q) /\ TypeOf(D[E[x].ir_dev].mac) = "remote"
      BY <3>1, <2>1, <1>3 DEF LinksInto
    <3> QED BY <3>2, <1>1, <1>2 DEF SameDevices
  <2> QED BY <2>2, <2>3
<1>4. LinksInto(E, ToSet(q), ToSet(q))
  BY <1>3 DEF LinksInto
<1> QED BY <1>2, <1>4

(* save_config writes well-formed records, one per device. *)
LEMMA SavedProps ==
  ASSUME NEW D \in [Id -> Device], NEW q \in Seq(Id), NEW o \in Seq(Id),
         IsInjective(q), IsInjective(o), ToSet(q) \cap ToSet(o) = {}
  PROVE  /\ Saved(D, q, o) \in Seq(Record)
         /\ \A i, j \in DOMAIN Saved(D, q, o) :
              Saved(D, q, o)[i].id = Saved(D, q, o)[j].id => i = j
<1> DEFINE ids == q \o o
           W == Saved(D, q, o)
<1>1. ids \in Seq(Id) /\ IsInjective(ids)
  BY BothQueues
<1>2. DOMAIN ids = 1..Len(ids) /\ Len(ids) \in Nat
  BY <1>1, LenProperties
<1>3. W = [i \in DOMAIN ids |-> [id |-> ids[i], mac |-> D[ids[i]].mac,
                                loc |-> D[ids[i]].loc]]
  BY DEF Saved
<1>4. \A i \in DOMAIN ids : ids[i] \in Id
  BY <1>1, <1>2, ElementOfSeq
<1> HIDE DEF ids, W
<1>5. \A i \in DOMAIN ids : W[i] \in Record /\ W[i].id = ids[i]
  BY <1>3, <1>4 DEF Device, Record
<1>6. W \in [1..Len(ids) -> Record]
  BY <1>2, <1>3, <1>5
<1>7. W \in Seq(Record)
  BY <1>2, <1>6, SeqDef
<1>8. \A i, j \in DOMAIN W : W[i].id = W[j].id => i = j
  BY <1>1, <1>3, <1>5 DEF IsInjective
<1> QED BY <1>7, <1>8 DEF W

-----------------------------------------------------------------------------
(* Types and ids. *)

(* The ids of both queues are distinct and below the counter, and so are   *)
(* the ids of the file, from which the queues are built again.             *)
IdInv ==
  /\ TypeOK
  /\ UniqueIds
  /\ FileIdsUnique
  /\ boot = "load" => queue = <<>> /\ offq = <<>> /\ drivers = {}

LEMMA IdInvInit == Init => IdInv
<1> SUFFICES ASSUME Init PROVE IdInv
  OBVIOUS
<1>1. \A S : <<>> \in Seq(S)
  OBVIOUS
<1>2. TypeOK
  <2>1. Blank \in Device
    BY RegistryAssumption DEF Blank, Device, Mac, NULL
  <2>2. dev \in [Id -> Device] /\ owner \in [Id -> Owner \cup {NULL}]
    BY <2>1 DEF Init
  <2>3. dev_id \in 1..(MaxId + 1) /\ restarts \in 0..MaxRestart /\ rid \in Nat
    BY RegistryAssumption DEF Init
  <2>4. queue \in Seq(Id) /\ offq \in Seq(Id) /\ file \in Seq(Record)
    BY <1>1 DEF Init
  <2> QED BY <2>2, <2>3, <2>4 DEF Init, TypeOK
<1>3. IsInjective(<<>>) /\ ToSet(<<>>) = {}
  BY DEF IsInjective, ToSet
<1>4. UniqueIds
  BY <1>3 DEF Init, UniqueIds
<1>5. FileIdsUnique
  BY DEF Init, FileIdsUnique
<1> QED BY <1>2, <1>4, <1>5 DEF IdInv, Init

(* A driver runs, or a device is online, only when the load has ended. *)
LEMMA LoadIsOver ==
  ASSUME IdInv, drivers # {} \/ ToSet(queue) # {}
  PROVE  boot # "load"
BY DEF IdInv, ToSet

LEMMA MacIsMac ==
  ASSUME NEW w \in Owner
  PROVE  MacOf(w) \in Mac
BY DEF MacOf, Owner, Mac

(* A driver's command for a device is dev_online for it. *)
LEMMA Arrives ==
  ASSUME IdInv,
         \/ \E m \in Wifi \cup Zigbee : Register(m)
         \/ \E a \in Appliance, loc \in Location \cup {NoLoc} : AddIr(a, loc)
  PROVE  /\ boot # "load"
         /\ \E w \in Owner, loc \in Location \cup {NoLoc} : NewDevice(w, loc) \/ Return(w)
<1>1. CASE \E m \in Wifi \cup Zigbee : Register(m)
  <2>1. PICK m \in Wifi \cup Zigbee : Register(m)
    BY <1>1
  <2>2. m \in Owner /\ Unknown \in Location \cup {NoLoc}
    BY RegistryAssumption DEF Owner
  <2> QED BY <2>1, <2>2, LoadIsOver DEF Register
<1>2. CASE \E a \in Appliance, loc \in Location \cup {NoLoc} : AddIr(a, loc)
  <2>1. PICK a \in Appliance, loc \in Location \cup {NoLoc} : AddIr(a, loc)
    BY <1>2
  <2>2. a \in Owner
    BY DEF Owner
  <2> QED BY <2>1, <2>2, LoadIsOver DEF AddIr
<1> QED BY <1>1, <1>2

(* The first k elements of a queue of distinct ids are distinct ids of it. *)
LEMMA FirstOnes ==
  ASSUME NEW o \in Seq(Id), IsInjective(o), NEW k \in 0..Len(o)
  PROVE  /\ SubSeq(o, 1, k) \in Seq(Id) /\ IsInjective(SubSeq(o, 1, k))
         /\ ToSet(SubSeq(o, 1, k)) \subseteq ToSet(o)
<1> DEFINE p == SubSeq(o, 1, k)
<1>1. /\ Len(o) \in Nat /\ DOMAIN o = 1..Len(o) /\ k \in Nat
      /\ \A j \in 1..Len(o) : o[j] \in Id
  BY LenProperties, ElementOfSeq
<1>2. p \in Seq(Id) /\ Len(p) = k /\ \A j \in 1..k : p[j] = o[j]
  <2>1. \A j \in 1..Len(o) : o[j] \in Id
    BY <1>1
  <2>2. /\ p \in Seq(Id)
        /\ Len(p) = IF 1 <= k THEN k - 1 + 1 ELSE 0
        /\ \A j \in 1..(k - 1 + 1) : p[j] = o[1 + j - 1]
    <3>1. 1 \in 1..(Len(o) + 1) /\ k \in 0..Len(o)
      BY <1>1
    <3> QED BY <3>1, <1>1, SubSeqProperties, Z3
  <2> QED BY <1>1, <2>2
<1> HIDE DEF p
<1>3. DOMAIN p = 1..k /\ \A j \in 1..k : j \in DOMAIN o
  BY <1>1, <1>2, LenProperties
<1>4. IsInjective(p)
  BY <1>2, <1>3 DEF IsInjective
<1>5. ToSet(p) \subseteq ToSet(o)
  BY <1>2, <1>3 DEF ToSet
<1> QED BY <1>2, <1>4, <1>5 DEF p

(* All of its elements in order are the queue itself. *)
LEMMA WholeSeq ==
  ASSUME NEW o \in Seq(Id)
  PROVE  SubSeq(o, 1, Len(o)) = o
<1>1. Len(o) \in Nat /\ o = [i \in 1..Len(o) |-> o[i]]
  BY LenProperties
<1>2. SubSeq(o, 1, Len(o)) = [i \in 1..Len(o) |-> o[i]]
  BY <1>1, Z3
<1> QED BY <1>1, <1>2

(* load_config builds offq from a file with distinct ids. *)
LEMMA LoadConfigIds == IdInv /\ LoadConfig => IdInv'
<1> SUFFICES ASSUME IdInv, LoadConfig PROVE IdInv'
  OBVIOUS
<1> USE DEF IdInv
<1> DEFINE kept == {i \in DOMAIN file : file[i].loc # NoLoc}
           ids == {file[i].id : i \in kept}
<1>1. PICK order \in [1..Cardinality(kept) -> kept], n \in 1..(MaxId + 1) :
        /\ \A i, j \in DOMAIN order : i < j => order[i] < order[j]
        /\ NextFree(ids, n)
        /\ offq' = [i \in DOMAIN order |-> file[order[i]].id]
        /\ dev' = [d \in Id |->
                     IF d \in ids
                     THEN LET r == file[CHOOSE i \in kept : file[i].id = d]
                          IN [mac |-> r.mac, loc |-> r.loc,
                              state |-> "offline", ir_dev |-> NULL]
                     ELSE Blank]
        /\ dev_id' = n
        /\ \/ UNCHANGED <<file, behind>>
           \/ \E k \in 0..Len(offq') :
                /\ file' = Saved(dev', <<>>, SubSeq(offq', 1, k))
                /\ behind' = (k < Len(offq'))
  BY DEF LoadConfig
<1>2. /\ DOMAIN file = 1..Len(file) /\ Len(file) \in Nat
      /\ \A i \in DOMAIN file : file[i] \in Record
  BY ToSetProps, ElementOfSeq DEF TypeOK
<1>3. Cardinality(kept) \in Nat
  <2>1. IsFiniteSet(1..Len(file))
    BY <1>2, FS_Interval
  <2>2. IsFiniteSet(kept)
    BY <2>1, <1>2, FS_Subset
  <2> QED BY <2>2, FS_CardinalityType
<1>4. \A i \in kept : file[i].id \in Id /\ file[i].id \in ids
  BY <1>2 DEF Record
<1>5. kept \subseteq Nat
  BY <1>2
<1> HIDE DEF kept
<1>6. offq' \in Seq(Id) /\ IsInjective(offq') /\ ToSet(offq') \subseteq ids
  <2> DEFINE o == [i \in DOMAIN order |-> file[order[i]].id]
  <2>1. \A i \in 1..Cardinality(kept) : order[i] \in kept /\ o[i] = file[order[i]].id
    BY <1>1
  <2>2. o \in [1..Cardinality(kept) -> Id]
    BY <2>1, <1>4
  <2>3. o \in Seq(Id)
    BY <2>2, <1>3, SeqDef
  <2>4. IsInjective(o)
    <3> SUFFICES ASSUME NEW a \in DOMAIN o, NEW b \in DOMAIN o, o[a] = o[b]
                 PROVE  a = b
      BY DEF IsInjective
    <3>1. order[a] = order[b]
      BY <2>1, <1>1 DEF FileIdsUnique, kept
    <3>2. order[a] \in Nat
      BY <2>1, <1>5
    <3>3. ~(a < b) /\ ~(b < a)
      BY <3>1, <3>2, <1>1
    <3>4. a \in Nat /\ b \in Nat
      BY <1>3
    <3> QED BY <3>3, <3>4
  <2>5. ToSet(o) \subseteq ids
    BY <2>1, <1>4 DEF ToSet
  <2> QED BY <2>3, <2>4, <2>5, <1>1
<1>7. dev' \in [Id -> Device]
  <2>1. Blank \in Device
    BY RegistryAssumption DEF Blank, Device, Mac, NULL
  <2>2. ASSUME NEW d \in ids
        PROVE  LET r == file[CHOOSE i \in kept : file[i].id = d]
               IN [mac |-> r.mac, loc |-> r.loc, state |-> "offline",
                   ir_dev |-> NULL] \in Device
    <3>1. \E i \in kept : file[i].id = d
      OBVIOUS
    <3>2. (CHOOSE i \in kept : file[i].id = d) \in kept
      BY <3>1
    <3>3. file[CHOOSE i \in kept : file[i].id = d] \in Record
      BY <3>2, <1>2 DEF kept
    <3> QED BY <3>3 DEF Record, Device
  <2>3. dev' = [d \in Id |->
                  IF d \in ids
                  THEN LET r == file[CHOOSE i \in kept : file[i].id = d]
                       IN [mac |-> r.mac, loc |-> r.loc,
                           state |-> "offline", ir_dev |-> NULL]
                  ELSE Blank]
    BY <1>1, Zenon
  <2> QED BY <2>1, <2>2, <2>3
<1>8. queue' = <<>> /\ queue' \in Seq(Id) /\ IsInjective(queue') /\ ToSet(queue') = {}
  BY DEF LoadConfig, IsInjective, ToSet
<1>9. file' \in Seq(Record) /\ FileIdsUnique' /\ behind' \in BOOLEAN
  <2>1. CASE UNCHANGED <<file, behind>>
    BY <2>1 DEF TypeOK, FileIdsUnique
  <2>2. ASSUME NEW k \in 0..Len(offq'),
               file' = Saved(dev', <<>>, SubSeq(offq', 1, k)),
               behind' = (k < Len(offq'))
        PROVE  file' \in Seq(Record) /\ FileIdsUnique' /\ behind' \in BOOLEAN
    <3>1. PICK p \in Seq(Id) : p = SubSeq(offq', 1, k) /\ IsInjective(p)
      BY <1>6, FirstOnes
    <3>2. /\ Saved(dev', <<>>, p) \in Seq(Record)
          /\ \A i, j \in DOMAIN Saved(dev', <<>>, p) :
               Saved(dev', <<>>, p)[i].id = Saved(dev', <<>>, p)[j].id => i = j
      <4>1. /\ <<>> \in Seq(Id) /\ IsInjective(<<>>)
            /\ ToSet(<<>>) \cap ToSet(p) = {}
        BY DEF IsInjective, ToSet
      <4> QED BY <1>7, <3>1, <4>1, SavedProps
    <3>3. file' = Saved(dev', <<>>, p)
      BY <2>2, <3>1
    <3> QED BY <2>2, <3>2, <3>3 DEF FileIdsUnique
  <2> QED BY <2>1, <2>2, <1>1
<1>10. \A d \in ids : d < dev_id'
  BY <1>1 DEF NextFree
<1>11. UniqueIds'
  BY <1>6, <1>8, <1>10 DEF UniqueIds
<1>12. TypeOK'
  <2>1. owner' \in [Id -> Owner \cup {NULL}]
    BY DEF TypeOK, LoadConfig, Forgotten
  <2>2. dev_id' \in 1..(MaxId + 1)
    BY <1>1
  <2> QED BY <2>1, <2>2, <1>6, <1>7, <1>8, <1>9 DEF TypeOK, LoadConfig
<1>13. boot' = "drivers"
  BY DEF LoadConfig
<1> QED BY <1>9, <1>11, <1>12, <1>13

(* The device map after a device joined. *)
LEMMA JoinProps ==
  ASSUME NEW D \in [Id -> Device], NEW q \in Seq(Id), NEW d \in Id,
         NEW E, E = UpdateLink(LinkDevice(D, Append(q, d), d), Append(q, d), d)
  PROVE  /\ SameDevices(D, E)
         /\ D[d].state = "online" /\ LinksInto(D, ToSet(q) \ {d}, ToSet(q))
              => LinksInto(E, ToSet(q) \cup {d}, ToSet(q) \cup {d})
<1>1. /\ Append(q, d) \in Seq(Id)
      /\ ToSet(Append(q, d)) = ToSet(q) \cup {d}
  BY PushTail
<1>2. d \in ToSet(Append(q, d))
  BY <1>1
<1>3. /\ SameDevices(D, E)
      /\ /\ D[d].state = "online"
         /\ LinksInto(D, ToSet(Append(q, d)) \ {d}, ToSet(Append(q, d)))
         => LinksInto(E, ToSet(Append(q, d)), ToSet(Append(q, d)))
  BY <1>1, <1>2, RelinkProps
<1>4. LinksInto(D, ToSet(q) \ {d}, ToSet(q))
        => LinksInto(D, ToSet(Append(q, d)) \ {d}, ToSet(Append(q, d)))
  BY <1>1 DEF LinksInto
<1> QED BY <1>1, <1>3, <1>4

(* The queues, as the lemmas about them need it. *)
LEMMA QueuesTyped ==
  ASSUME IdInv
  PROVE  /\ queue \in Seq(Id) /\ offq \in Seq(Id) /\ dev \in [Id -> Device]
         /\ IsInjective(queue) /\ IsInjective(offq)
         /\ ToSet(queue) \cap ToSet(offq) = {}
         /\ ToSet(queue) \in SUBSET Id /\ ToSet(offq) \in SUBSET Id
<1>1. /\ queue \in Seq(Id) /\ offq \in Seq(Id) /\ dev \in [Id -> Device]
      /\ IsInjective(queue) /\ IsInjective(offq)
      /\ ToSet(queue) \cap ToSet(offq) = {}
  BY DEF IdInv, TypeOK, UniqueIds
<1>2. ToSet(queue) \in SUBSET Id /\ ToSet(offq) \in SUBSET Id
  BY <1>1, ToSetProps
<1> QED BY <1>1, <1>2

(* What dev_online does to the ids, for a device that is new. *)
LEMMA NewDeviceIds ==
  ASSUME IdInv, boot # "load", NEW w \in Owner, NEW loc \in Location \cup {NoLoc},
         NewDevice(w, loc)
  PROVE  IdInv'
<1> USE DEF IdInv
<1> DEFINE D == [dev EXCEPT ![dev_id] = [mac |-> MacOf(w), loc |-> loc,
                                         state |-> "online", ir_dev |-> NULL]]
<1>1. dev_id \in Id /\ dev_id \in Nat /\ dev_id' = dev_id + 1
  BY RegistryAssumption DEF NewDevice, TypeOK, Id
<1>2. D \in [Id -> Device]
  BY <1>1, MacIsMac DEF TypeOK, Device
<1> HIDE DEF D
<1>3. /\ queue' = Append(queue, dev_id) /\ offq' = offq
      /\ dev' = UpdateLink(LinkDevice(D, Append(queue, dev_id), dev_id),
                           Append(queue, dev_id), dev_id)
  BY DEF NewDevice, Join, D
<1>4. dev_id \notin ToSet(queue) \cup ToSet(offq)
  BY <1>1 DEF UniqueIds
<1>5. /\ queue' \in Seq(Id) /\ IsInjective(queue')
      /\ ToSet(queue') = ToSet(queue) \cup {dev_id}
      /\ dev' \in [Id -> Device]
  <2>1. queue \in Seq(Id) /\ IsInjective(queue) /\ dev_id \notin ToSet(queue)
    BY <1>4, QueuesTyped
  <2>2. SameDevices(D, dev')
    BY <1>1, <1>2, <1>3, <2>1, JoinProps
  <2>3. /\ Append(queue, dev_id) \in Seq(Id)
        /\ ToSet(Append(queue, dev_id)) = ToSet(queue) \cup {dev_id}
        /\ IsInjective(Append(queue, dev_id))
    BY <1>1, <2>1, PushTail
  <2> QED BY <1>3, <2>2, <2>3 DEF SameDevices
<1>6. \A d \in ToSet(queue) \cup ToSet(offq) : d \in Nat /\ d < dev_id
  BY QueuesTyped DEF UniqueIds, Id
<1>7. UniqueIds'
  <2>1. IsInjective(offq') /\ ToSet(queue') \cap ToSet(offq') = {}
    BY <1>3, <1>4, <1>5, QueuesTyped
  <2>2. \A d \in ToSet(queue') \cup ToSet(offq') : d < dev_id'
    BY <1>1, <1>3, <1>5, <1>6
  <2> QED BY <1>5, <2>1, <2>2 DEF UniqueIds
<1>8. file' \in Seq(Record) /\ FileIdsUnique'
  <2>1. file' = Saved(dev', queue', offq)
    BY DEF NewDevice
  <2>2. IsInjective(offq) /\ ToSet(queue') \cap ToSet(offq) = {} /\ offq \in Seq(Id)
    BY <1>3, <1>7 DEF UniqueIds, TypeOK
  <2>3. /\ Saved(dev', queue', offq) \in Seq(Record)
        /\ \A i, j \in DOMAIN Saved(dev', queue', offq) :
             Saved(dev', queue', offq)[i].id = Saved(dev', queue', offq)[j].id => i = j
    BY <1>5, <2>2, SavedProps
  <2> QED BY <2>1, <2>3 DEF FileIdsUnique
<1>9. dev_id' \in 1..(MaxId + 1)
  BY <1>1, RegistryAssumption DEF Id
<1>10. owner' \in [Id -> Owner \cup {NULL}]
  BY DEF NewDevice, TypeOK
<1>11. TypeOK'
  BY <1>3, <1>5, <1>8, <1>9, <1>10 DEF TypeOK, NewDevice
<1>12. boot' # "load"
  BY DEF NewDevice
<1> QED BY <1>7, <1>8, <1>11, <1>12

(* A device d moves from offq to the online queue. *)
LEMMA MoveOnlineIds ==
  ASSUME IdInv, boot # "load", NEW i \in 1..Len(offq),
         offq' = RemoveAt(offq, i),
         Join(offq[i], [dev EXCEPT ![offq[i]].state = "online"], queue),
         rid' \in Nat, shifted' \in BOOLEAN, owner' \in [Id -> Owner \cup {NULL}],
         UNCHANGED <<dev_id, drivers, boot, file, restarts, behind>>
  PROVE  IdInv'
<1> USE DEF IdInv
<1> DEFINE d == offq[i]
           D == [dev EXCEPT ![d].state = "online"]
<1>1. d \in Id /\ d \in ToSet(offq) /\ d \notin ToSet(queue)
  BY ToSetProps DEF TypeOK, UniqueIds
<1>2. D \in [Id -> Device]
  BY ZenonT(60), <1>1 DEF TypeOK, Device
<1> HIDE DEF D
<1>3. /\ queue' = Append(queue, d)
      /\ dev' = UpdateLink(LinkDevice(D, Append(queue, d), d), Append(queue, d), d)
  BY DEF Join, D
<1> HIDE DEF d
<1>4. /\ queue' \in Seq(Id) /\ IsInjective(queue')
      /\ ToSet(queue') = ToSet(queue) \cup {d}
      /\ dev' \in [Id -> Device]
  <2>1. queue \in Seq(Id) /\ IsInjective(queue)
    BY QueuesTyped
  <2>2. SameDevices(D, dev')
    BY <1>1, <1>2, <1>3, <2>1, JoinProps
  <2>3. /\ Append(queue, d) \in Seq(Id)
        /\ ToSet(Append(queue, d)) = ToSet(queue) \cup {d}
        /\ IsInjective(Append(queue, d))
    BY <1>1, <2>1, PushTail
  <2> QED BY <1>3, <2>2, <2>3 DEF SameDevices
<1>5. offq' \in Seq(Id) /\ IsInjective(offq') /\ ToSet(offq') = ToSet(offq) \ {d}
  BY RemoveNth DEF TypeOK, UniqueIds, d
<1>6. UniqueIds'
  BY <1>1, <1>4, <1>5 DEF UniqueIds
<1>7. TypeOK'
  BY <1>4, <1>5 DEF TypeOK
<1> QED BY <1>6, <1>7 DEF FileIdsUnique

(* dev_online for a device it finds in offq. *)
LEMMA ReturnIds ==
  ASSUME IdInv, boot # "load", NEW w \in Owner, Return(w)
  PROVE  IdInv'
<1> DEFINE i == FirstAt(offq, Offline(MacOf(w)))
<1>1. i \in 1..Len(offq)
  <2>1. PICK e \in ToSet(offq) : e \in Offline(MacOf(w))
    BY DEF Return, Offline
  <2> QED BY <2>1, FirstAtProps DEF IdInv, TypeOK
<1>2. /\ offq' = RemoveAt(offq, i)
      /\ Join(offq[i], [dev EXCEPT ![offq[i]].state = "online"], queue)
  BY DEF Return
<1> HIDE DEF i
<1>3. rid' \in Nat /\ shifted' \in BOOLEAN /\ owner' \in [Id -> Owner \cup {NULL}]
  BY DEF Return, IdInv, TypeOK
<1> QED BY <1>1, <1>2, <1>3, MoveOnlineIds DEF Return

(* dev_offline and dev_removed: a device d leaves the online queue. *)
LEMMA LeaveProps ==
  ASSUME IdInv, NEW e \in ToSet(queue), NEW S, e \in S,
         NEW i, i = FirstAt(queue, S)
  PROVE  /\ i \in 1..Len(queue) /\ queue[i] \in S
         /\ queue[i] \in ToSet(queue) /\ queue[i] \in Id
         /\ RemoveAt(queue, i) \in Seq(Id)
         /\ IsInjective(RemoveAt(queue, i))
         /\ ToSet(RemoveAt(queue, i)) = ToSet(queue) \ {queue[i]}
<1>1. i \in 1..Len(queue) /\ queue[i] \in S
  BY QueuesTyped, FirstAtProps
<1>2. queue[i] \in ToSet(queue) /\ queue[i] \in Id
  BY <1>1, QueuesTyped, ToSetProps
<1>3. /\ RemoveAt(queue, i) \in Seq(Id)
      /\ ToSet(RemoveAt(queue, i)) = ToSet(queue) \ {queue[i]}
      /\ IsInjective(RemoveAt(queue, i))
  <2>1. queue \in Seq(Id) /\ IsInjective(queue)
    BY QueuesTyped
  <2> QED BY <1>1, <2>1, RemoveNth
<1> QED BY <1>1, <1>2, <1>3

LEMMA DevOfflineIds ==
  ASSUME IdInv, NEW m \in Wifi \cup Zigbee, DevOffline(m)
  PROVE  IdInv'
<1> DEFINE S == {d \in ToSet(queue) : dev[d].mac = m}
           i == FirstAt(queue, S)
           d == queue[i]
           q == RemoveAt(queue, i)
           D == [dev EXCEPT ![d].state = "offline"]
<1>1. PICK e \in ToSet(queue) : e \in S
  BY DEF DevOffline, IsOnline
<1>2. /\ queue' = q /\ offq' = Append(offq, d) /\ dev' = UpdateLink(D, q, d)
      /\ boot # "load"
  BY <1>1, LoadIsOver DEF DevOffline
<1>3. /\ d \in ToSet(queue) /\ d \in Id
      /\ q \in Seq(Id) /\ IsInjective(q) /\ ToSet(q) = ToSet(queue) \ {d}
  BY <1>1, LeaveProps
<1> HIDE DEF S, i, d, q
<1>4. dev' \in [Id -> Device]
  <2>1. D \in [Id -> Device]
    BY QueuesTyped, <1>3 DEF Device
  <2> HIDE DEF D
  <2> QED BY <2>1, <1>2, <1>3, UpdateLinkProps DEF SameDevices
<1>5. /\ offq' \in Seq(Id) /\ IsInjective(offq')
      /\ ToSet(offq') = ToSet(offq) \cup {d}
  <2>1. offq \in Seq(Id) /\ IsInjective(offq) /\ d \notin ToSet(offq)
    BY <1>3, QueuesTyped
  <2> QED BY <2>1, <1>2, <1>3, PushTail
<1>6. UniqueIds'
  <2>1. ToSet(queue') \cap ToSet(offq') = {}
    BY <1>2, <1>3, <1>5, QueuesTyped
  <2>2. \A x \in ToSet(queue') \cup ToSet(offq') : x < dev_id'
    BY <1>2, <1>3, <1>5 DEF IdInv, UniqueIds, DevOffline
  <2> QED BY <1>2, <1>3, <1>5, <2>1, <2>2 DEF UniqueIds
<1>7. TypeOK'
  BY <1>2, <1>3, <1>4, <1>5 DEF TypeOK, IdInv, DevOffline
<1> QED BY <1>2, <1>6, <1>7 DEF IdInv, FileIdsUnique, DevOffline

LEMMA DevRemovedIds ==
  ASSUME IdInv, NEW d \in Id, DevRemoved(d)
  PROVE  IdInv'
<1> DEFINE i == FirstAt(queue, {d})
           q == RemoveAt(queue, i)
           D == [dev EXCEPT ![d].state = "offline"]
<1>1. /\ d \in ToSet(queue) /\ boot # "load"
      /\ queue' = q
      /\ dev' = [UpdateLink(D, q, d) EXCEPT ![d] = Blank]
  BY LoadIsOver DEF DevRemoved
<1>2. /\ queue[i] = d
      /\ q \in Seq(Id) /\ IsInjective(q) /\ ToSet(q) = ToSet(queue) \ {d}
  <2>1. /\ queue[i] \in {d}
        /\ q \in Seq(Id) /\ IsInjective(q) /\ ToSet(q) = ToSet(queue) \ {queue[i]}
    BY <1>1, LeaveProps
  <2> QED BY <2>1
<1> HIDE DEF i, q
<1>3. dev' \in [Id -> Device]
  <2>1. D \in [Id -> Device]
    BY QueuesTyped DEF Device
  <2> HIDE DEF D
  <2>2. UpdateLink(D, q, d) \in [Id -> Device]
    BY <2>1, <1>2, UpdateLinkProps DEF SameDevices
  <2>3. Blank \in Device
    BY RegistryAssumption DEF Blank, Device, Mac, NULL
  <2> QED BY <2>2, <2>3, <1>1
<1>4. UniqueIds'
  <2>1. IsInjective(offq') /\ ToSet(queue') \cap ToSet(offq') = {}
    BY <1>1, <1>2, QueuesTyped DEF DevRemoved
  <2>2. \A x \in ToSet(queue') \cup ToSet(offq') : x < dev_id'
    BY <1>1, <1>2 DEF IdInv, UniqueIds, DevRemoved
  <2> QED BY <1>1, <1>2, <2>1, <2>2 DEF UniqueIds
<1>5. TypeOK'
  BY <1>1, <1>2, <1>3 DEF TypeOK, IdInv, DevRemoved, Forgotten
<1> QED BY <1>1, <1>4, <1>5 DEF IdInv, FileIdsUnique, DevRemoved

LEMMA SetDevCfgIds ==
  ASSUME IdInv, NEW d \in Id, NEW loc \in Location \cup {NoLoc}, SetDevCfg(d, loc)
  PROVE  IdInv'
<1> DEFINE D == [dev EXCEPT ![d].loc = loc]
<1>1. /\ d \in ToSet(queue) /\ boot # "load"
      /\ dev' = UpdateLink(LinkDevice(D, queue, d), queue, d)
      /\ file' = Saved(dev', queue, offq)
  BY LoadIsOver DEF SetDevCfg
<1>2. D \in [Id -> Device]
  BY QueuesTyped DEF Device
<1> HIDE DEF D
<1>3. dev' \in [Id -> Device]
  BY <1>1, <1>2, QueuesTyped, RelinkProps DEF SameDevices
<1>4. file' \in Seq(Record) /\ FileIdsUnique'
  <2>1. /\ Saved(dev', queue, offq) \in Seq(Record)
        /\ \A i, j \in DOMAIN Saved(dev', queue, offq) :
             Saved(dev', queue, offq)[i].id = Saved(dev', queue, offq)[j].id => i = j
    BY <1>3, QueuesTyped, SavedProps
  <2> QED BY <2>1, <1>1 DEF FileIdsUnique
<1>5. UniqueIds' /\ TypeOK'
  BY <1>3, <1>4 DEF SetDevCfg, IdInv, UniqueIds, TypeOK
<1> QED BY <1>1, <1>4, <1>5 DEF IdInv, SetDevCfg

LEMMA RestartIds ==
  ASSUME IdInv, NEW f \in {file, Unreadable}, Restart(f),
         owner' \in [Id -> Owner \cup {NULL}]
  PROVE  IdInv'
<1>1. \A S : <<>> \in Seq(S)
  OBVIOUS
<1>2. IsInjective(<<>>) /\ ToSet(<<>>) = {}
  BY DEF IsInjective, ToSet
<1>3. dev' \in [Id -> Device]
  <2>1. Blank \in Device
    BY RegistryAssumption DEF Blank, Device, Mac, NULL
  <2> QED BY <2>1 DEF Restart
<1>4. dev_id' \in 1..(MaxId + 1) /\ restarts' \in 0..MaxRestart /\ rid' \in Nat
  BY RegistryAssumption DEF Restart, IdInv, TypeOK
<1>5. /\ queue' = <<>> /\ offq' = <<>> /\ boot' = "load"
      /\ file' = file \/ file' = <<>>
  BY DEF Restart, Unreadable
<1>6. drivers' = {} /\ shifted' \in BOOLEAN /\ behind' \in BOOLEAN
  BY DEF Restart
<1>7. TypeOK'
  <2>1. queue' \in Seq(Id) /\ offq' \in Seq(Id) /\ file' \in Seq(Record)
    BY <1>1, <1>5 DEF IdInv, TypeOK
  <2> QED BY <2>1, <1>3, <1>4, <1>5, <1>6 DEF TypeOK
<1>8. UniqueIds'
  BY <1>2, <1>5 DEF UniqueIds
<1>9. FileIdsUnique'
  BY <1>5 DEF IdInv, FileIdsUnique
<1> QED BY <1>5, <1>6, <1>7, <1>8, <1>9 DEF IdInv

LEMMA IdInvNext == IdInv /\ [Next]_vars => IdInv'
<1> SUFFICES ASSUME IdInv, [Next]_vars PROVE IdInv'
  OBVIOUS
<1>1. CASE UNCHANGED vars
  BY <1>1 DEF vars, IdInv, TypeOK, UniqueIds, FileIdsUnique
<1>2. CASE LoadConfig
  BY <1>2, LoadConfigIds
<1>3. CASE InitDrivers
  <2>1. TypeOK'
    BY <1>3 DEF InitDrivers, registry, IdInv, TypeOK
  <2>2. UniqueIds'
    BY <1>3 DEF InitDrivers, registry, IdInv, UniqueIds
  <2> QED BY <1>3, <2>1, <2>2 DEF InitDrivers, IdInv, FileIdsUnique
<1>4. CASE RecoverStep
  <2>1. rid \in Nat /\ Len(offq) \in Nat /\ rid < Len(offq) /\ boot # "load"
    BY <1>4, QueuesTyped, LenProperties DEF RecoverStep, Recovered, IdInv, TypeOK
  <2>2. rid + 1 \in 1..Len(offq)
    BY <2>1
  <2> DEFINE d == offq[rid + 1]
  <2>3. CASE /\ offq' = RemoveAt(offq, rid + 1)
             /\ Join(d, [dev EXCEPT ![d].state = "online"], queue)
             /\ UNCHANGED rid
    <3>1. rid' \in Nat /\ shifted' \in BOOLEAN /\ owner' \in [Id -> Owner \cup {NULL}]
      BY <1>4, <2>1, <2>3 DEF RecoverStep, Recovered, IdInv, TypeOK
    <3> QED BY <1>4, <2>1, <2>2, <2>3, <3>1, MoveOnlineIds DEF RecoverStep, Recovered
  <2>4. CASE rid' = rid + 1 /\ UNCHANGED <<queue, offq, dev>>
    <3>1. rid' \in Nat
      BY <2>1, <2>4
    <3>2. TypeOK'
      BY <1>4, <2>4, <3>1 DEF RecoverStep, Recovered, IdInv, TypeOK
    <3>3. UniqueIds' /\ FileIdsUnique'
      BY <1>4, <2>4 DEF RecoverStep, Recovered, IdInv, UniqueIds, FileIdsUnique
    <3> QED BY <1>4, <2>4, <3>2, <3>3 DEF RecoverStep, Recovered, IdInv
  <2> QED BY <1>4, <2>3, <2>4 DEF RecoverStep, Recovered
<1>5. CASE RecoverSpin
  BY <1>1, <1>5 DEF RecoverSpin
<1>6. CASE RecoverDone
  <2>1. TypeOK'
    BY <1>6 DEF RecoverDone, registry, IdInv, TypeOK
  <2>2. UniqueIds'
    BY <1>6 DEF RecoverDone, registry, IdInv, UniqueIds
  <2> QED BY <1>6, <2>1, <2>2 DEF RecoverDone, IdInv, FileIdsUnique
<1>7. CASE \/ \E m \in Wifi \cup Zigbee : Register(m)
           \/ \E a \in Appliance, loc \in Location \cup {NoLoc} : AddIr(a, loc)
  BY <1>7, Arrives, NewDeviceIds, ReturnIds
<1>8. CASE SetScene
  <2>1. /\ Saved(dev, queue, offq) \in Seq(Record)
        /\ \A i, j \in DOMAIN Saved(dev, queue, offq) :
             Saved(dev, queue, offq)[i].id = Saved(dev, queue, offq)[j].id => i = j
    BY QueuesTyped, SavedProps
  <2>2. owner' \in [Id -> Owner \cup {NULL}]
    BY <1>8 DEF SetScene, Forgotten, IdInv, TypeOK
  <2>3. TypeOK'
    BY <1>8, <2>1, <2>2 DEF SetScene, registry, IdInv, TypeOK
  <2>4. FileIdsUnique'
    BY <1>8, <2>1 DEF SetScene, FileIdsUnique
  <2> QED BY <1>8, <2>3, <2>4 DEF SetScene, registry, IdInv, UniqueIds
<1>9. ASSUME NEW m \in Wifi \cup Zigbee, DevOffline(m)
      PROVE  IdInv'
  BY <1>9, DevOfflineIds
<1>10. ASSUME NEW d \in Id, DevRemoved(d)
       PROVE  IdInv'
  BY <1>10, DevRemovedIds
<1>11. ASSUME NEW d \in Id, NEW loc \in Location \cup {NoLoc}, SetDevCfg(d, loc)
       PROVE  IdInv'
  BY <1>11, SetDevCfgIds
<1>12. CASE Crash \/ CrashSaving
  <2>1. owner' \in [Id -> Owner \cup {NULL}]
    BY <1>12 DEF Crash, CrashSaving, Forgotten, IdInv, TypeOK
  <2> QED BY <1>12, <2>1, RestartIds DEF Crash, CrashSaving
<1>13. ASSUME NEW w \in Owner, CrashUnsaved(w)
       PROVE  IdInv'
  <2>1. dev_id \in Id
    BY <1>13, RegistryAssumption DEF CrashUnsaved, IdInv, TypeOK, Id
  <2>2. owner' \in [Id -> Owner \cup {NULL}]
    BY <1>13, <2>1 DEF CrashUnsaved, Forgotten, IdInv, TypeOK
  <2> QED BY <1>13, <2>2, RestartIds DEF CrashUnsaved
<1> QED BY <1>1, <1>2, <1>3, <1>4, <1>5, <1>6, <1>7, <1>8, <1>9, <1>10, <1>11,
           <1>12, <1>13 DEF Next

(* The variables of the registry keep their types, whatever the numbers of *)
(* devices, ids and restarts.                                              *)
THEOREM TypeCorrect == Spec => []TypeOK
<1>1. IdInv => TypeOK
  BY DEF IdInv
<1> QED BY <1>1, IdInvInit, IdInvNext, PTL DEF Spec

(* No two devices share an id, in the registry or in the file, and the     *)
(* counter is past every id in use, over restarts too.                     *)
THEOREM IdsUnique == Spec => [](UniqueIds /\ FileIdsUnique)
<1>1. IdInv => UniqueIds /\ FileIdsUnique
  BY DEF IdInv
<1> QED BY <1>1, IdInvInit, IdInvNext, PTL DEF Spec

-----------------------------------------------------------------------------
(* Infrared links. *)

(* Links are sound because the state flags update_link looks at agree with *)
(* the queues link_device looks at, and an id is in one queue only.        *)
LinkInv == IdInv /\ StateMatchesQueue /\ LinkSound

(* A device without a remote's type is never the target of a link: the     *)
(* infrared driver's devices are no remote controls.                       *)
LEMMA InfraredIsNoRemote ==
  ASSUME NEW m, DrvOf(m) = IrDrv
  PROVE  TypeOf(m) # "remote"
BY RegistryAssumption DEF DrvOf, TypeOf, VsDrv, CzDrv, IrDrv

(* A device d, online in D, joined the queue: links and flags stay right.  *)
LEMMA JoinLinks ==
  ASSUME LinkInv, NEW d \in Id, d \notin ToSet(queue),
         NEW D \in [Id -> Device], D[d].state = "online",
         \A x \in Id \ {d} : D[x] = dev[x],
         Join(d, D, queue),
         ToSet(offq') \subseteq ToSet(offq) \ {d}
  PROVE  StateMatchesQueue' /\ LinkSound'
<1>1. /\ queue \in Seq(Id) /\ ToSet(queue) \in SUBSET Id
      /\ ToSet(offq) \in SUBSET Id
  BY QueuesTyped DEF LinkInv
<1>2. /\ queue' = Append(queue, d)
      /\ dev' = UpdateLink(LinkDevice(D, Append(queue, d), d), Append(queue, d), d)
  BY DEF Join
<1>3. ToSet(queue') = ToSet(queue) \cup {d}
  BY <1>1, <1>2, PushTail
<1>4. LinksInto(D, ToSet(queue) \ {d}, ToSet(queue))
  <2>1. \A x \in ToSet(queue) : D[x] = dev[x]
    BY <1>1
  <2> QED BY <2>1 DEF LinkInv, LinkSound, LinksInto
<1>5. SameDevices(D, dev') /\ LinksInto(dev', ToSet(queue'), ToSet(queue'))
  BY <1>1, <1>2, <1>3, <1>4, JoinProps
<1>6. StateMatchesQueue'
  BY <1>1, <1>3, <1>5 DEF LinkInv, StateMatchesQueue, SameDevices
<1> QED BY <1>5, <1>6 DEF LinksInto, LinkSound

LEMMA NewDeviceLinks ==
  ASSUME LinkInv, boot # "load", NEW w \in Owner, NEW loc \in Location \cup {NoLoc},
         NewDevice(w, loc)
  PROVE  StateMatchesQueue' /\ LinkSound'
<1> DEFINE D == [dev EXCEPT ![dev_id] = [mac |-> MacOf(w), loc |-> loc,
                                         state |-> "online", ir_dev |-> NULL]]
<1>1. dev_id \in Id
  BY RegistryAssumption DEF NewDevice, LinkInv, IdInv, TypeOK, Id
<1>2. dev_id \notin ToSet(queue) /\ dev_id \notin ToSet(offq)
  BY <1>1 DEF LinkInv, IdInv, UniqueIds, Id
<1>3. dev \in [Id -> Device]
  BY DEF LinkInv, IdInv, TypeOK
<1>4. D \in [Id -> Device] /\ D[dev_id].state = "online"
  BY <1>1, <1>3, MacIsMac DEF Device
<1>5. \A x \in Id \ {dev_id} : D[x] = dev[x]
  BY <1>3
<1>6. Join(dev_id, D, queue) /\ offq' = offq
  BY DEF NewDevice
<1> HIDE DEF D
<1> QED BY <1>1, <1>2, <1>4, <1>5, <1>6, JoinLinks

LEMMA MoveOnlineLinks ==
  ASSUME LinkInv, NEW i \in 1..Len(offq), offq' = RemoveAt(offq, i),
         Join(offq[i], [dev EXCEPT ![offq[i]].state = "online"], queue)
  PROVE  StateMatchesQueue' /\ LinkSound'
<1> DEFINE d == offq[i]
           D == [dev EXCEPT ![d].state = "online"]
<1>1. /\ dev \in [Id -> Device] /\ offq \in Seq(Id) /\ IsInjective(offq)
      /\ ToSet(queue) \cap ToSet(offq) = {}
  BY QueuesTyped DEF LinkInv
<1>2. d \in Id /\ d \in ToSet(offq) /\ d \notin ToSet(queue)
  BY <1>1, ToSetProps
<1>3. ToSet(offq') = ToSet(offq) \ {d}
  BY <1>1, RemoveNth
<1>4. /\ D \in [Id -> Device] /\ D[d].state = "online"
      /\ \A x \in Id \ {d} : D[x] = dev[x]
  BY <1>1, <1>2 DEF Device
<1>5. Join(d, D, queue)
  OBVIOUS
<1> HIDE DEF D, d
<1> QED BY <1>2, <1>3, <1>4, <1>5, JoinLinks

LEMMA ReturnLinks ==
  ASSUME LinkInv, NEW w \in Owner, Return(w)
  PROVE  StateMatchesQueue' /\ LinkSound'
<1>1. PICK e \in ToSet(offq) : e \in Offline(MacOf(w))
  BY DEF Return, Offline
<1>2. FirstAt(offq, Offline(MacOf(w))) \in 1..Len(offq)
  BY <1>1, FirstAtProps, QueuesTyped DEF LinkInv
<1> QED BY <1>2, MoveOnlineLinks DEF Return

LEMMA DevOfflineLinks ==
  ASSUME LinkInv, NEW m \in Wifi \cup Zigbee, DevOffline(m)
  PROVE  StateMatchesQueue' /\ LinkSound'
<1> DEFINE S == {d \in ToSet(queue) : dev[d].mac = m}
           i == FirstAt(queue, S)
           d == queue[i]
           q == RemoveAt(queue, i)
           D == [dev EXCEPT ![d].state = "offline"]
<1>1. PICK e \in ToSet(queue) : e \in S
  BY DEF DevOffline, IsOnline
<1>2. queue' = q /\ offq' = Append(offq, d) /\ dev' = UpdateLink(D, q, d)
  BY DEF DevOffline
<1>3. /\ d \in ToSet(queue) /\ d \in Id
      /\ q \in Seq(Id) /\ ToSet(q) = ToSet(queue) \ {d}
  BY <1>1, LeaveProps DEF LinkInv
<1> HIDE DEF S, i, d, q
<1>4. /\ dev \in [Id -> Device] /\ offq \in Seq(Id)
      /\ ToSet(queue) \in SUBSET Id /\ ToSet(offq) \in SUBSET Id
      /\ ToSet(queue) \cap ToSet(offq) = {}
  BY QueuesTyped DEF LinkInv
<1>5. /\ D \in [Id -> Device] /\ D[d].state = "offline"
      /\ \A x \in Id : /\ D[x].mac = dev[x].mac /\ D[x].ir_dev = dev[x].ir_dev
                       /\ x # d => D[x] = dev[x]
  BY SMTT(30), <1>3, <1>4 DEF Device
<1> HIDE DEF D
<1>6. LinksInto(D, ToSet(q), ToSet(q) \cup {d})
  <2>1. ASSUME NEW x \in ToSet(q), DrvOf(D[x].mac) = IrDrv, D[x].ir_dev # NULL
        PROVE  D[x].ir_dev \in ToSet(queue) /\ TypeOf(D[D[x].ir_dev].mac) = "remote"
    BY <2>1, <1>3, <1>4, <1>5 DEF LinkInv, LinkSound
  <2> QED BY <2>1, <1>3 DEF LinksInto
<1>7. SameDevices(D, dev') /\ dev'[d] = D[d] /\ LinksInto(dev', ToSet(q), ToSet(q))
  BY ZenonT(60), <1>2, <1>3, <1>5, <1>6, UnlinkProps
<1>8. ToSet(offq') = ToSet(offq) \cup {d}
  BY <1>2, <1>3, <1>4, PushTail
<1>9. StateMatchesQueue'
  <2>1. \A x \in ToSet(queue') : dev'[x].state = "online"
    BY <1>2, <1>3, <1>4, <1>5, <1>7 DEF LinkInv, StateMatchesQueue, SameDevices
  <2>2. \A x \in ToSet(offq') : dev'[x].state = "offline"
    BY <1>3, <1>4, <1>5, <1>7, <1>8 DEF LinkInv, StateMatchesQueue, SameDevices
  <2> QED BY <2>1, <2>2 DEF StateMatchesQueue
<1> QED BY <1>2, <1>7, <1>9 DEF LinksInto, LinkSound

LEMMA DevRemovedLinks ==
  ASSUME LinkInv, NEW d \in Id, DevRemoved(d)
  PROVE  StateMatchesQueue' /\ LinkSound'
<1> DEFINE q == RemoveAt(queue, FirstAt(queue, {d}))
           D == [dev EXCEPT ![d].state = "offline"]
           E == UpdateLink(D, q, d)
<1>1. /\ d \in ToSet(queue) /\ DrvOf(dev[d].mac) = IrDrv
      /\ queue' = q /\ offq' = offq /\ dev' = [E EXCEPT ![d] = Blank]
  BY DEF DevRemoved
<1>2. q \in Seq(Id) /\ ToSet(q) = ToSet(queue) \ {d}
  <2> DEFINE i == FirstAt(queue, {d})
  <2>1. /\ queue[i] \in {d}
        /\ q \in Seq(Id) /\ ToSet(q) = ToSet(queue) \ {queue[i]}
    BY <1>1, LeaveProps DEF LinkInv
  <2> QED BY <2>1
<1> HIDE DEF q
<1>3. /\ dev \in [Id -> Device]
      /\ ToSet(queue) \in SUBSET Id /\ ToSet(offq) \in SUBSET Id
      /\ ToSet(queue) \cap ToSet(offq) = {}
  BY QueuesTyped DEF LinkInv
<1>4. /\ D \in [Id -> Device]
      /\ \A x \in Id : /\ D[x].mac = dev[x].mac /\ D[x].ir_dev = dev[x].ir_dev
                       /\ x # d => D[x] = dev[x]
  BY <1>3 DEF Device
<1> HIDE DEF D
<1>5. TypeOf(dev[d].mac) # "remote"
  BY <1>1, InfraredIsNoRemote
<1>6. E = D
  BY <1>4, <1>5 DEF UpdateLink
<1>7. \A x \in Id \ {d} : dev'[x] = dev[x]
  BY <1>1, <1>4, <1>6
<1>8. StateMatchesQueue'
  BY <1>1, <1>2, <1>3, <1>7 DEF LinkInv, StateMatchesQueue
<1>9. LinkSound'
  <2> SUFFICES ASSUME NEW x \in ToSet(queue'),
                      DrvOf(dev'[x].mac) = IrDrv, dev'[x].ir_dev # NULL
               PROVE  /\ dev'[x].ir_dev \in ToSet(queue')
                      /\ TypeOf(dev'[dev'[x].ir_dev].mac) = "remote"
    BY DEF LinkSound
  <2>1. x \in ToSet(queue) /\ dev'[x] = dev[x]
    BY <1>1, <1>2, <1>3, <1>7
  <2>2. dev[x].ir_dev \in ToSet(queue) /\ TypeOf(dev[dev[x].ir_dev].mac) = "remote"
    BY <2>1 DEF LinkInv, LinkSound
  <2>3. dev[x].ir_dev # d
    BY <2>2, <1>5
  <2> QED BY <2>1, <2>2, <2>3, <1>1, <1>2, <1>3, <1>7
<1> QED BY <1>8, <1>9

LEMMA SetDevCfgLinks ==
  ASSUME LinkInv, NEW d \in Id, NEW loc \in Location \cup {NoLoc}, SetDevCfg(d, loc)
  PROVE  StateMatchesQueue' /\ LinkSound'
<1> DEFINE D == [dev EXCEPT ![d].loc = loc]
<1>1. /\ d \in ToSet(queue) /\ queue' = queue /\ offq' = offq
      /\ dev' = UpdateLink(LinkDevice(D, queue, d), queue, d)
  BY DEF SetDevCfg
<1>2. /\ dev \in [Id -> Device] /\ queue \in Seq(Id)
      /\ ToSet(queue) \in SUBSET Id /\ ToSet(offq) \in SUBSET Id
  BY QueuesTyped DEF LinkInv
<1>3. /\ D \in [Id -> Device]
      /\ \A x \in Id : /\ D[x].mac = dev[x].mac /\ D[x].ir_dev = dev[x].ir_dev
                       /\ D[x].state = dev[x].state
  BY <1>2 DEF Device
<1> HIDE DEF D
<1>4. D[d].state = "online" /\ LinksInto(D, ToSet(queue) \ {d}, ToSet(queue))
  <2>1. D[d].state = "online"
    BY <1>1, <1>3 DEF LinkInv, StateMatchesQueue
  <2>2. ASSUME NEW x \in ToSet(queue), DrvOf(D[x].mac) = IrDrv, D[x].ir_dev # NULL
        PROVE  D[x].ir_dev \in ToSet(queue) /\ TypeOf(D[D[x].ir_dev].mac) = "remote"
    BY <2>2, <1>2, <1>3 DEF LinkInv, LinkSound
  <2> QED BY <2>1, <2>2 DEF LinksInto
<1>5. SameDevices(D, dev') /\ LinksInto(dev', ToSet(queue), ToSet(queue))
  BY <1>1, <1>2, <1>3, <1>4, RelinkProps
<1>6. StateMatchesQueue'
  BY <1>1, <1>2, <1>3, <1>5 DEF LinkInv, StateMatchesQueue, SameDevices
<1> QED BY <1>1, <1>5, <1>6 DEF LinksInto, LinkSound

LEMMA LinkInvInit == Init => LinkInv
<1> SUFFICES ASSUME Init PROVE LinkInv
  OBVIOUS
<1>1. ToSet(<<>>) = {}
  BY DEF ToSet
<1> QED BY <1>1, IdInvInit DEF Init, LinkInv, StateMatchesQueue, LinkSound

LEMMA LinkInvNext == LinkInv /\ [Next]_vars => LinkInv'
<1> SUFFICES ASSUME LinkInv, [Next]_vars PROVE StateMatchesQueue' /\ LinkSound'
  BY IdInvNext DEF LinkInv
<1>1. ASSUME UNCHANGED <<queue, offq, dev>>
      PROVE  StateMatchesQueue' /\ LinkSound'
  BY <1>1 DEF LinkInv, StateMatchesQueue, LinkSound
<1>2. CASE LoadConfig
  <2>1. queue' = <<>> /\ ToSet(<<>>) = {}
    BY <1>2 DEF LoadConfig, LinkInv, IdInv, ToSet
  <2>2. \A d \in Id : dev'[d].state = "offline"
    BY <1>2 DEF LoadConfig, Blank
  <2>3. ToSet(offq') \in SUBSET Id
    <3>1. IdInv'
      BY <1>2, LoadConfigIds DEF LinkInv
    <3> QED BY <3>1, ToSetProps DEF IdInv, TypeOK
  <2> QED BY <2>1, <2>2, <2>3 DEF StateMatchesQueue, LinkSound
<1>3. CASE InitDrivers
  BY <1>1, <1>3 DEF InitDrivers, registry
<1>4. CASE RecoverStep
  <2>1. rid \in Nat /\ Len(offq) \in Nat /\ rid < Len(offq)
    BY <1>4, QueuesTyped, LenProperties DEF RecoverStep, Recovered, LinkInv, IdInv, TypeOK
  <2>2. rid + 1 \in 1..Len(offq)
    BY <2>1
  <2>3. CASE /\ offq' = RemoveAt(offq, rid + 1)
             /\ Join(offq[rid + 1], [dev EXCEPT ![offq[rid + 1]].state = "online"],
                     queue)
    BY <2>2, <2>3, MoveOnlineLinks
  <2>4. CASE UNCHANGED <<queue, offq, dev>>
    BY <2>4, <1>1
  <2> QED BY <1>4, <2>3, <2>4 DEF RecoverStep, Recovered
<1>5. CASE RecoverSpin \/ UNCHANGED vars
  BY <1>1, <1>5 DEF RecoverSpin, vars
<1>6. CASE RecoverDone
  BY <1>1, <1>6 DEF RecoverDone, registry
<1>7. CASE \/ \E m \in Wifi \cup Zigbee : Register(m)
           \/ \E a \in Appliance, loc \in Location \cup {NoLoc} : AddIr(a, loc)
  BY <1>7, Arrives, NewDeviceLinks, ReturnLinks DEF LinkInv
<1>8. CASE SetScene
  BY <1>1, <1>8 DEF SetScene, registry
<1>9. ASSUME NEW m \in Wifi \cup Zigbee, DevOffline(m)
      PROVE  StateMatchesQueue' /\ LinkSound'
  BY <1>9, DevOfflineLinks
<1>10. ASSUME NEW d \in Id, DevRemoved(d)
       PROVE  StateMatchesQueue' /\ LinkSound'
  BY <1>10, DevRemovedLinks
<1>11. ASSUME NEW d \in Id, NEW loc \in Location \cup {NoLoc}, SetDevCfg(d, loc)
       PROVE  StateMatchesQueue' /\ LinkSound'
  BY <1>11, SetDevCfgLinks
<1>12. ASSUME NEW f, Restart(f)
       PROVE  StateMatchesQueue' /\ LinkSound'
  <2>1. queue' = <<>> /\ offq' = <<>> /\ ToSet(<<>>) = {}
    BY <1>12 DEF Restart, ToSet
  <2> QED BY <2>1 DEF StateMatchesQueue, LinkSound
<1> QED BY <1>2, <1>3, <1>4, <1>5, <1>6, <1>7, <1>8, <1>9, <1>10, <1>11, <1>12
        DEF Next, Crash, CrashSaving, CrashUnsaved

(* No infrared device sends through a remote that is offline, deleted or   *)
(* no remote control, and the state flags agree with the queues.           *)
THEOREM LinksAreSound == Spec => [](StateMatchesQueue /\ LinkSound)
<1>1. LinkInv => StateMatchesQueue /\ LinkSound
  BY DEF LinkInv
<1> QED BY <1>1, LinkInvInit, LinkInvNext, PTL DEF Spec

-----------------------------------------------------------------------------
(* The file. *)

Registered == ToSet(queue) \cup ToSet(offq)

(* The file f has a record of each device of A as it is in D. *)
InFile(D, A, f) ==
  \A d \in A : \E i \in DOMAIN f : f[i] = [id |-> d, mac |-> D[d].mac, loc |-> D[d].loc]

(* The records of f have the MACs of the devices in D. *)
Agrees(D, f) == \A i \in DOMAIN f : f[i].mac = D[f[i].id].mac

(* E has the devices of A as they are in D, but for states and links. *)
SameConfig(D, E, A) == \A d \in A : E[d].mac = D[d].mac /\ E[d].loc = D[d].loc

(* save_config leaves no device out, and writes nothing but devices. *)
LEMMA SavedHoldsAll ==
  ASSUME NEW D, NEW q \in Seq(Id), NEW o \in Seq(Id)
  PROVE  /\ InFile(D, ToSet(q) \cup ToSet(o), Saved(D, q, o))
         /\ Agrees(D, Saved(D, q, o))
<1> DEFINE ids == q \o o
<1>1. ids \in Seq(Id) /\ ToSet(ids) = ToSet(q) \cup ToSet(o)
  BY BothQueues
<1>2. Saved(D, q, o) = [i \in DOMAIN ids |-> [id |-> ids[i], mac |-> D[ids[i]].mac,
                                             loc |-> D[ids[i]].loc]]
  BY DEF Saved
<1> HIDE DEF ids
<1>3. ASSUME NEW d \in ToSet(ids)
      PROVE  \E i \in DOMAIN Saved(D, q, o) :
               Saved(D, q, o)[i] = [id |-> d, mac |-> D[d].mac, loc |-> D[d].loc]
  <2>1. PICK i \in DOMAIN ids : ids[i] = d
    BY <1>3 DEF ToSet
  <2> QED BY <1>2, <2>1
<1>4. Agrees(D, Saved(D, q, o))
  BY <1>2 DEF Agrees
<1> QED BY <1>1, <1>3, <1>4 DEF InFile

(* A device that comes back from offq stays registered, as it was. *)
LEMMA MoveOnlineKeeps ==
  ASSUME IdInv, NEW i \in 1..Len(offq), offq' = RemoveAt(offq, i),
         Join(offq[i], [dev EXCEPT ![offq[i]].state = "online"], queue)
  PROVE  /\ Registered' = Registered /\ SameConfig(dev, dev', Id)
         /\ ToSet(offq') = ToSet(offq) \ {offq[i]}
<1> DEFINE d == offq[i]
           D == [dev EXCEPT ![d].state = "online"]
<1>1. d \in Id /\ d \in ToSet(offq)
  BY QueuesTyped, ToSetProps
<1>2. D \in [Id -> Device] /\ SameConfig(dev, D, Id)
  BY <1>1, QueuesTyped DEF Device, SameConfig
<1>3. /\ queue' = Append(queue, d)
      /\ dev' = UpdateLink(LinkDevice(D, Append(queue, d), d), Append(queue, d), d)
  BY DEF Join
<1>4. ToSet(offq') = ToSet(offq) \ {d}
  BY QueuesTyped, RemoveNth
<1> HIDE DEF D, d
<1>5. SameDevices(D, dev')
  BY <1>1, <1>2, <1>3, QueuesTyped, JoinProps
<1>6. ToSet(queue') = ToSet(queue) \cup {d}
  BY <1>1, <1>3, QueuesTyped, PushTail
<1>7. SameConfig(dev, dev', Id)
  BY <1>2, <1>5 DEF SameConfig, SameDevices
<1> QED BY <1>1, <1>4, <1>6, <1>7 DEF Registered, d

LEMMA ReturnKeeps ==
  ASSUME IdInv, NEW w, Return(w)
  PROVE  /\ Registered' = Registered /\ SameConfig(dev, dev', Id)
         /\ ToSet(offq') \subseteq ToSet(offq)
<1>1. PICK e \in ToSet(offq) : e \in Offline(MacOf(w))
  BY DEF Return, Offline
<1>2. FirstAt(offq, Offline(MacOf(w))) \in 1..Len(offq)
  BY <1>1, FirstAtProps, QueuesTyped
<1> QED BY <1>2, MoveOnlineKeeps DEF Return

(* A new device is added to those that are registered, and all are saved. *)
LEMMA NewDeviceAdds ==
  ASSUME IdInv, boot # "load", NEW w \in Owner, NEW loc \in Location \cup {NoLoc},
         NewDevice(w, loc)
  PROVE  /\ dev_id \in Id /\ dev_id \notin Registered
         /\ Registered' = Registered \cup {dev_id}
         /\ SameConfig(dev, dev', Id \ {dev_id})
         /\ dev'[dev_id].mac = MacOf(w)
         /\ offq' = offq
         /\ InFile(dev', Registered', file') /\ Agrees(dev', file')
<1> DEFINE D == [dev EXCEPT ![dev_id] = [mac |-> MacOf(w), loc |-> loc,
                                         state |-> "online", ir_dev |-> NULL]]
<1>1. dev_id \in Id /\ dev_id \notin Registered
  BY RegistryAssumption DEF NewDevice, IdInv, TypeOK, Id, UniqueIds, Registered
<1>2. /\ D \in [Id -> Device] /\ SameConfig(dev, D, Id \ {dev_id})
      /\ D[dev_id].mac = MacOf(w)
  BY <1>1, QueuesTyped, MacIsMac DEF Device, SameConfig
<1> HIDE DEF D
<1>3. /\ queue' = Append(queue, dev_id) /\ offq' = offq
      /\ dev' = UpdateLink(LinkDevice(D, Append(queue, dev_id), dev_id),
                           Append(queue, dev_id), dev_id)
      /\ file' = Saved(dev', queue', offq)
  BY DEF NewDevice, Join, D
<1>4. SameDevices(D, dev')
  BY <1>1, <1>2, <1>3, QueuesTyped, JoinProps
<1>5. queue' \in Seq(Id) /\ ToSet(queue') = ToSet(queue) \cup {dev_id}
  BY <1>1, <1>3, QueuesTyped, PushTail
<1>6. InFile(dev', ToSet(queue') \cup ToSet(offq'), file') /\ Agrees(dev', file')
  BY <1>3, <1>5, QueuesTyped, SavedHoldsAll
<1>7. SameConfig(dev, dev', Id \ {dev_id}) /\ dev'[dev_id].mac = MacOf(w)
  BY <1>1, <1>2, <1>4 DEF SameConfig, SameDevices
<1> QED BY <1>1, <1>3, <1>5, <1>6, <1>7 DEF Registered

LEMMA DevOfflineKeeps ==
  ASSUME IdInv, NEW m \in Wifi \cup Zigbee, DevOffline(m)
  PROVE  /\ Registered' = Registered /\ SameConfig(dev, dev', Id)
         /\ \E d \in ToSet(queue) : dev[d].mac = m /\ offq' = Append(offq, d)
<1> DEFINE S == {d \in ToSet(queue) : dev[d].mac = m}
           i == FirstAt(queue, S)
           d == queue[i]
           q == RemoveAt(queue, i)
           D == [dev EXCEPT ![d].state = "offline"]
<1>1. PICK e \in ToSet(queue) : e \in S
  BY DEF DevOffline, IsOnline
<1>2. queue' = q /\ offq' = Append(offq, d) /\ dev' = UpdateLink(D, q, d)
  BY DEF DevOffline
<1>3. /\ d \in ToSet(queue) /\ d \in Id /\ d \in S
      /\ q \in Seq(Id) /\ ToSet(q) = ToSet(queue) \ {d}
  BY <1>1, LeaveProps
<1>4. dev[d].mac = m
  BY <1>3
<1> HIDE DEF S, i, d, q
<1>5. D \in [Id -> Device] /\ SameConfig(dev, D, Id)
  BY ZenonT(60), <1>3, QueuesTyped DEF Device, SameConfig
<1> HIDE DEF D
<1>6. SameDevices(D, dev')
  BY <1>2, <1>3, <1>5, UpdateLinkProps
<1>7. ToSet(offq') = ToSet(offq) \cup {d}
  BY <1>2, <1>3, QueuesTyped, PushTail
<1>8. SameConfig(dev, dev', Id)
  BY <1>5, <1>6 DEF SameConfig, SameDevices
<1> QED BY <1>2, <1>3, <1>4, <1>7, <1>8 DEF Registered

LEMMA DevRemovedKeeps ==
  ASSUME IdInv, NEW d \in Id, DevRemoved(d)
  PROVE  /\ d \in ToSet(queue)
         /\ Registered' = Registered \ {d} /\ offq' = offq
         /\ SameConfig(dev, dev', Id \ {d})
<1> DEFINE q == RemoveAt(queue, FirstAt(queue, {d}))
           D == [dev EXCEPT ![d].state = "offline"]
<1>1. /\ d \in ToSet(queue) /\ offq' = offq
      /\ queue' = q /\ dev' = [UpdateLink(D, q, d) EXCEPT ![d] = Blank]
  BY DEF DevRemoved
<1>2. q \in Seq(Id) /\ ToSet(q) = ToSet(queue) \ {d}
  <2> DEFINE i == FirstAt(queue, {d})
  <2>1. /\ queue[i] \in {d}
        /\ q \in Seq(Id) /\ ToSet(q) = ToSet(queue) \ {queue[i]}
    BY <1>1, LeaveProps
  <2> QED BY <2>1
<1> HIDE DEF q
<1>3. D \in [Id -> Device] /\ SameConfig(dev, D, Id)
  BY QueuesTyped DEF Device, SameConfig
<1> HIDE DEF D
<1>4. SameDevices(D, UpdateLink(D, q, d))
  BY <1>2, <1>3, UpdateLinkProps
<1>5. SameConfig(dev, dev', Id \ {d})
  BY <1>1, <1>3, <1>4 DEF SameConfig, SameDevices
<1> QED BY <1>1, <1>2, <1>5, QueuesTyped DEF Registered

LEMMA SetDevCfgKeeps ==
  ASSUME IdInv, NEW d \in Id, NEW loc \in Location \cup {NoLoc}, SetDevCfg(d, loc)
  PROVE  /\ queue' = queue /\ offq' = offq /\ Registered' = Registered
         /\ \A x \in Id : dev'[x].mac = dev[x].mac
         /\ InFile(dev', Registered', file') /\ Agrees(dev', file')
<1> DEFINE D == [dev EXCEPT ![d].loc = loc]
<1>1. /\ d \in ToSet(queue) /\ queue' = queue /\ offq' = offq
      /\ dev' = UpdateLink(LinkDevice(D, queue, d), queue, d)
      /\ file' = Saved(dev', queue, offq)
  BY DEF SetDevCfg
<1>2. D \in [Id -> Device] /\ \A x \in Id : D[x].mac = dev[x].mac
  BY QueuesTyped DEF Device
<1> HIDE DEF D
<1>3. SameDevices(D, dev')
  BY <1>1, <1>2, QueuesTyped, RelinkProps
<1>4. InFile(dev', ToSet(queue) \cup ToSet(offq), file') /\ Agrees(dev', file')
  BY <1>1, QueuesTyped, SavedHoldsAll
<1> QED BY <1>1, <1>2, <1>3, <1>4 DEF SameDevices, Registered

(* load_config reads every record back that has a location, and only those *)
(* without one are lost. A save in its middle may leave some out.          *)
LEMMA LoadConfigReads ==
  ASSUME IdInv, LoadConfig
  PROVE  /\ Registered' \subseteq Id
         /\ ~behind' => InFile(dev', Registered', file')
         /\ \A i \in DOMAIN file' :
              file'[i].id \in Registered' => file'[i].mac = dev'[file'[i].id].mac
         /\ \A i \in DOMAIN file :
              \/ file[i].id \in Registered' /\ dev'[file[i].id].mac = file[i].mac
              \/ owner'[file[i].id] = NULL
         /\ \A d \in Id : owner'[d] \in {owner[d], NULL}
<1> DEFINE kept == {i \in DOMAIN file : file[i].loc # NoLoc}
           ids == {file[i].id : i \in kept}
<1>1. PICK order \in [1..Cardinality(kept) -> kept] :
        /\ \A i, j \in DOMAIN order : i < j => order[i] < order[j]
        /\ offq' = [i \in DOMAIN order |-> file[order[i]].id]
        /\ dev' = [d \in Id |->
                     IF d \in ids
                     THEN LET r == file[CHOOSE i \in kept : file[i].id = d]
                          IN [mac |-> r.mac, loc |-> r.loc,
                              state |-> "offline", ir_dev |-> NULL]
                     ELSE Blank]
        /\ owner' = Forgotten({file[i].id : i \in DOMAIN file} \ ids)
        /\ \/ UNCHANGED <<file, behind>>
           \/ \E k \in 0..Len(offq') :
                /\ file' = Saved(dev', <<>>, SubSeq(offq', 1, k))
                /\ behind' = (k < Len(offq'))
  BY DEF LoadConfig
<1>2. /\ DOMAIN file = 1..Len(file) /\ Len(file) \in Nat
      /\ \A i \in DOMAIN file : file[i] \in Record
  BY ToSetProps, ElementOfSeq DEF IdInv, TypeOK
<1>3. IsFiniteSet(kept) /\ Cardinality(kept) \in Nat /\ kept \subseteq Nat
  <2>1. IsFiniteSet(1..Len(file))
    BY <1>2, FS_Interval
  <2>2. IsFiniteSet(kept)
    BY <2>1, <1>2, FS_Subset
  <2> QED BY <2>2, <1>2, FS_CardinalityType
<1>4. /\ \A i \in kept : i \in DOMAIN file /\ file[i].id \in ids
      /\ \A d \in ids : \E i \in kept : file[i].id = d
  OBVIOUS
<1>5. offq' \in Seq(Id) /\ IsInjective(offq') /\ ToSet(queue') = {} /\ queue' = <<>>
  <2>1. IdInv'
    BY LoadConfigIds
  <2>2. queue' = <<>>
    BY DEF LoadConfig, IdInv
  <2>3. ToSet(<<>>) = {}
    BY DEF ToSet
  <2> QED BY <2>1, <2>2, <2>3 DEF IdInv, TypeOK, UniqueIds
<1>6. /\ \A i \in DOMAIN file : file[i].id \in ids \/ owner'[file[i].id] = NULL
      /\ \A d \in Id : owner'[d] \in {owner[d], NULL}
  <2>1. \A d \in Id : owner'[d] \in {owner[d], NULL}
    BY <1>1 DEF Forgotten
  <2>2. ASSUME NEW i \in DOMAIN file, file[i].id \notin ids
        PROVE  owner'[file[i].id] = NULL
    <3>1. file[i].id \in Id
      BY <1>2 DEF Record
    <3> QED BY <1>1, <2>2, <3>1 DEF Forgotten
  <2> QED BY <2>1, <2>2
<1> HIDE DEF kept, ids
<1>7. \A k \in kept : \E i \in DOMAIN order : order[i] = k
  <2>1. order \in Injection(1..Cardinality(kept), kept)
    <3>1. \A a, b \in 1..Cardinality(kept) : order[a] = order[b] => a = b
      <4> SUFFICES ASSUME NEW a \in 1..Cardinality(kept), NEW b \in 1..Cardinality(kept),
                          order[a] = order[b]
                   PROVE  a = b
        OBVIOUS
      <4>1. a \in Nat /\ b \in Nat
        BY <1>3
      <4>2. order[a] \in kept /\ DOMAIN order = 1..Cardinality(kept)
        BY <1>1
      <4>3. order[a] \in Nat
        BY <4>2, <1>3
      <4>4. ~(a < b) /\ ~(b < a)
        BY <1>1, <4>1, <4>2, <4>3
      <4> QED BY <4>1, <4>4
    <3> QED BY <3>1 DEF Injection, IsInjective
  <2>2. Cardinality(1..Cardinality(kept)) = Cardinality(kept)
    BY <1>3, FS_Interval
  <2>3. order \in Surjection(1..Cardinality(kept), kept)
    BY <1>3, <2>1, <2>2, FS_Injection
  <2> QED BY <2>3 DEF Surjection
<1>8. ToSet(offq') = ids
  <2>1. ASSUME NEW d \in ids PROVE d \in ToSet(offq')
    <3>1. PICK k \in kept : file[k].id = d
      BY <1>4
    <3>2. PICK i \in DOMAIN order : order[i] = k
      BY <1>7
    <3> QED BY <1>1, <3>1, <3>2 DEF ToSet
  <2>2. ASSUME NEW d \in ToSet(offq') PROVE d \in ids
    BY <1>1, <1>4 DEF ToSet
  <2> QED BY <2>1, <2>2
<1>9. ids \subseteq Id
  BY <1>2, <1>4 DEF Record
<1>10. ASSUME NEW d \in ids
       PROVE  \E i \in DOMAIN file : /\ file[i].id = d
                /\ file[i] = [id |-> d, mac |-> dev'[d].mac, loc |-> dev'[d].loc]
  <2> DEFINE k == CHOOSE i \in kept : file[i].id = d
  <2>1. k \in kept /\ file[k].id = d
    BY <1>4
  <2>2. dev'[d].mac = file[k].mac /\ dev'[d].loc = file[k].loc
    BY <1>1, <1>9
  <2>3. k \in DOMAIN file /\ file[k] \in Record
    BY <2>1, <1>2, <1>4
  <2> QED BY <2>1, <2>2, <2>3 DEF Record
<1>11. ASSUME NEW i \in DOMAIN file, file[i].id \in ids
       PROVE  dev'[file[i].id].mac = file[i].mac
  <2>1. PICK k \in DOMAIN file :
          /\ file[k].id = file[i].id
          /\ file[k] = [id |-> file[i].id, mac |-> dev'[file[i].id].mac,
                        loc |-> dev'[file[i].id].loc]
    BY <1>10, <1>11
  <2>2. k = i
    BY <2>1 DEF IdInv, FileIdsUnique
  <2> QED BY <2>1, <2>2
<1>12. Registered' = ids
  BY <1>5, <1>8 DEF Registered
<1>13. /\ ~behind' => InFile(dev', ids, file')
       /\ \A i \in DOMAIN file' : file'[i].id \in ids => file'[i].mac = dev'[file'[i].id].mac
  <2>1. CASE UNCHANGED <<file, behind>>
    BY <1>10, <1>11, <2>1 DEF InFile
  <2>2. ASSUME NEW k \in 0..Len(offq'),
               file' = Saved(dev', <<>>, SubSeq(offq', 1, k)),
               behind' = (k < Len(offq'))
        PROVE  /\ ~behind' => InFile(dev', ids, file')
               /\ Agrees(dev', file')
    <3>1. PICK p \in Seq(Id) : p = SubSeq(offq', 1, k)
      BY <1>5, FirstOnes
    <3>2. <<>> \in Seq(Id) /\ ToSet(<<>>) = {}
      BY DEF ToSet
    <3>3. InFile(dev', ToSet(p), file') /\ Agrees(dev', file')
      <4>1. /\ InFile(dev', ToSet(<<>>) \cup ToSet(p), Saved(dev', <<>>, p))
            /\ Agrees(dev', Saved(dev', <<>>, p))
        BY <3>2, SavedHoldsAll
      <4> QED BY <2>2, <3>1, <3>2, <4>1
    <3>4. ASSUME ~behind' PROVE p = offq'
      <4>1. Len(offq') \in Nat
        BY <1>5, LenProperties
      <4>2. ~(k < Len(offq'))
        BY <2>2, <3>4
      <4>3. k = Len(offq')
        BY <4>1, <4>2
      <4> QED BY <1>5, <3>1, <4>3, WholeSeq
    <3> QED BY <1>8, <3>3, <3>4
  <2>3. CASE \E k \in 0..Len(offq') :
               /\ file' = Saved(dev', <<>>, SubSeq(offq', 1, k))
               /\ behind' = (k < Len(offq'))
    <3>1. (~behind' => InFile(dev', ids, file')) /\ Agrees(dev', file')
      BY <2>2, <2>3
    <3> QED BY <3>1 DEF Agrees
  <2> QED BY <1>1, <2>1, <2>3
<1>14. \A i \in DOMAIN file :
         \/ file[i].id \in Registered' /\ dev'[file[i].id].mac = file[i].mac
         \/ owner'[file[i].id] = NULL
  BY <1>6, <1>11, <1>12
<1> QED BY <1>6, <1>9, <1>12, <1>13, <1>14

(* An id that was announced is of the registered device it was announced   *)
(* for, or, before the load, of one in the file with the same MAC.         *)
OwnersKnown ==
  \A d \in Id : owner[d] # NULL =>
    IF boot = "load"
    THEN \E i \in DOMAIN file : file[i].id = d /\ file[i].mac = MacOf(owner[d])
    ELSE d \in Registered /\ dev[d].mac = MacOf(owner[d])

(* What the file has of a registered device, it has with its MAC. *)
FileAgrees ==
  boot # "load" =>
    \A i \in DOMAIN file : file[i].id \in Registered => file[i].mac = dev[file[i].id].mac

FileInv == IdInv /\ FileCurrent /\ FileAgrees /\ OwnersKnown

(* A handler that saves what is registered. *)
LEMMA SavedStep ==
  ASSUME InFile(dev', Registered', file'), Agrees(dev', file')
  PROVE  FileCurrent' /\ FileAgrees'
BY DEF FileCurrent, FileAgrees, InFile, Agrees, Registered

(* Handlers that save nothing: what they leave registered is as it was.    *)
LEMMA UnsavedStep ==
  ASSUME FileInv, boot # "load", UNCHANGED <<file, behind>>,
         Registered' \subseteq Registered, SameConfig(dev, dev', Registered')
  PROVE  FileCurrent' /\ FileAgrees'
<1>1. ~behind => InFile(dev, Registered, file)
  BY DEF FileInv, FileCurrent, InFile, Registered
<1>2. ~behind' => InFile(dev', Registered', file')
  BY <1>1 DEF InFile, SameConfig
<1>3. FileAgrees'
  BY DEF FileInv, FileAgrees, SameConfig
<1> QED BY <1>2, <1>3 DEF FileCurrent, InFile, Registered

(* Handlers that announce no device. *)
LEMMA OwnersStay ==
  ASSUME FileInv, boot # "load", boot' # "load",
         \A d \in Id : \/ owner'[d] = NULL
                       \/ /\ owner'[d] = owner[d]
                          /\ d \in Registered =>
                               d \in Registered' /\ dev'[d].mac = dev[d].mac
  PROVE  OwnersKnown'
BY DEF FileInv, OwnersKnown

LEMMA NewDeviceFile ==
  ASSUME FileInv, boot # "load", NEW w \in Owner, NEW loc \in Location \cup {NoLoc},
         NewDevice(w, loc)
  PROVE  FileCurrent' /\ FileAgrees' /\ OwnersKnown'
<1>1. /\ dev_id \in Id
      /\ Registered' = Registered \cup {dev_id}
      /\ SameConfig(dev, dev', Id \ {dev_id}) /\ dev'[dev_id].mac = MacOf(w)
      /\ InFile(dev', Registered', file') /\ Agrees(dev', file')
  BY NewDeviceAdds DEF FileInv
<1>2. FileCurrent' /\ FileAgrees'
  BY <1>1, SavedStep
<1>3. /\ \A d \in Id \ {dev_id} : owner'[d] = owner[d]
      /\ owner'[dev_id] = w /\ boot' = boot
  BY <1>1 DEF NewDevice, FileInv, IdInv, TypeOK
<1>4. OwnersKnown'
  <2> SUFFICES ASSUME NEW d \in Id, owner'[d] # NULL
               PROVE  d \in Registered' /\ dev'[d].mac = MacOf(owner'[d])
    BY <1>3 DEF OwnersKnown
  <2>1. CASE d = dev_id
    BY <1>1, <1>3, <2>1
  <2>2. CASE d # dev_id
    BY <1>1, <1>3, <2>2 DEF FileInv, OwnersKnown, SameConfig
  <2> QED BY <2>1, <2>2
<1> QED BY <1>2, <1>4

(* The place of offq whose device a returning one takes over. *)
LEMMA ReturnPlace ==
  ASSUME IdInv, NEW w \in Owner, Return(w)
  PROVE  /\ FirstAt(offq, Offline(MacOf(w))) \in 1..Len(offq)
         /\ offq[FirstAt(offq, Offline(MacOf(w)))] \in ToSet(offq)
         /\ dev[offq[FirstAt(offq, Offline(MacOf(w)))]].mac = MacOf(w)
<1>1. PICK e \in ToSet(offq) : e \in Offline(MacOf(w))
  BY DEF Return, Offline
<1>2. /\ FirstAt(offq, Offline(MacOf(w))) \in 1..Len(offq)
      /\ offq[FirstAt(offq, Offline(MacOf(w)))] \in Offline(MacOf(w))
  BY <1>1, FirstAtProps, QueuesTyped
<1> QED BY <1>2 DEF Offline

LEMMA ReturnFile ==
  ASSUME FileInv, boot # "load", NEW w \in Owner, Return(w)
  PROVE  FileCurrent' /\ FileAgrees' /\ OwnersKnown'
<1>1. IdInv /\ Registered \subseteq Id /\ ToSet(offq) \subseteq Registered
  BY QueuesTyped DEF FileInv, Registered
<1>2. Registered' = Registered /\ SameConfig(dev, dev', Id)
  BY <1>1, ReturnKeeps
<1>3. UNCHANGED <<boot, file, behind>>
  BY DEF Return
<1>4. FileCurrent' /\ FileAgrees'
  BY <1>1, <1>2, <1>3, UnsavedStep DEF SameConfig
<1>5. PICK e \in ToSet(offq) : e = offq[FirstAt(offq, Offline(MacOf(w)))] /\ dev[e].mac = MacOf(w)
  BY <1>1, ReturnPlace
<1>6. owner' = [owner EXCEPT ![e] = w] /\ owner \in [Id -> Owner \cup {NULL}]
  BY <1>1, <1>5 DEF Return, IdInv, TypeOK
<1>7. OwnersKnown'
  <2> SUFFICES ASSUME NEW d \in Id, owner'[d] # NULL
               PROVE  d \in Registered' /\ dev'[d].mac = MacOf(owner'[d])
    BY <1>3 DEF OwnersKnown
  <2>1. CASE d = e
    BY <1>1, <1>2, <1>5, <1>6, <2>1 DEF SameConfig
  <2>2. CASE d # e
    BY <1>2, <1>6, <2>2 DEF FileInv, OwnersKnown, SameConfig
  <2> QED BY <2>1, <2>2
<1> QED BY <1>4, <1>7

LEMMA SetDevCfgFile ==
  ASSUME FileInv, NEW d \in Id, NEW loc \in Location \cup {NoLoc}, SetDevCfg(d, loc)
  PROVE  FileCurrent' /\ FileAgrees' /\ OwnersKnown'
<1>1. /\ Registered' = Registered /\ \A x \in Id : dev'[x].mac = dev[x].mac
      /\ InFile(dev', Registered', file') /\ Agrees(dev', file')
  BY SetDevCfgKeeps DEF FileInv
<1>2. UNCHANGED <<boot, owner>> /\ boot # "load"
  BY LoadIsOver DEF SetDevCfg, FileInv
<1>3. OwnersKnown'
  BY <1>1, <1>2, OwnersStay
<1> QED BY <1>1, <1>3, SavedStep

LEMMA SetSceneFile ==
  ASSUME FileInv, SetScene
  PROVE  FileCurrent' /\ FileAgrees' /\ OwnersKnown'
<1>1. UNCHANGED <<queue, offq, dev, boot>> /\ file' = Saved(dev, queue, offq)
  BY DEF SetScene, registry
<1>2. CASE boot = "load"
  <2>1. \A d \in Id : owner'[d] = NULL
    BY <1>2 DEF SetScene, Forgotten
  <2> QED BY <1>1, <1>2, <2>1 DEF FileCurrent, FileAgrees, OwnersKnown
<1>3. CASE boot # "load"
  <2>1. InFile(dev', Registered', file') /\ Agrees(dev', file')
    <3>1. InFile(dev, ToSet(queue) \cup ToSet(offq), file') /\ Agrees(dev, file')
      BY <1>1, QueuesTyped, SavedHoldsAll DEF FileInv
    <3> QED BY <1>1, <3>1 DEF Registered
  <2>2. \A d \in Id : owner'[d] = owner[d]
    BY <1>3 DEF SetScene, Forgotten
  <2>3. Registered' = Registered
    BY <1>1 DEF Registered
  <2>4. OwnersKnown'
    BY <1>1, <1>3, <2>2, <2>3, OwnersStay
  <2> QED BY <2>1, <2>4, SavedStep
<1> QED BY <1>2, <1>3

(* After a death the ids are those of the file. *)
LEMMA RestartFile ==
  ASSUME FileInv, NEW f, Restart(f),
         \/ \A d \in Id : owner'[d] = NULL
         \/ f = file /\ \A d \in Id : owner'[d] = Forgotten(LeftOut)[d]
  PROVE  FileCurrent' /\ FileAgrees' /\ OwnersKnown'
<1>1. boot' = "load" /\ file' = f
  BY DEF Restart
<1>2. ASSUME f = file, NEW d \in Id, owner'[d] = Forgotten(LeftOut)[d], owner'[d] # NULL
      PROVE  \E i \in DOMAIN file : file[i].id = d /\ file[i].mac = MacOf(owner'[d])
  <2>1. owner'[d] = owner[d] /\ d \notin LeftOut /\ owner[d] # NULL
    BY <1>2 DEF Forgotten
  <2>2. CASE boot = "load"
    BY <2>1, <2>2 DEF FileInv, OwnersKnown
  <2>3. CASE boot # "load"
    <3>1. d \in Registered /\ dev[d].mac = MacOf(owner[d])
      BY <2>1, <2>3 DEF FileInv, OwnersKnown
    <3>2. \E i \in DOMAIN file : file[i].id = d
      <4>1. CASE behind
        BY <2>1, <3>1, <4>1 DEF LeftOut, Registered
      <4>2. CASE ~behind
        <5>1. PICK i \in DOMAIN file :
                file[i] = [id |-> d, mac |-> dev[d].mac, loc |-> dev[d].loc]
          BY <2>3, <3>1, <4>2 DEF FileInv, FileCurrent, Registered
        <5> QED BY <5>1
      <4> QED BY <4>1, <4>2
    <3> QED BY <2>1, <2>3, <3>1, <3>2 DEF FileInv, FileAgrees
  <2> QED BY <2>2, <2>3
<1>3. OwnersKnown'
  BY <1>1, <1>2 DEF OwnersKnown
<1> QED BY <1>1, <1>3 DEF FileCurrent, FileAgrees

(* A new device that was not saved has an id nobody knows. *)
LEMMA UnsavedIsUnknown ==
  ASSUME FileInv, NEW w \in Owner, CrashUnsaved(w)
  PROVE  \/ Restart(Unreadable) /\ \A d \in Id : owner'[d] = NULL
         \/ Restart(file) /\ \A d \in Id : owner'[d] = Forgotten(LeftOut)[d]
<1>1. boot # "load" /\ dev_id \in Id
  BY LoadIsOver, RegistryAssumption DEF CrashUnsaved, FileInv, IdInv, TypeOK, Id
<1>2. dev_id \notin Registered
  BY <1>1, QueuesTyped DEF FileInv, IdInv, UniqueIds, Registered, Id
<1>3. owner[dev_id] = NULL
  BY <1>1, <1>2 DEF FileInv, OwnersKnown
<1>4. Forgotten(LeftOut)[dev_id] = NULL
  BY <1>1, <1>3 DEF Forgotten
<1>5. CASE /\ Restart(file)
           /\ owner' = [Forgotten(LeftOut) EXCEPT ![dev_id] = IF @ = NULL THEN NULL ELSE w]
  <2>1. \A d \in Id : owner'[d] = Forgotten(LeftOut)[d]
    <3>1. Forgotten(LeftOut) = [d \in Id |-> Forgotten(LeftOut)[d]]
      BY DEF Forgotten
    <3> QED BY <1>4, <1>5, <3>1
  <2> QED BY <1>5, <2>1
<1>6. CASE Restart(Unreadable) /\ owner' = Forgotten(Id)
  BY <1>6 DEF Forgotten
<1> QED BY <1>5, <1>6 DEF CrashUnsaved

LEMMA FileInvInit == Init => FileInv
<1> SUFFICES ASSUME Init PROVE FileInv
  OBVIOUS
<1> QED BY IdInvInit DEF Init, FileInv, FileCurrent, FileAgrees, OwnersKnown

LEMMA FileInvNext == FileInv /\ [Next]_vars => FileInv'
<1> SUFFICES ASSUME FileInv, [Next]_vars PROVE FileCurrent' /\ FileAgrees' /\ OwnersKnown'
  BY IdInvNext DEF FileInv
<1>0. IdInv /\ Registered \subseteq Id
  BY QueuesTyped DEF FileInv, Registered
<1>1. ASSUME UNCHANGED <<queue, offq, dev, file, owner, behind>>,
             boot' = "load" <=> boot = "load"
      PROVE  FileCurrent' /\ FileAgrees' /\ OwnersKnown'
  BY <1>1 DEF FileInv, FileCurrent, FileAgrees, OwnersKnown, Registered
<1>2. CASE LoadConfig
  <2>1. /\ ~behind' => InFile(dev', Registered', file')
        /\ \A i \in DOMAIN file' :
             file'[i].id \in Registered' => file'[i].mac = dev'[file'[i].id].mac
        /\ \A i \in DOMAIN file :
             \/ file[i].id \in Registered' /\ dev'[file[i].id].mac = file[i].mac
             \/ owner'[file[i].id] = NULL
        /\ \A d \in Id : owner'[d] \in {owner[d], NULL}
    BY <1>0, <1>2, LoadConfigReads
  <2>2. boot = "load" /\ boot' = "drivers"
    BY <1>2 DEF LoadConfig
  <2>3. FileCurrent' /\ FileAgrees'
    BY <2>1 DEF FileCurrent, FileAgrees, InFile, Registered
  <2>4. OwnersKnown'
    <3> SUFFICES ASSUME NEW d \in Id, owner'[d] # NULL
                 PROVE  d \in Registered' /\ dev'[d].mac = MacOf(owner'[d])
      BY <2>2 DEF OwnersKnown
    <3>1. owner'[d] = owner[d] /\ owner[d] # NULL
      BY <2>1
    <3>2. PICK i \in DOMAIN file : file[i].id = d /\ file[i].mac = MacOf(owner[d])
      BY <2>2, <3>1 DEF FileInv, OwnersKnown
    <3> QED BY <2>1, <3>1, <3>2
  <2> QED BY <2>3, <2>4
<1>3. CASE InitDrivers
  BY <1>1, <1>3 DEF InitDrivers, registry
<1>4. CASE RecoverStep
  <2>1. rid + 1 \in 1..Len(offq)
    <3>1. rid \in Nat /\ Len(offq) \in Nat /\ rid < Len(offq)
      BY <1>0, <1>4, QueuesTyped, LenProperties DEF RecoverStep, Recovered, IdInv, TypeOK
    <3> QED BY <3>1
  <2>2. UNCHANGED <<boot, file, owner, behind>> /\ boot = "recover"
    BY <1>4 DEF RecoverStep, Recovered
  <2>3. CASE /\ offq' = RemoveAt(offq, rid + 1)
             /\ Join(offq[rid + 1], [dev EXCEPT ![offq[rid + 1]].state = "online"],
                     queue)
    <3>1. Registered' = Registered /\ SameConfig(dev, dev', Id)
      BY <1>0, <2>1, <2>3, MoveOnlineKeeps
    <3> QED BY <1>0, <2>2, <3>1, UnsavedStep, OwnersStay DEF SameConfig
  <2>4. CASE UNCHANGED <<queue, offq, dev>>
    BY <2>2, <2>4, <1>1
  <2> QED BY <1>4, <2>3, <2>4 DEF RecoverStep, Recovered
<1>5. CASE RecoverSpin \/ UNCHANGED vars
  BY <1>1, <1>5 DEF RecoverSpin, vars
<1>6. CASE RecoverDone
  BY <1>1, <1>6 DEF RecoverDone, registry
<1>7. CASE \/ \E m \in Wifi \cup Zigbee : Register(m)
           \/ \E a \in Appliance, loc \in Location \cup {NoLoc} : AddIr(a, loc)
  BY <1>0, <1>7, Arrives, NewDeviceFile, ReturnFile
<1>8. CASE SetScene
  BY <1>8, SetSceneFile
<1>9. ASSUME NEW m \in Wifi \cup Zigbee, DevOffline(m)
      PROVE  FileCurrent' /\ FileAgrees' /\ OwnersKnown'
  <2>1. Registered' = Registered /\ SameConfig(dev, dev', Id)
    BY <1>0, <1>9, DevOfflineKeeps
  <2>2. UNCHANGED <<boot, file, owner, behind>> /\ boot # "load"
    BY <1>0, <1>9, LoadIsOver DEF DevOffline, IsOnline
  <2> QED BY <1>0, <2>1, <2>2, UnsavedStep, OwnersStay DEF SameConfig
<1>10. ASSUME NEW d \in Id, DevRemoved(d)
       PROVE  FileCurrent' /\ FileAgrees' /\ OwnersKnown'
  <2>1. Registered' = Registered \ {d} /\ SameConfig(dev, dev', Id \ {d})
    BY <1>0, <1>10, DevRemovedKeeps
  <2>2. /\ UNCHANGED <<boot, file, behind>> /\ boot # "load"
        /\ owner' = Forgotten({d})
    BY <1>0, <1>10, LoadIsOver DEF DevRemoved
  <2>3. \A x \in Id : owner'[x] = IF x = d THEN NULL ELSE owner[x]
    BY <2>2 DEF Forgotten
  <2>4. OwnersKnown'
    BY <2>1, <2>2, <2>3, OwnersStay DEF SameConfig
  <2> QED BY <1>0, <2>1, <2>2, <2>4, UnsavedStep DEF SameConfig
<1>11. ASSUME NEW d \in Id, NEW loc \in Location \cup {NoLoc}, SetDevCfg(d, loc)
       PROVE  FileCurrent' /\ FileAgrees' /\ OwnersKnown'
  BY <1>11, SetDevCfgFile
<1>12. CASE Crash
  BY <1>12, RestartFile DEF Crash
<1>13. CASE CrashSaving
  <2>1. \A d \in Id : owner'[d] = NULL
    BY <1>13 DEF CrashSaving, Forgotten
  <2> QED BY <1>13, <2>1, RestartFile DEF CrashSaving
<1>14. ASSUME NEW w \in Owner, CrashUnsaved(w)
       PROVE  FileCurrent' /\ FileAgrees' /\ OwnersKnown'
  BY <1>14, UnsavedIsUnknown, RestartFile
<1> QED BY <1>2, <1>3, <1>4, <1>5, <1>6, <1>7, <1>8, <1>9, <1>10, <1>11, <1>12,
           <1>13, <1>14 DEF Next

(* Outside a load the file has every known device as it is configured,     *)
(* although most handlers save nothing, unless a client's save in the      *)
(* middle of the load left devices out, until the next save.               *)
THEOREM FileIsCurrent == Spec => []FileCurrent
<1>1. FileInv => FileCurrent
  BY DEF FileInv
<1> QED BY <1>1, FileInvInit, FileInvNext, PTL DEF Spec

(* dev_online gives the id of a device that was announced to another only  *)
(* if that is an appliance and the first one waits for recover_dev: the    *)
(* counter is past the ids of all registered devices, and the MACs of the  *)
(* others are their own.                                                   *)
LEMMA OnlineOwner ==
  ASSUME FileInv, boot # "load", NEW w \in Owner, NEW loc \in Location \cup {NoLoc},
         NewDevice(w, loc) \/ Return(w),
         NEW d \in Id, owner[d] # NULL, owner'[d] \notin {owner[d], NULL}
  PROVE  Waits(d)
<1>1. /\ owner \in [Id -> Owner \cup {NULL}] /\ IdInv
      /\ d \in Registered /\ dev[d].mac = MacOf(owner[d])
  BY DEF FileInv, IdInv, TypeOK, OwnersKnown
<1>2. ASSUME NewDevice(w, loc) PROVE FALSE
  <2>1. dev_id \notin Registered /\ owner' = [owner EXCEPT ![dev_id] = w]
    BY <1>1, <1>2, NewDeviceAdds DEF NewDevice
  <2>2. d # dev_id
    BY <1>1, <2>1
  <2> QED BY <1>1, <2>1, <2>2
<1>3. ASSUME Return(w) PROVE Waits(d)
  <2>1. PICK e \in ToSet(offq) : e = offq[FirstAt(offq, Offline(MacOf(w)))] /\ dev[e].mac = MacOf(w)
    BY <1>1, <1>3, ReturnPlace
  <2>2. owner' = [owner EXCEPT ![e] = w]
    BY <1>3, <2>1 DEF Return
  <2>3. d = e /\ owner[d] # w /\ owner[d] \in Owner
    BY <1>1, <2>2
  <2>4. w \in Appliance
    BY <1>1, <2>1, <2>3, RegistryAssumption DEF MacOf, Owner
  <2> QED BY <2>1, <2>3, <2>4 DEF Waits, MacOf
<1> QED BY <1>2, <1>3

LEMMA OwnerStep ==
  ASSUME FileInv, [Next]_vars,
         NEW d \in Id, owner[d] # NULL, owner'[d] \notin {owner[d], NULL}
  PROVE  Waits(d)
<1>1. IdInv
  BY DEF FileInv
<1>2. CASE \/ \E m \in Wifi \cup Zigbee : Register(m)
           \/ \E a \in Appliance, loc \in Location \cup {NoLoc} : AddIr(a, loc)
  BY <1>1, <1>2, Arrives, OnlineOwner
<1>3. ASSUME NEW S, owner' = Forgotten(S) PROVE FALSE
  BY <1>3 DEF Forgotten
<1>4. ASSUME NEW w \in Owner, CrashUnsaved(w) PROVE FALSE
  BY <1>4, UnsavedIsUnknown DEF Forgotten
<1>5. ~LoadConfig
  BY <1>1, LoadConfigReads
<1>6. ~(DevRemoved(d) \/ SetScene \/ Crash \/ CrashSaving) /\ \A x \in Id : ~DevRemoved(x)
  BY <1>3 DEF DevRemoved, SetScene, Crash, CrashSaving
<1>7. ~UNCHANGED owner
  OBVIOUS
<1> QED BY <1>2, <1>4, <1>5, <1>6, <1>7
        DEF Next, vars, InitDrivers, RecoverStep, RecoverSpin, RecoverDone, DevOffline, SetDevCfg

(* An id that was announced is not given to another device, over restarts  *)
(* too, unless its device was deleted, lost or never saved, or it is that  *)
(* of an appliance which waits for recover_dev while another is added.     *)
THEOREM IdsKeepTheirOwner == Spec => IdKeepsOwner
<1>1. FileInv /\ [Next]_vars
        => [\A d \in Id : owner[d] # NULL /\ owner'[d] \notin {owner[d], NULL} => Waits(d)]_vars
  BY OwnerStep
<1> QED BY <1>1, FileInvInit, FileInvNext, PTL DEF Spec, IdKeepsOwner

-----------------------------------------------------------------------------
(* Recovery. *)

(* Where recover_dev has been, or once it has ended everywhere in offq,    *)
(* there is no infrared device, unless offq was shortened under the scan.  *)
ScanInv ==
  ~shifted =>
    /\ boot = "recover" =>
         \A i \in 1..Len(offq) : i <= rid => dev[offq[i]].mac # ZeroMac
    /\ boot = "up" => \A d \in ToSet(offq) : dev[d].mac # ZeroMac

RecInv == IdInv /\ ScanInv

(* Handlers that leave offq and its devices alone. *)
LEMMA ScanKept ==
  ASSUME RecInv, UNCHANGED <<offq, boot, rid, shifted>>,
         \A d \in ToSet(offq) : dev'[d].mac = dev[d].mac
  PROVE  ScanInv'
<1>1. \A i \in 1..Len(offq) : offq[i] \in ToSet(offq)
  BY QueuesTyped, ToSetProps DEF RecInv
<1> QED BY <1>1 DEF RecInv, ScanInv

(* One round of recover_dev takes an infrared device out of offq, or passes *)
(* over a device that is none.                                              *)
LEMMA RecoverStepScan ==
  ASSUME RecInv, RecoverStep
  PROVE  ScanInv'
<1>0. IdInv /\ offq \in Seq(Id)
  BY QueuesTyped DEF RecInv
<1>1. /\ rid \in Nat /\ Len(offq) \in Nat /\ rid < Len(offq)
      /\ boot = "recover" /\ boot' = "recover" /\ shifted' = shifted
  BY <1>0, LenProperties DEF RecoverStep, Recovered, IdInv, TypeOK
<1>2. rid + 1 \in 1..Len(offq)
  BY <1>1
<1>3. CASE /\ offq' = RemoveAt(offq, rid + 1) /\ rid' = rid
           /\ Join(offq[rid + 1], [dev EXCEPT ![offq[rid + 1]].state = "online"],
                   queue)
  <2>1. SameConfig(dev, dev', Id)
    BY <1>0, <1>2, <1>3, MoveOnlineKeeps
  <2>2. /\ Len(offq') = Len(offq) - 1
        /\ \A j \in 1..(Len(offq) - 1) : j < rid + 1 => offq'[j] = offq[j]
    BY <1>0, <1>2, <1>3, RemoveAtProps
  <2>3. ASSUME NEW j \in 1..Len(offq'), j <= rid, ~shifted
        PROVE  dev'[offq'[j]].mac # ZeroMac
    <3>1. j \in 1..Len(offq) /\ offq'[j] = offq[j]
      BY <1>1, <2>2, <2>3
    <3>2. offq[j] \in Id
      BY <1>0, <3>1, ElementOfSeq
    <3>3. dev[offq[j]].mac # ZeroMac
      BY <1>1, <2>3, <3>1 DEF RecInv, ScanInv
    <3> QED BY <2>1, <3>1, <3>2, <3>3 DEF SameConfig
  <2> QED BY <1>1, <1>3, <2>3 DEF ScanInv
<1>4. CASE /\ DrvOf(dev[offq[rid + 1]].mac) # IrDrv
           /\ rid' = rid + 1 /\ UNCHANGED <<offq, dev>>
  <2>1. dev[offq[rid + 1]].mac # ZeroMac
    BY <1>4, RegistryAssumption DEF DrvOf
  <2>2. \A j \in 1..Len(offq) : j <= rid' => j <= rid \/ j = rid + 1
    BY <1>1, <1>4
  <2> QED BY <1>1, <1>4, <2>1, <2>2 DEF RecInv, ScanInv
<1> QED BY <1>3, <1>4 DEF RecoverStep, Recovered

(* A radio driver's device is appended behind the scan. *)
LEMMA DevOfflineScan ==
  ASSUME RecInv, NEW m \in Wifi \cup Zigbee, DevOffline(m)
  PROVE  ScanInv'
<1>1. SameConfig(dev, dev', Id) /\ IdInv
  BY DevOfflineKeeps DEF RecInv
<1>2. PICK d \in ToSet(queue) : dev[d].mac = m /\ offq' = Append(offq, d)
  BY DevOfflineKeeps DEF RecInv
<1>3. offq \in Seq(Id) /\ ToSet(offq) \in SUBSET Id /\ d \in Id /\ m # ZeroMac
  BY <1>1, QueuesTyped, RegistryAssumption
<1>4. ToSet(offq') = ToSet(offq) \cup {d}
  BY <1>2, <1>3, PushTail
<1>5. /\ Len(offq) \in Nat /\ Len(offq') = Len(offq) + 1
      /\ offq'[Len(offq) + 1] = d
      /\ \A j \in 1..Len(offq) : offq'[j] = offq[j] /\ offq[j] \in Id
  BY <1>2, <1>3, LenProperties, AppendProperties, ElementOfSeq
<1>6. dev'[d].mac # ZeroMac /\ \A x \in Id : dev'[x].mac = dev[x].mac
  BY <1>1, <1>2, <1>3 DEF SameConfig
<1>7. boot' = boot /\ rid' = rid /\ shifted' = shifted
  BY DEF DevOffline
<1>8. ASSUME NEW j \in 1..Len(offq'), j <= rid, ~shifted, boot = "recover"
      PROVE  dev'[offq'[j]].mac # ZeroMac
  <2>1. CASE j = Len(offq) + 1
    BY <2>1, <1>5, <1>6
  <2>2. CASE j # Len(offq) + 1
    <3>1. j \in 1..Len(offq)
      BY <2>2, <1>5, <1>8
    <3> QED BY <3>1, <1>5, <1>6, <1>8 DEF RecInv, ScanInv
  <2> QED BY <2>1, <2>2
<1>9. ASSUME NEW x \in ToSet(offq'), ~shifted, boot = "up"
      PROVE  dev'[x].mac # ZeroMac
  BY <1>3, <1>4, <1>6, <1>9 DEF RecInv, ScanInv
<1> QED BY <1>7, <1>8, <1>9 DEF ScanInv

LEMMA RecInvInit == Init => RecInv
<1> SUFFICES ASSUME Init PROVE RecInv
  OBVIOUS
<1> QED BY IdInvInit DEF Init, RecInv, ScanInv

LEMMA RecInvNext == RecInv /\ [Next]_vars => RecInv'
<1> SUFFICES ASSUME RecInv, [Next]_vars PROVE ScanInv'
  BY IdInvNext DEF RecInv
<1>0. /\ IdInv /\ ToSet(offq) \in SUBSET Id /\ ToSet(queue) \in SUBSET Id
      /\ ToSet(queue) \cap ToSet(offq) = {}
  BY QueuesTyped DEF RecInv
<1>1. CASE LoadConfig
  BY <1>1 DEF LoadConfig, ScanInv
<1>2. CASE InitDrivers
  BY <1>2 DEF InitDrivers, ScanInv
<1>3. CASE RecoverStep
  BY <1>3, RecoverStepScan
<1>4. CASE RecoverSpin \/ UNCHANGED vars
  BY <1>4, ScanKept DEF RecoverSpin, vars
<1>5. CASE RecoverDone
  <2>1. /\ boot = "recover" /\ boot' = "up" /\ shifted' = shifted
        /\ offq' = offq /\ dev' = dev /\ rid >= Len(offq)
    BY <1>5 DEF RecoverDone, registry
  <2>2. /\ rid \in Nat /\ Len(offq) \in Nat
        /\ \A d \in ToSet(offq) : \E i \in 1..Len(offq) : offq[i] = d
    BY <1>0, QueuesTyped, ToSetProps DEF IdInv, TypeOK
  <2>3. \A i \in 1..Len(offq) : i <= rid
    BY <2>1, <2>2
  <2> QED BY <2>1, <2>2, <2>3 DEF RecInv, ScanInv
<1>6. ASSUME NEW w \in Owner, Return(w)
      PROVE  ScanInv'
  <2>1. SameConfig(dev, dev', Id) /\ ToSet(offq') \subseteq ToSet(offq)
    BY <1>0, <1>6, ReturnKeeps
  <2>2. boot' = boot /\ shifted' = (shifted \/ boot = "recover")
    BY <1>6 DEF Return
  <2> QED BY <1>0, <2>1, <2>2 DEF RecInv, ScanInv, SameConfig
<1>7. ASSUME NEW w \in Owner, NEW loc \in Location \cup {NoLoc}, boot # "load",
             NewDevice(w, loc)
      PROVE  ScanInv'
  <2>1. /\ dev_id \notin Registered /\ SameConfig(dev, dev', Id \ {dev_id})
    BY <1>0, <1>7, NewDeviceAdds
  <2>2. UNCHANGED <<offq, boot, rid, shifted>>
    BY <1>7 DEF NewDevice
  <2> QED BY <1>0, <2>1, <2>2, ScanKept DEF SameConfig, Registered
<1>8. CASE \/ \E m \in Wifi \cup Zigbee : Register(m)
           \/ \E a \in Appliance, loc \in Location \cup {NoLoc} : AddIr(a, loc)
  BY <1>0, <1>6, <1>7, <1>8, Arrives
<1>9. CASE SetScene
  BY <1>9, ScanKept DEF SetScene, registry
<1>10. ASSUME NEW m \in Wifi \cup Zigbee, DevOffline(m)
       PROVE  ScanInv'
  BY <1>10, DevOfflineScan
<1>11. ASSUME NEW d \in Id, DevRemoved(d)
       PROVE  ScanInv'
  <2>1. d \in ToSet(queue) /\ SameConfig(dev, dev', Id \ {d})
    BY <1>0, <1>11, DevRemovedKeeps
  <2>2. UNCHANGED <<offq, boot, rid, shifted>>
    BY <1>11 DEF DevRemoved
  <2> QED BY <1>0, <2>1, <2>2, ScanKept DEF SameConfig
<1>12. ASSUME NEW d \in Id, NEW loc \in Location \cup {NoLoc}, SetDevCfg(d, loc)
       PROVE  ScanInv'
  <2>1. \A x \in Id : dev'[x].mac = dev[x].mac
    BY <1>0, <1>12, SetDevCfgKeeps
  <2>2. UNCHANGED <<offq, boot, rid, shifted>>
    BY <1>12 DEF SetDevCfg
  <2> QED BY <1>0, <2>1, <2>2, ScanKept
<1>13. ASSUME NEW f, Restart(f)
       PROVE  ScanInv'
  BY <1>13 DEF Restart, ScanInv
<1> QED BY <1>1, <1>2, <1>3, <1>4, <1>5, <1>8, <1>9, <1>10, <1>11, <1>12, <1>13
        DEF Next, Crash, CrashSaving, CrashUnsaved

(* Once start-up is over no infrared device is left behind in offq, if no  *)
(* device was taken out of offq while recover_dev walked it by position.   *)
THEOREM RecoveryIsComplete == Spec => []AllRecovered
<1>1. RecInv => AllRecovered
  BY DEF RecInv, ScanInv, AllRecovered, Offline
<1> QED BY <1>1, RecInvInit, RecInvNext, PTL DEF Spec

-----------------------------------------------------------------------------
(* Every infrared device that could have a remote has one. *)

(* Devices keep the remotes of their room when only links change. *)
LEMMA RoomKept ==
  ASSUME NEW D, NEW E, SameDevices(D, E), NEW q \in Seq(Id), NEW x \in Id
  PROVE  RemotesFor(E, q, x) = RemotesFor(D, q, x)
<1>1. ToSet(q) \in SUBSET Id
  BY ToSetProps
<1>2. \A r \in ToSet(q) :
        (SameRoom(E, x, r) <=> SameRoom(D, x, r)) /\ E[r].mac = D[r].mac
  BY <1>1 DEF SameDevices, SameRoom
<1> QED BY <1>2 DEF RemotesFor

(* link_device finds a remote when there is one. *)
LEMMA LinkDeviceFinds ==
  ASSUME NEW D \in [Id -> Device], NEW q \in Seq(Id), NEW d \in Id,
         DrvOf(D[d].mac) = IrDrv, RemotesFor(D, q, d) # {}
  PROVE  LinkDevice(D, q, d)[d].ir_dev # NULL
<1> DEFINE rs == RemotesFor(D, q, d)
           r == q[FirstAt(q, rs)]
<1>1. r \in rs
  <2>1. PICK e \in ToSet(q) : e \in rs
    BY DEF RemotesFor
  <2> HIDE DEF rs
  <2> QED BY <2>1, FirstAtProps
<1>2. r \in Id
  BY <1>1, ToSetProps DEF RemotesFor
<1> HIDE DEF r
<1>3. LinkDevice(D, q, d) = [D EXCEPT ![d].ir_dev = r]
  BY DEF LinkDevice, r
<1>4. LinkDevice(D, q, d)[d].ir_dev = r
  BY <1>3 DEF Device
<1> QED BY <1>2, <1>4, RegistryAssumption DEF Id, NULL

(* A remote p that is online serves its whole room. *)
LEMMA RemoteServesRoom ==
  ASSUME NEW D \in [Id -> Device], NEW q \in Seq(Id), NEW p \in Id,
         NEW x \in ToSet(q), x # p, D[p].state = "online",
         TypeOf(D[p].mac) = "remote", SameRoom(D, p, x)
  PROVE  UpdateLink(D, q, p)[x].ir_dev = p
<1>1. x \in Id
  BY ToSetProps
<1>2. UpdateLink(D, q, p)[x] = [D[x] EXCEPT !.ir_dev = p]
  BY <1>1 DEF UpdateLink
<1> QED BY <1>1, <1>2 DEF Device

(* A remote p that went offline is replaced where that is possible. *)
LEMMA RemoteIsReplaced ==
  ASSUME NEW D \in [Id -> Device], NEW q \in Seq(Id), NEW p \in Id,
         NEW x \in ToSet(q), x # p, D[p].state = "offline",
         DrvOf(D[x].mac) = IrDrv, RemotesFor(D, q, x) # {}, D[x].ir_dev # NULL
  PROVE  UpdateLink(D, q, p)[x].ir_dev # NULL
<1> DEFINE C == [D EXCEPT ![x].ir_dev = NULL]
<1>1. x \in Id
  BY ToSetProps
<1>2. SameDevices(D, C)
  BY <1>1 DEF SameDevices, Device, NULL
<1> HIDE DEF C
<1>3. LinkDevice(C, q, x)[x].ir_dev # NULL
  <2>1. /\ C \in [Id -> Device] /\ DrvOf(C[x].mac) = IrDrv
        /\ RemotesFor(C, q, x) # {}
    BY <1>1, <1>2, RoomKept DEF SameDevices
  <2> QED BY <1>1, <2>1, LinkDeviceFinds
<1>4. CASE TypeOf(D[p].mac) # "remote"
  BY <1>4 DEF UpdateLink
<1>5. CASE TypeOf(D[p].mac) = "remote"
  <2>1. UpdateLink(D, q, p)[x]
          = IF D[x].ir_dev = p THEN LinkDevice(C, q, x)[x] ELSE D[x]
    BY <1>1, <1>5 DEF UpdateLink, C
  <2> QED BY <2>1, <1>3
<1> QED BY <1>4, <1>5

LinksFull(D, q) ==
  \A x \in ToSet(q) :
    DrvOf(D[x].mac) = IrDrv /\ RemotesFor(D, q, x) # {} => D[x].ir_dev # NULL

(* After an online device d of q was linked and the others were told, all  *)
(* have remotes, if those that had a choice besides d did.                 *)
LEMMA RelinkFull ==
  ASSUME NEW D \in [Id -> Device], NEW q \in Seq(Id), NEW d \in ToSet(q),
         D[d].state = "online",
         \A x \in ToSet(q) \ {d} :
           DrvOf(D[x].mac) = IrDrv /\ RemotesFor(D, q, x) \ {d} # {}
             => D[x].ir_dev # NULL,
         NEW E, E = UpdateLink(LinkDevice(D, q, d), q, d)
  PROVE  LinksFull(E, q)
<1> DEFINE L == LinkDevice(D, q, d)
<1>1. ToSet(q) \subseteq Id /\ d \in Id
  BY ToSetProps
<1>2. SameDevices(D, L) /\ \A x \in Id \ {d} : L[x] = D[x]
  BY <1>1, LinkDeviceProps
<1>3. DrvOf(D[d].mac) = IrDrv /\ RemotesFor(D, q, d) # {} => L[d].ir_dev # NULL
  BY <1>1, LinkDeviceFinds
<1> HIDE DEF L
<1>4. /\ L \in [Id -> Device] /\ L[d].state = "online" /\ E = UpdateLink(L, q, d)
      /\ L[d].mac = D[d].mac
  BY <1>1, <1>2 DEF SameDevices, L
<1>5. /\ SameDevices(L, E)
      /\ \A x \in Id : E[x].ir_dev = L[x].ir_dev \/ E[x].ir_dev = d
  BY <1>1, <1>4, UpdateLinkProps
<1>6. SameDevices(D, E)
  BY <1>2, <1>5 DEF SameDevices
<1>7. d # NULL
  BY <1>1, RegistryAssumption DEF Id, NULL
<1> SUFFICES ASSUME NEW x \in ToSet(q), DrvOf(E[x].mac) = IrDrv,
                    RemotesFor(E, q, x) # {}
             PROVE  E[x].ir_dev # NULL
  BY DEF LinksFull
<1>8. x \in Id /\ DrvOf(D[x].mac) = IrDrv /\ RemotesFor(D, q, x) # {}
  <2>1. x \in Id /\ E[x].mac = D[x].mac
    BY <1>1, <1>6 DEF SameDevices
  <2> QED BY <2>1, <1>6, RoomKept
<1>9. CASE x = d
  BY <1>3, <1>5, <1>7, <1>8, <1>9
<1>10. CASE x # d /\ RemotesFor(D, q, x) \ {d} # {}
  BY <1>2, <1>5, <1>7, <1>8, <1>10
<1>11. CASE x # d /\ RemotesFor(D, q, x) = {d}
  <2>1. SameRoom(D, x, d) /\ TypeOf(D[d].mac) = "remote"
    BY <1>11 DEF RemotesFor
  <2>2. SameRoom(L, d, x)
    BY <2>1, <1>1, <1>2, <1>8 DEF SameRoom, SameDevices
  <2>3. E[x].ir_dev = d
    BY <2>1, <2>2, <1>1, <1>4, <1>11, RemoteServesRoom
  <2> QED BY <2>3, <1>7
<1> QED BY <1>8, <1>9, <1>10, <1>11

FullInv == LinkInv /\ LinkComplete

LEMMA JoinFull ==
  ASSUME FullInv, NEW d \in Id, d \notin ToSet(queue),
         NEW D \in [Id -> Device], D[d].state = "online",
         \A x \in Id \ {d} : D[x] = dev[x],
         Join(d, D, queue)
  PROVE  LinkComplete'
<1>1. queue \in Seq(Id) /\ ToSet(queue) \in SUBSET Id
  BY QueuesTyped DEF FullInv, LinkInv
<1>2. /\ queue' = Append(queue, d)
      /\ dev' = UpdateLink(LinkDevice(D, queue', d), queue', d)
  BY DEF Join
<1>3. queue' \in Seq(Id) /\ ToSet(queue') = ToSet(queue) \cup {d}
  BY <1>1, <1>2, PushTail
<1>4. ASSUME NEW x \in ToSet(queue') \ {d}, DrvOf(D[x].mac) = IrDrv,
             RemotesFor(D, queue', x) \ {d} # {}
      PROVE  D[x].ir_dev # NULL
  <2>1. x \in ToSet(queue) /\ x \in Id /\ D[x] = dev[x]
    BY <1>1, <1>3, <1>4
  <2>2. PICK r \in ToSet(queue) : r # d /\ r \in RemotesFor(D, queue', x)
    BY <1>3, <1>4 DEF RemotesFor
  <2>3. r \in RemotesFor(dev, queue, x)
    <3>1. D[r] = dev[r]
      BY <1>1, <2>2
    <3> QED BY <2>1, <2>2, <3>1 DEF RemotesFor, SameRoom
  <2> QED BY <2>1, <2>3, <1>4 DEF FullInv, LinkComplete
<1>5. d \in ToSet(queue')
  BY <1>3
<1>6. LinksFull(dev', queue')
  BY <1>2, <1>3, <1>4, <1>5, RelinkFull
<1> QED BY <1>6 DEF LinksFull, LinkComplete

LEMMA NewDeviceFull ==
  ASSUME FullInv, boot # "load", NEW w \in Owner, NEW loc \in Location \cup {NoLoc},
         NewDevice(w, loc)
  PROVE  LinkComplete'
<1> DEFINE D == [dev EXCEPT ![dev_id] = [mac |-> MacOf(w), loc |-> loc,
                                         state |-> "online", ir_dev |-> NULL]]
<1>1. dev_id \in Id /\ dev_id \notin ToSet(queue)
  BY NewDeviceAdds DEF FullInv, LinkInv, Registered
<1>2. dev \in [Id -> Device]
  BY DEF FullInv, LinkInv, IdInv, TypeOK
<1>3. /\ D \in [Id -> Device] /\ D[dev_id].state = "online"
      /\ \A x \in Id \ {dev_id} : D[x] = dev[x]
  BY <1>1, <1>2, MacIsMac DEF Device
<1>4. Join(dev_id, D, queue)
  BY DEF NewDevice
<1> HIDE DEF D
<1> QED BY <1>1, <1>3, <1>4, JoinFull

LEMMA MoveOnlineFull ==
  ASSUME FullInv, NEW i \in 1..Len(offq),
         Join(offq[i], [dev EXCEPT ![offq[i]].state = "online"], queue)
  PROVE  LinkComplete'
<1> DEFINE d == offq[i]
           D == [dev EXCEPT ![d].state = "online"]
<1>1. dev \in [Id -> Device] /\ d \in Id /\ d \notin ToSet(queue)
  BY QueuesTyped, ToSetProps DEF FullInv, LinkInv
<1>2. /\ D \in [Id -> Device] /\ D[d].state = "online"
      /\ \A x \in Id \ {d} : D[x] = dev[x]
  BY <1>1 DEF Device
<1>3. Join(d, D, queue)
  OBVIOUS
<1> HIDE DEF D, d
<1> QED BY <1>1, <1>2, <1>3, JoinFull

LEMMA ReturnFull ==
  ASSUME FullInv, NEW w \in Owner, Return(w)
  PROVE  LinkComplete'
<1>1. PICK e \in ToSet(offq) : e \in Offline(MacOf(w))
  BY DEF Return, Offline
<1>2. FirstAt(offq, Offline(MacOf(w))) \in 1..Len(offq)
  BY <1>1, FirstAtProps, QueuesTyped DEF FullInv, LinkInv
<1> QED BY <1>2, MoveOnlineFull DEF Return

LEMMA DevOfflineFull ==
  ASSUME FullInv, NEW m \in Wifi \cup Zigbee, DevOffline(m)
  PROVE  LinkComplete'
<1> DEFINE S == {d \in ToSet(queue) : dev[d].mac = m}
           i == FirstAt(queue, S)
           d == queue[i]
           q == RemoveAt(queue, i)
           D == [dev EXCEPT ![d].state = "offline"]
<1>1. PICK e \in ToSet(queue) : e \in S
  BY DEF DevOffline, IsOnline
<1>2. queue' = q /\ dev' = UpdateLink(D, q, d)
  BY DEF DevOffline
<1>3. /\ d \in ToSet(queue) /\ d \in Id
      /\ q \in Seq(Id) /\ ToSet(q) = ToSet(queue) \ {d}
  BY <1>1, LeaveProps DEF FullInv, LinkInv
<1> HIDE DEF S, i, d, q
<1>4. dev \in [Id -> Device] /\ ToSet(queue) \in SUBSET Id
  BY QueuesTyped DEF FullInv, LinkInv
<1>5. /\ D \in [Id -> Device] /\ D[d].state = "offline"
      /\ \A x \in Id \ {d} : D[x] = dev[x]
  BY <1>3, <1>4 DEF Device
<1> HIDE DEF D
<1>6. SameDevices(D, dev')
  BY <1>2, <1>3, <1>5, UpdateLinkProps
<1> SUFFICES ASSUME NEW x \in ToSet(q), DrvOf(dev'[x].mac) = IrDrv,
                    RemotesFor(dev', q, x) # {}
             PROVE  dev'[x].ir_dev # NULL
  BY <1>2 DEF LinkComplete
<1>7. x \in ToSet(queue) /\ x \in Id /\ x # d /\ D[x] = dev[x]
  BY <1>3, <1>4, <1>5
<1>8. DrvOf(D[x].mac) = IrDrv /\ RemotesFor(D, q, x) # {}
  BY <1>3, <1>6, <1>7, RoomKept DEF SameDevices
<1>9. RemotesFor(dev, queue, x) # {}
  <2>1. PICK r \in ToSet(q) : r \in RemotesFor(D, q, x)
    BY <1>8 DEF RemotesFor
  <2>2. r \in ToSet(queue) /\ D[r] = dev[r]
    BY <2>1, <1>3, <1>4, <1>5
  <2>3. r \in RemotesFor(dev, queue, x)
    BY <2>1, <2>2, <1>7 DEF RemotesFor, SameRoom
  <2> QED BY <2>3
<1>10. D[x].ir_dev # NULL
  BY <1>7, <1>8, <1>9 DEF FullInv, LinkComplete
<1> QED BY <1>2, <1>3, <1>5, <1>7, <1>8, <1>10, RemoteIsReplaced

LEMMA DevRemovedFull ==
  ASSUME FullInv, NEW d \in Id, DevRemoved(d)
  PROVE  LinkComplete'
<1> DEFINE q == RemoveAt(queue, FirstAt(queue, {d}))
           D == [dev EXCEPT ![d].state = "offline"]
<1>1. /\ d \in ToSet(queue) /\ DrvOf(dev[d].mac) = IrDrv
      /\ queue' = q /\ dev' = [UpdateLink(D, q, d) EXCEPT ![d] = Blank]
  BY DEF DevRemoved
<1>2. ToSet(q) = ToSet(queue) \ {d}
  <2> DEFINE i == FirstAt(queue, {d})
  <2>1. queue[i] \in {d} /\ ToSet(q) = ToSet(queue) \ {queue[i]}
    BY <1>1, LeaveProps DEF FullInv, LinkInv
  <2> QED BY <2>1
<1> HIDE DEF q
<1>3. dev \in [Id -> Device] /\ ToSet(queue) \in SUBSET Id
  BY QueuesTyped DEF FullInv, LinkInv
<1>4. \A x \in Id \ {d} : D[x] = dev[x]
  BY <1>3
<1>5. D[d].mac = dev[d].mac /\ D \in [Id -> Device]
  BY <1>3 DEF Device
<1> HIDE DEF D
<1>6. UpdateLink(D, q, d) = D
  BY <1>1, <1>5, InfraredIsNoRemote DEF UpdateLink
<1>7. \A x \in Id \ {d} : dev'[x] = dev[x]
  BY <1>1, <1>4, <1>5, <1>6
<1> SUFFICES ASSUME NEW x \in ToSet(q), DrvOf(dev'[x].mac) = IrDrv,
                    RemotesFor(dev', q, x) # {}
             PROVE  dev'[x].ir_dev # NULL
  BY <1>1 DEF LinkComplete
<1>8. x \in ToSet(queue) /\ dev'[x] = dev[x]
  BY <1>2, <1>3, <1>7
<1>9. PICK r \in ToSet(q) : r \in RemotesFor(dev', q, x)
  BY DEF RemotesFor
<1>10. r \in ToSet(queue) /\ dev'[r] = dev[r]
  BY <1>2, <1>3, <1>7, <1>9
<1>11. r \in RemotesFor(dev, queue, x)
  BY <1>8, <1>9, <1>10 DEF RemotesFor, SameRoom
<1> QED BY <1>8, <1>11 DEF FullInv, LinkComplete

LEMMA SetDevCfgFull ==
  ASSUME FullInv, NEW d \in Id, NEW loc \in Location \cup {NoLoc}, SetDevCfg(d, loc)
  PROVE  LinkComplete'
<1> DEFINE D == [dev EXCEPT ![d].loc = loc]
<1>1. /\ d \in ToSet(queue) /\ queue' = queue
      /\ dev' = UpdateLink(LinkDevice(D, queue, d), queue, d)
  BY DEF SetDevCfg
<1>2. dev \in [Id -> Device] /\ queue \in Seq(Id) /\ ToSet(queue) \in SUBSET Id
  BY QueuesTyped DEF FullInv, LinkInv
<1>3. /\ D \in [Id -> Device] /\ D[d].state = dev[d].state
      /\ \A x \in Id \ {d} : D[x] = dev[x]
  BY <1>2 DEF Device
<1> HIDE DEF D
<1>4. D[d].state = "online"
  BY <1>1, <1>3 DEF FullInv, LinkInv, StateMatchesQueue
<1>5. ASSUME NEW x \in ToSet(queue) \ {d}, DrvOf(D[x].mac) = IrDrv,
             RemotesFor(D, queue, x) \ {d} # {}
      PROVE  D[x].ir_dev # NULL
  <2>1. D[x] = dev[x]
    BY <1>2, <1>3
  <2>2. PICK r \in ToSet(queue) : r # d /\ r \in RemotesFor(D, queue, x)
    BY <1>5 DEF RemotesFor
  <2>3. r \in RemotesFor(dev, queue, x)
    <3>1. D[r] = dev[r]
      BY <1>2, <1>3, <2>2
    <3> QED BY <2>1, <2>2, <3>1 DEF RemotesFor, SameRoom
  <2> QED BY <2>1, <2>3, <1>5 DEF FullInv, LinkComplete
<1>6. LinksFull(dev', queue')
  BY <1>1, <1>2, <1>3, <1>4, <1>5, RelinkFull
<1> QED BY <1>6 DEF LinksFull, LinkComplete

LEMMA FullInvInit == Init => FullInv
<1> SUFFICES ASSUME Init PROVE FullInv
  OBVIOUS
<1>1. ToSet(<<>>) = {}
  BY DEF ToSet
<1> QED BY <1>1, LinkInvInit DEF Init, FullInv, LinkComplete

LEMMA FullInvNext == FullInv /\ [Next]_vars => FullInv'
<1> SUFFICES ASSUME FullInv, [Next]_vars PROVE LinkComplete'
  BY LinkInvNext DEF FullInv
<1>1. ASSUME UNCHANGED <<queue, dev>>
      PROVE  LinkComplete'
  BY <1>1 DEF FullInv, LinkComplete
<1>2. ASSUME queue' = <<>>
      PROVE  LinkComplete'
  <2>1. ToSet(<<>>) = {}
    BY DEF ToSet
  <2> QED BY <1>2, <2>1 DEF LinkComplete
<1>3. CASE LoadConfig
  BY <1>2, <1>3 DEF LoadConfig, FullInv, LinkInv, IdInv
<1>4. CASE RecoverStep
  <2>1. rid \in Nat /\ Len(offq) \in Nat /\ rid < Len(offq)
    BY <1>4, QueuesTyped, LenProperties
       DEF RecoverStep, Recovered, FullInv, LinkInv, IdInv, TypeOK
  <2>2. rid + 1 \in 1..Len(offq)
    BY <2>1
  <2>3. CASE Join(offq[rid + 1], [dev EXCEPT ![offq[rid + 1]].state = "online"],
                  queue)
    BY <2>2, <2>3, MoveOnlineFull
  <2>4. CASE UNCHANGED <<queue, offq, dev>>
    BY <2>4, <1>1
  <2> QED BY <1>4, <2>3, <2>4 DEF RecoverStep, Recovered
<1>5. CASE InitDrivers \/ RecoverSpin \/ RecoverDone \/ UNCHANGED vars
  BY <1>1, <1>5 DEF InitDrivers, RecoverSpin, RecoverDone, registry, vars
<1>6. CASE \/ \E m \in Wifi \cup Zigbee : Register(m)
           \/ \E a \in Appliance, loc \in Location \cup {NoLoc} : AddIr(a, loc)
  BY <1>6, Arrives, NewDeviceFull, ReturnFull DEF FullInv, LinkInv
<1>7. CASE SetScene
  BY <1>1, <1>7 DEF SetScene, registry
<1>8. ASSUME NEW m \in Wifi \cup Zigbee, DevOffline(m)
      PROVE  LinkComplete'
  BY <1>8, DevOfflineFull
<1>9. ASSUME NEW d \in Id, DevRemoved(d)
      PROVE  LinkComplete'
  BY <1>9, DevRemovedFull
<1>10. ASSUME NEW d \in Id, NEW loc \in Location \cup {NoLoc}, SetDevCfg(d, loc)
       PROVE  LinkComplete'
  BY <1>10, SetDevCfgFull
<1>11. ASSUME NEW f, Restart(f)
       PROVE  LinkComplete'
  BY <1>2, <1>11 DEF Restart
<1> QED BY <1>3, <1>4, <1>5, <1>6, <1>7, <1>8, <1>9, <1>10, <1>11
        DEF Next, Crash, CrashSaving, CrashUnsaved

(* No order of joining, leaving and moving leaves an online infrared       *)
(* device that shares its room with an online remote without a remote.     *)
THEOREM LinksAreComplete == Spec => []LinkComplete
<1>1. FullInv => LinkComplete
  BY DEF FullInv
<1> QED BY <1>1, FullInvInit, FullInvNext, PTL DEF Spec

=============================================================================
