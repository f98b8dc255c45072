---------------------------- MODULE ThreadsProofs ----------------------------
(***************************************************************************)
(* Proofs about the threads of core_daemon: RegistryThreads, for any       *)
(* threads, devices and file, and, at the end, CzTransport.                *)
(***************************************************************************)
EXTENDS RegistryThreads, CzTransport, QueueFacts, FiniteSetTheorems

Macs == Radio \cup {ZeroMac}
Place == {"idle", "pop", "alloc", "push", "list", "dirty", "queue", "offq", "open", "close"}
ThreadType == [at : Place, mac : Macs, id : 0..MaxId, new : BOOLEAN,
               pos : Nat, len : Nat, acc : Seq(Id)]

(* What a thread that has found or made a device knows of it.              *)
HasDevice(t) == th[t].at \in {"pop", "push", "list"} \/ th[t].new

ThreadOK(t) ==
  /\ th[t].at = "idle" => th[t] = Free
  /\ th[t].at \in {"pop", "alloc"} => ~th[t].new
  /\ th[t].at = "dirty" => th[t].new
  /\ th[t].at \in {"pop", "alloc", "push"} => th[t].acc = <<>>
  /\ ~HasDevice(t) /\ th[t].at # "alloc" => th[t].mac = ZeroMac
  /\ HasDevice(t) => th[t].id \in 1..(dev_id - 1) /\ mac[th[t].id] = th[t].mac

ThreadInv == th \in [Thread -> ThreadType] /\ \A t \in Thread : ThreadOK(t)

TypeInv ==
  /\ queue \in Seq(1..(dev_id - 1)) /\ offq \in Seq(1..(dev_id - 1))
  /\ dev_id \in 1..(MaxId + 1)
  /\ mac \in [Id -> Macs]
  /\ table \in SUBSET [mac : Radio, id : 1..(dev_id - 1)]
  /\ \A e \in table : mac[e.id] = e.mac
  /\ stale \in SUBSET Thread /\ mixed \in BOOLEAN /\ clash \in BOOLEAN
  /\ gone \subseteq 1..(dev_id - 1)
  /\ ThreadInv

-----------------------------------------------------------------------------
(* The queues. *)

LEMMA FirstIndex ==
  ASSUME NEW S, NEW q \in Seq(S), NEW d \in ToSet(q)
  PROVE  IndexOf(q, d) \in 1..Len(q) /\ q[IndexOf(q, d)] = d
<1> DEFINE T == {i \in 1..Len(q) : q[i] = d}
<1>1. Len(q) \in Nat /\ DOMAIN q = 1..Len(q) /\ T \in SUBSET Nat /\ T # {}
  BY ToSetProps
<1>2. PICK i \in T : \A j \in T : i <= j
  BY <1>1, LeastNat
<1>3. i \in DOMAIN q /\ q[i] = d /\ \A j \in 1..(i - 1) : q[j] # d
  BY <1>1, <1>2
<1> QED BY <1>1, <1>3 DEF IndexOf

LEMMA LongerSeq ==
  ASSUME NEW n \in Nat, NEW q \in Seq(1..n)
  PROVE  q \in Seq(1..(n + 1))
<1>1. Len(q) \in Nat /\ q \in [1..Len(q) -> 1..n]
  OBVIOUS
<1>2. \A d \in 1..n : d \in 1..(n + 1)
  OBVIOUS
<1>3. q \in [1..Len(q) -> 1..(n + 1)]
  BY <1>1, <1>2
<1> QED BY <1>1, <1>3

-----------------------------------------------------------------------------
(* What each step does to the threads. *)

LEMMA FreeFields ==
  /\ Free.at = "idle" /\ ~Free.new /\ Free.acc = <<>> /\ Free.mac = ZeroMac /\ Free.id = 0
  /\ ZeroMac \in Macs /\ Free \in ThreadType
BY ThreadsAssumption DEF Free, ThreadType, Place, Macs

Others(t) == \A u \in Thread : u # t => th'[u] = th[u]

LEMMA FindEffect ==
  ASSUME TypeInv, NEW t \in Thread, NEW m \in Macs, FindOffline(t, m)
  PROVE  /\ th' \in [Thread -> ThreadType] /\ Others(t)
         /\ th[t] = Free /\ th'[t].at \in {"pop", "alloc"}
         /\ th'[t].mac = m /\ ~th'[t].new /\ th'[t].acc = <<>>
         /\ th'[t].at = "pop" =>
              /\ th'[t].pos \in DOMAIN offq /\ th'[t].id = offq[th'[t].pos]
              /\ mac[th'[t].id] = m
<1>1. th[t] = Free /\ th \in [Thread -> ThreadType]
  BY DEF TypeInv, ThreadInv, ThreadOK, FindOffline
<1>2. th[t] \in ThreadType /\ th[t].at = "idle" /\ ~th[t].new /\ th[t].acc = <<>>
  BY <1>1, FreeFields
<1>3. ASSUME NEW i \in DOMAIN offq, mac[offq[i]] = m, th' = [th EXCEPT ![t] = Found(t, m, i)]
      PROVE  /\ th' \in [Thread -> ThreadType] /\ Others(t) /\ th'[t].at = "pop"
             /\ th'[t].mac = m /\ ~th'[t].new /\ th'[t].acc = <<>>
             /\ th'[t].pos = i /\ th'[t].id = offq[i]
  <2>1. i \in Nat /\ offq[i] \in 1..(dev_id - 1) /\ offq[i] \in 0..MaxId
    BY ThreadsAssumption DEF TypeInv
  <2> QED BY <1>1, <1>2, <1>3, <2>1 DEF Found, ThreadType, Place, Others
<1>4. ASSUME th' = [th EXCEPT ![t].at = "alloc", ![t].mac = m]
      PROVE  /\ th' \in [Thread -> ThreadType] /\ Others(t) /\ th'[t].at = "alloc"
             /\ th'[t].mac = m /\ ~th'[t].new /\ th'[t].acc = <<>>
  BY <1>1, <1>2, <1>4 DEF ThreadType, Place, Others
<1>5. CASE th' = [th EXCEPT ![t].at = "alloc", ![t].mac = m]
  BY <1>1, <1>4, <1>5
<1>6. CASE \E i \in DOMAIN offq :
             /\ mac[offq[i]] = m /\ \A j \in 1..(i - 1) : mac[offq[j]] # m
             /\ th' = [th EXCEPT ![t] = Found(t, m, i)]
  <2>1. PICK i \in DOMAIN offq : mac[offq[i]] = m /\ th' = [th EXCEPT ![t] = Found(t, m, i)]
    BY <1>6
  <2> QED BY <1>1, <1>3, <2>1
<1> QED BY <1>5, <1>6 DEF FindOffline

LEMMA KnownEffect ==
  ASSUME TypeInv, NEW i \in DOMAIN offq, FindKnown(i)
  PROVE  /\ Main \in Thread /\ th' \in [Thread -> ThreadType] /\ Others(Main)
         /\ th[Main] = Free /\ th'[Main].at = "pop" /\ th'[Main].mac = ZeroMac
         /\ ~th'[Main].new /\ th'[Main].acc = <<>>
         /\ th'[Main].pos = i /\ th'[Main].id = offq[i] /\ mac[offq[i]] = ZeroMac
<1>1. th[Main] = Free /\ th \in [Thread -> ThreadType] /\ Main \in Thread
  BY DEF TypeInv, ThreadInv, ThreadOK, FindKnown, Thread
<1>2. th[Main] \in ThreadType /\ ~th[Main].new /\ th[Main].acc = <<>>
  BY <1>1, FreeFields
<1>3. i \in Nat /\ offq[i] \in 1..(dev_id - 1) /\ offq[i] \in 0..MaxId /\ ZeroMac \in Macs
  BY ThreadsAssumption DEF TypeInv, Macs
<1>4. th' = [th EXCEPT ![Main] = Found(Main, ZeroMac, i)] /\ mac[offq[i]] = ZeroMac
  BY DEF FindKnown
<1> QED BY <1>1, <1>2, <1>3, <1>4 DEF Found, ThreadType, Place, Others

LEMMA AllocEffect ==
  ASSUME TypeInv, NEW t \in Thread, Alloc(t)
  PROVE  /\ th' \in [Thread -> ThreadType] /\ Others(t) /\ dev_id \in Id
         /\ th[t].at = "alloc" /\ th'[t].at = "push" /\ th'[t].id = dev_id /\ th'[t].new
         /\ th'[t].mac = th[t].mac /\ th'[t].acc = th[t].acc
<1>1. th \in [Thread -> ThreadType] /\ dev_id \in Id /\ dev_id \in 0..MaxId
  BY ThreadsAssumption DEF TypeInv, ThreadInv, Alloc, Id
<1>2. /\ th' = [th EXCEPT ![t].at = "push", ![t].id = dev_id, ![t].new = TRUE]
      /\ th[t].at = "alloc" /\ th[t] \in ThreadType
  BY <1>1 DEF Alloc
<1>3. [th[t] EXCEPT !.at = "push", !.id = dev_id, !.new = TRUE] \in ThreadType
  BY <1>1, <1>2 DEF ThreadType, Place
<1>4. /\ th'[t] = [th[t] EXCEPT !.at = "push", !.id = dev_id, !.new = TRUE]
      /\ \A u \in Thread \ {t} : th'[u] = th[u]
      /\ th' \in [Thread -> ThreadType]
  BY <1>1, <1>2, <1>3
<1>5. Others(t)
  BY <1>4 DEF Others
<1> QED BY <1>1, <1>2, <1>4, <1>5 DEF ThreadType

(* Steps that only take a thread to another place. *)
LEMMA AtEffect ==
  ASSUME TypeInv, NEW t \in Thread, NEW p \in Place, th' = [th EXCEPT ![t].at = p]
  PROVE  /\ th' \in [Thread -> ThreadType] /\ Others(t)
         /\ th'[t].at = p /\ th'[t].id = th[t].id /\ th'[t].new = th[t].new
         /\ th'[t].mac = th[t].mac /\ th'[t].acc = th[t].acc
<1>1. th \in [Thread -> ThreadType]
  BY DEF TypeInv, ThreadInv
<1> QED BY <1>1 DEF ThreadType, Place, Others

LEMMA StartSaveEffect ==
  ASSUME TypeInv, NEW t \in Thread, StartSave(t)
  PROVE  /\ th' \in [Thread -> ThreadType] /\ Others(t)
         /\ th[t].at \in {"dirty", "idle"}
         /\ th'[t].at = "queue" /\ th'[t].pos = 1 /\ th'[t].len = Len(queue)
         /\ th'[t].id = th[t].id /\ th'[t].new = th[t].new /\ th'[t].mac = th[t].mac
         /\ th'[t].acc = th[t].acc
<1>1. th \in [Thread -> ThreadType] /\ Len(queue) \in Nat
  BY DEF TypeInv, ThreadInv
<1> QED BY ZenonT(60), <1>1 DEF StartSave, ThreadType, Place, Others

LEMMA ListedType ==
  ASSUME NEW r \in ThreadType
  PROVE  [r EXCEPT !.at = "list", !.pos = 0, !.len = 0, !.acc = <<>>] \in ThreadType
<1>0. <<>> \in Seq(Id)
  OBVIOUS
<1>1. PICK e \in Seq(Id) : e = <<>>
  BY <1>0, Zenon
<1>2. [r EXCEPT !.at = "list", !.pos = 0, !.len = 0, !.acc = e] \in ThreadType
  BY DEF ThreadType, Place
<1> QED BY <1>1, <1>2, Zenon

LEMMA ScanEffect ==
  ASSUME TypeInv, NEW t \in Thread, NEW q \in Seq(1..(dev_id - 1)), NEW at \in {"queue", "offq"},
         NEW next \in {"offq", "open"}, NEW len \in Nat, Scan(t, q, at, next, len)
  PROVE  /\ th' \in [Thread -> ThreadType] /\ Others(t) /\ th[t].at = at
         /\ th'[t].id = th[t].id /\ th'[t].new = th[t].new /\ th'[t].mac = th[t].mac
         /\ \/ /\ th[t].pos > th[t].len /\ th'[t].at = next /\ th'[t].pos = 1 /\ th'[t].len = len
               /\ th'[t].acc = th[t].acc
            \/ /\ th[t].pos <= th[t].len /\ th'[t].at = at /\ th'[t].pos = th[t].pos + 1
               /\ th'[t].len = th[t].len /\ th'[t].acc = Peeked(th[t].acc, q, th[t].pos)
<1>1. th[t] \in ThreadType /\ th \in [Thread -> ThreadType]
  BY DEF TypeInv, ThreadInv
<1>2. th[t].pos \in Nat /\ th[t].len \in Nat /\ th[t].acc \in Seq(Id)
  BY <1>1 DEF ThreadType
<1>3. CASE th[t].pos > th[t].len
  <2>1. th' = [th EXCEPT ![t].at = next, ![t].pos = 1, ![t].len = len] /\ th[t].at = at
    BY <1>2, <1>3 DEF Scan
  <2>2. next \in Place
    BY DEF Place
  <2>3. th' \in [Thread -> ThreadType]
    BY <1>1, <2>1, <2>2 DEF ThreadType
  <2>4. /\ th'[t].id = th[t].id /\ th'[t].new = th[t].new /\ th'[t].mac = th[t].mac /\ Others(t)
        /\ th'[t].at = next /\ th'[t].pos = 1 /\ th'[t].len = len /\ th'[t].acc = th[t].acc
    BY <1>1, <2>1 DEF ThreadType, Others
  <2> QED BY <1>3, <2>1, <2>3, <2>4
<1>4. CASE ~(th[t].pos > th[t].len)
  <2>1. PICK a \in Seq(Id) : a = Peeked(th[t].acc, q, th[t].pos)
    <3>1. th[t].pos \in DOMAIN q => q[th[t].pos] \in Id
      BY ThreadsAssumption DEF TypeInv, Id
    <3>2. th[t].pos \in DOMAIN q => Append(th[t].acc, q[th[t].pos]) \in Seq(Id)
      BY <1>2, <3>1
    <3> QED BY <1>2, <3>2 DEF Peeked
  <2>n. PICK n \in Nat : n = th[t].pos + 1
    BY <1>2
  <2>2. th' = [th EXCEPT ![t].pos = n, ![t].acc = a] /\ th[t].at = at
    BY <1>2, <1>4, <2>1, <2>n DEF Scan
  <2>3. th' \in [Thread -> ThreadType]
    BY <1>1, <1>2, <2>1, <2>2 DEF ThreadType
  <2>4. /\ th'[t].id = th[t].id /\ th'[t].new = th[t].new /\ th'[t].mac = th[t].mac /\ Others(t)
        /\ th'[t].at = at /\ th'[t].pos = n /\ th'[t].len = th[t].len
        /\ th'[t].acc = a
    BY <1>1, <2>2 DEF ThreadType, Others
  <2> QED BY <1>2, <1>4, <2>1, <2>n, <2>2, <2>3, <2>4
<1> QED BY <1>3, <1>4

LEMMA CloseEffect ==
  ASSUME TypeInv, NEW t \in Thread, CloseFile(t)
  PROVE  /\ th' \in [Thread -> ThreadType] /\ Others(t) /\ th[t].at = "close"
         /\ \/ /\ th[t].new /\ th'[t].at = "list" /\ th'[t].id = th[t].id
               /\ th'[t].new /\ th'[t].mac = th[t].mac /\ th'[t].acc = <<>>
            \/ ~th[t].new /\ th'[t] = Free
<1>1. th[t] \in ThreadType /\ th \in [Thread -> ThreadType]
  BY DEF TypeInv, ThreadInv
<1>2. CASE th[t].new
  <2>1. th' = [th EXCEPT ![t] = [@ EXCEPT !.at = "list", !.pos = 0, !.len = 0, !.acc = <<>>]]
    BY <1>1, <1>2 DEF CloseFile
  <2>2. [th[t] EXCEPT !.at = "list", !.pos = 0, !.len = 0, !.acc = <<>>] \in ThreadType
    BY <1>1, ListedType
  <2> QED BY <1>1, <1>2, <2>1, <2>2 DEF CloseFile, ThreadType, Others
<1>3. CASE ~th[t].new
  <2>1. th' = [th EXCEPT ![t] = Free]
    BY <1>1, <1>3 DEF CloseFile
  <2> QED BY <1>1, <1>3, <2>1, FreeFields DEF CloseFile, Others
<1> QED BY <1>2, <1>3

-----------------------------------------------------------------------------
(* The type invariant. *)

(* A step of one thread, after which it is as it should be.                *)
LEMMA ThreadStep ==
  ASSUME TypeInv, NEW t \in Thread, th' \in [Thread -> ThreadType], Others(t),
         dev_id' \in Nat, dev_id' >= dev_id, \A d \in 1..(dev_id - 1) : mac'[d] = mac[d],
         ThreadOK(t)'
  PROVE  ThreadInv'
<1>1. ASSUME NEW u \in Thread, u # t
      PROVE  ThreadOK(u)'
  <2>1. th'[u] = th[u] /\ ThreadOK(u) /\ dev_id \in Nat
    BY <1>1 DEF Others, TypeInv, ThreadInv
  <2>2. \A d \in 1..(dev_id - 1) : d \in 1..(dev_id' - 1)
    BY <2>1
  <2> QED BY <2>1, <2>2 DEF ThreadOK, HasDevice
<1> QED BY <1>1 DEF ThreadInv

LEMMA Counter ==
  ASSUME TypeInv
  PROVE  /\ MaxId \in Nat /\ dev_id \in Nat /\ dev_id - 1 \in Nat /\ dev_id - 1 <= MaxId
         /\ \A d \in 1..(dev_id - 1) : d \in Id /\ d \in Nat \ {0}
BY ThreadsAssumption DEF TypeInv, Id

LEMMA InitType == Init => TypeInv
<1> SUFFICES ASSUME Init PROVE TypeInv
  OBVIOUS
<1>1. /\ Known \in Seq(Macs) /\ Len(Known) \in Nat /\ DOMAIN Known = 1..Len(Known)
      /\ dev_id = Len(Known) + 1 /\ dev_id - 1 = Len(Known) /\ MaxId \in Nat
      /\ Len(Known) <= MaxId
  BY ThreadsAssumption DEF Init, Macs
<1>2. offq \in Seq(1..(dev_id - 1))
  BY <1>1 DEF Init
<1>3. queue \in Seq(1..(dev_id - 1))
  BY DEF Init
<1>4. mac \in [Id -> Macs]
  BY <1>1, FreeFields DEF Init
<1>5. ThreadInv
  BY FreeFields DEF Init, ThreadInv, ThreadOK, HasDevice
<1>6. dev_id \in 1..(MaxId + 1) /\ table = {} /\ stale = {} /\ gone = {}
      /\ mixed = FALSE /\ clash = FALSE
  BY <1>1 DEF Init
<1> QED BY <1>2, <1>3, <1>4, <1>5, <1>6 DEF TypeInv

LEMMA FindType ==
  ASSUME TypeInv, NEW t \in Thread, NEW m \in Macs, FindOffline(t, m)
  PROVE  TypeInv'
<1>1. UNCHANGED <<live, gone, stale, mixed, clash>>
  BY DEF FindOffline
<1>2. ThreadOK(t)'
  <2>1. th'[t].at = "pop" => th'[t].id \in 1..(dev_id - 1) /\ mac[th'[t].id] = m
    <3>1. \A i \in DOMAIN offq : offq[i] \in 1..(dev_id - 1)
      BY DEF TypeInv
    <3> QED BY <3>1, FindEffect
  <2> QED BY <1>1, <2>1, FindEffect DEF ThreadOK, HasDevice, live
<1>3. ThreadInv'
  BY <1>1, <1>2, FindEffect, Counter, ThreadStep DEF live
<1> QED BY <1>1, <1>3 DEF TypeInv, live

LEMMA KnownType ==
  ASSUME TypeInv, NEW i \in DOMAIN offq, FindKnown(i)
  PROVE  TypeInv'
<1>1. UNCHANGED <<live, history>>
  BY DEF FindKnown
<1>2. ThreadOK(Main)'
  <2>1. offq[i] \in 1..(dev_id - 1)
    BY DEF TypeInv
  <2> QED BY <1>1, <2>1, KnownEffect DEF ThreadOK, HasDevice, live
<1>3. ThreadInv'
  BY <1>1, <1>2, KnownEffect, Counter, ThreadStep DEF live
<1> QED BY <1>1, <1>3 DEF TypeInv, live, history

LEMMA AllocType ==
  ASSUME TypeInv, NEW t \in Thread, Alloc(t)
  PROVE  TypeInv'
<1>1. /\ UNCHANGED <<queue, offq, table, file, history>> /\ dev_id' = dev_id + 1
      /\ mac' = [mac EXCEPT ![dev_id] = th[t].mac]
  BY DEF Alloc
<1>2. PICK n \in Id : n = dev_id
  BY AllocEffect
<1>3. MaxId \in Nat /\ n \in Nat /\ n \in 1..n /\ dev_id' - 1 = n /\ dev_id' \in 1..(MaxId + 1) /\ n - 1 \in Nat
  BY <1>1, <1>2, ThreadsAssumption DEF Id
<1>4. th[t] \in ThreadType /\ th[t].mac \in Macs /\ mac \in [Id -> Macs]
  BY DEF TypeInv, ThreadInv, ThreadType
<1>5. mac' \in [Id -> Macs] /\ mac'[n] = th[t].mac /\ \A d \in 1..(n - 1) : mac'[d] = mac[d]
  <2>1. \A d \in 1..(n - 1) : d \in Id /\ d # n
    BY <1>3 DEF Id
  <2> QED BY <1>1, <1>2, <1>4, <2>1
<1>6. ThreadOK(t)'
  <2>1. /\ th'[t].at = "push" /\ th'[t].id = n /\ th'[t].new /\ th'[t].mac = th[t].mac
        /\ th'[t].acc = th[t].acc /\ th[t].acc = <<>>
    BY <1>2, AllocEffect DEF TypeInv, ThreadInv, ThreadOK
  <2>2. n \in 1..(dev_id' - 1) /\ mac'[n] = th'[t].mac
    BY <1>3, <1>5, <2>1
  <2> QED BY <2>1, <2>2 DEF ThreadOK, HasDevice
<1>7. ThreadInv'
  BY <1>1, <1>2, <1>3, <1>5, <1>6, AllocEffect, ThreadStep
<1>8. queue' \in Seq(1..(dev_id' - 1)) /\ offq' \in Seq(1..(dev_id' - 1))
  <2>1. queue \in Seq(1..(n - 1)) /\ offq \in Seq(1..(n - 1)) /\ (n - 1) + 1 = n
    BY <1>2, <1>3 DEF TypeInv
  <2> QED BY <1>1, <1>3, <2>1, LongerSeq
<1>9. \A d \in 1..(n - 1) : d \in 1..n
  BY <1>3
<1> QED BY <1>1, <1>2, <1>3, <1>5, <1>7, <1>8, <1>9 DEF TypeInv, history

LEMMA PopType ==
  ASSUME TypeInv, NEW t \in Thread, PopNth(t)
  PROVE  TypeInv'
<1>1. /\ UNCHANGED <<queue, mac, dev_id, table, file, gone, clash, doubled>>
      /\ th[t].at = "pop" /\ th' = [th EXCEPT ![t].at = "push"] /\ "push" \in Place
  BY DEF PopNth, Place
<1>2. ThreadOK(t)'
  BY <1>1, AtEffect DEF ThreadOK, HasDevice, TypeInv, ThreadInv
<1>u. UNCHANGED <<mac, dev_id>>
  BY DEF PopNth
<1>e. th' \in [Thread -> ThreadType] /\ Others(t)
  BY <1>1, AtEffect
<1>3. ThreadInv'
  BY <1>e, <1>u, <1>2, Counter, ThreadStep
<1>4. offq' \in Seq(1..(dev_id - 1))
  <2>1. CASE offq' = offq
    BY <2>1 DEF TypeInv
  <2>2. CASE th[t].pos \in DOMAIN offq /\ offq' = RemoveAt(offq, th[t].pos)
    <3>1. PICK p \in 1..Len(offq) : p = th[t].pos
      BY <2>2 DEF TypeInv
    <3> QED BY <2>2, <3>1, RemoveAtProps DEF TypeInv
  <2> QED BY <2>1, <2>2 DEF PopNth
<1>5. stale' \in SUBSET Thread /\ mixed' \in BOOLEAN
  BY DEF PopNth, TypeInv
<1> QED BY <1>1, <1>3, <1>4, <1>5 DEF TypeInv

LEMMA PushType ==
  ASSUME TypeInv, NEW t \in Thread, Push(t)
  PROVE  TypeInv'
<1>1. /\ UNCHANGED <<offq, mac, dev_id, table, file, gone, stale, mixed, clash, doubled>>
      /\ th[t].at = "push" /\ queue' = Append(queue, th[t].id)
  BY DEF Push
<1>2. PICK p \in Place : p = (IF th[t].new THEN "dirty" ELSE "list")
  BY DEF Place
<1>3. th' = [th EXCEPT ![t].at = p]
  BY <1>2 DEF Push
<1>4. ThreadOK(t)'
  BY <1>1, <1>2, <1>3, AtEffect DEF ThreadOK, HasDevice, TypeInv, ThreadInv
<1>u. UNCHANGED <<mac, dev_id>>
  BY DEF Push
<1>e. th' \in [Thread -> ThreadType] /\ Others(t)
  BY <1>3, AtEffect
<1>5. ThreadInv'
  BY <1>e, <1>u, <1>4, Counter, ThreadStep
<1>6. th[t].id \in 1..(dev_id - 1)
  BY <1>1 DEF TypeInv, ThreadInv, ThreadOK, HasDevice
<1> QED BY <1>1, <1>5, <1>6 DEF TypeInv

LEMMA ListType ==
  ASSUME TypeInv, NEW t \in Thread, List(t)
  PROVE  TypeInv'
<1>1. /\ UNCHANGED <<queue, offq, mac, dev_id, file, history>>
      /\ th[t].at = "list" /\ th' = [th EXCEPT ![t] = Free]
  BY DEF List
<1>2. th \in [Thread -> ThreadType] /\ th' \in [Thread -> ThreadType] /\ Others(t) /\ th'[t] = Free
  BY <1>1, FreeFields DEF TypeInv, ThreadInv, Others
<1>3. ThreadOK(t)'
  BY <1>2, FreeFields DEF ThreadOK, HasDevice
<1>4. ThreadInv'
  BY <1>1, <1>2, <1>3, Counter, ThreadStep
<1>5. table' \in SUBSET [mac : Radio, id : 1..(dev_id - 1)] /\ \A e \in table' : mac[e.id] = e.mac
  <2>1. th[t].id \in 1..(dev_id - 1) /\ mac[th[t].id] = th[t].mac
    BY <1>1 DEF TypeInv, ThreadInv, ThreadOK, HasDevice
  <2>2. th[t].mac = ZeroMac \/ th[t].mac \in Radio
    BY <1>2 DEF ThreadType, Macs
  <2> QED BY <2>1, <2>2 DEF List, TypeInv
<1> QED BY <1>1, <1>4, <1>5 DEF TypeInv, history

(* What taking device d out of the online queue does. *)
LEMMA TakeOut ==
  ASSUME TypeInv, NEW d \in ToSet(queue)
  PROVE  /\ IndexOf(queue, d) \in 1..Len(queue) /\ queue[IndexOf(queue, d)] = d
         /\ RemoveAt(queue, IndexOf(queue, d)) \in Seq(1..(dev_id - 1)) /\ d \in 1..(dev_id - 1)
<1>1. queue \in Seq(1..(dev_id - 1))
  BY DEF TypeInv
<1>2. PICK p \in 1..Len(queue) : p = IndexOf(queue, d) /\ queue[p] = d
  BY <1>1, FirstIndex
<1>3. RemoveAt(queue, p) \in Seq(1..(dev_id - 1))
  BY <1>1, RemoveAtProps
<1>4. queue[p] \in 1..(dev_id - 1)
  BY <1>1, ElementOfSeq
<1> QED BY <1>2, <1>3, <1>4

LEMMA OfflineType ==
  ASSUME TypeInv, NEW e \in table, GoOffline(e)
  PROVE  TypeInv'
<1>1. /\ UNCHANGED <<mac, dev_id, file, th, gone, stale, mixed, clash, doubled>>
      /\ table' = table \ {e}
  BY DEF GoOffline
<1>2. queue' \in Seq(1..(dev_id - 1)) /\ offq' \in Seq(1..(dev_id - 1))
  <2>1. CASE e.id \in ToSet(queue)
    <3>1. /\ queue' = RemoveAt(queue, IndexOf(queue, e.id)) /\ offq' = Append(offq, e.id)
          /\ offq \in Seq(1..(dev_id - 1))
      BY <2>1 DEF GoOffline, TypeInv
    <3> QED BY <2>1, <3>1, TakeOut
  <2>2. CASE e.id \notin ToSet(queue)
    BY <2>2 DEF GoOffline, TypeInv
  <2> QED BY <2>1, <2>2
<1>3. ThreadInv'
  BY <1>1 DEF TypeInv, ThreadInv, ThreadOK, HasDevice
<1> QED BY <1>1, <1>2, <1>3 DEF TypeInv

LEMMA DeleteType ==
  ASSUME TypeInv, NEW t \in Thread, NEW d \in Id, Delete(t, d)
  PROVE  TypeInv'
<1>1. /\ UNCHANGED <<offq, mac, dev_id, table, file, th, stale, mixed, clash, doubled>>
      /\ d \in ToSet(queue) /\ gone' = gone \cup {d}
  BY DEF Delete
<1>2. queue' \in Seq(1..(dev_id - 1)) /\ d \in 1..(dev_id - 1)
  BY <1>1, TakeOut DEF Delete
<1>3. ThreadInv'
  BY <1>1 DEF TypeInv, ThreadInv, ThreadOK, HasDevice
<1> QED BY <1>1, <1>2, <1>3 DEF TypeInv

LEMMA StartSaveType ==
  ASSUME TypeInv, NEW t \in Thread, StartSave(t)
  PROVE  TypeInv'
<1>1. UNCHANGED <<live, gone, stale, mixed, clash, doubled>>
  BY DEF StartSave
<1>2. ThreadOK(t)'
  BY <1>1, StartSaveEffect DEF ThreadOK, HasDevice, TypeInv, ThreadInv, live
<1>3. ThreadInv'
  BY <1>1, <1>2, StartSaveEffect, Counter, ThreadStep DEF live
<1> QED BY <1>1, <1>3 DEF TypeInv, live

LEMMA ScanType ==
  ASSUME TypeInv, NEW t \in Thread, NEW q \in Seq(1..(dev_id - 1)), NEW at \in {"queue", "offq"},
         NEW next \in {"offq", "open"}, NEW len \in Nat, Scan(t, q, at, next, len)
  PROVE  TypeInv'
<1>1. UNCHANGED <<live, history>>
  BY DEF Scan
<1>e. /\ th' \in [Thread -> ThreadType] /\ Others(t) /\ th[t].at = at
      /\ th'[t].id = th[t].id /\ th'[t].new = th[t].new /\ th'[t].mac = th[t].mac
      /\ th'[t].at \in {at, next}
  BY ScanEffect
<1>2. ThreadOK(t)'
  BY <1>1, <1>e DEF ThreadOK, HasDevice, TypeInv, ThreadInv, live
<1>3. ThreadInv'
  BY SMTT(30), <1>1, <1>2, <1>e, Counter, ThreadStep DEF live
<1> QED BY <1>1, <1>3 DEF TypeInv, live, history

LEMMA OpenType ==
  ASSUME TypeInv, NEW t \in Thread, OpenFile(t)
  PROVE  TypeInv'
<1>1. /\ UNCHANGED <<queue, offq, mac, dev_id, table, gone, stale, mixed, late, doubled>>
      /\ th[t].at = "open" /\ th' = [th EXCEPT ![t].at = "close"] /\ "close" \in Place
      /\ clash' \in BOOLEAN
  BY DEF OpenFile, Place, TypeInv
<1>2. ThreadOK(t)'
  BY <1>1, AtEffect DEF ThreadOK, HasDevice, TypeInv, ThreadInv
<1>u. UNCHANGED <<mac, dev_id>>
  BY DEF OpenFile
<1>e. th' \in [Thread -> ThreadType] /\ Others(t)
  BY <1>1, AtEffect
<1>3. ThreadInv'
  BY <1>e, <1>u, <1>2, Counter, ThreadStep
<1> QED BY <1>1, <1>3 DEF TypeInv

LEMMA CloseType ==
  ASSUME TypeInv, NEW t \in Thread, CloseFile(t)
  PROVE  TypeInv'
<1>1. UNCHANGED <<queue, offq, mac, dev_id, table, history>>
  BY DEF CloseFile
<1>2. ThreadOK(t)'
  <2>1. th'[t] = Free => ThreadOK(t)'
    BY FreeFields DEF ThreadOK, HasDevice
  <2>2. CASE ~(th'[t] = Free)
    BY <1>1, <2>2, CloseEffect DEF ThreadOK, HasDevice, TypeInv, ThreadInv
  <2> QED BY <2>1, <2>2
<1>3. ThreadInv'
  BY <1>1, <1>2, CloseEffect, Counter, ThreadStep
<1> QED BY <1>1, <1>3 DEF TypeInv, history

LEMMA StayType == TypeInv /\ UNCHANGED vars => TypeInv'
BY DEF TypeInv, ThreadInv, ThreadOK, HasDevice, vars, live, history

LEMMA ScanQueueIs ==
  ASSUME TypeInv, NEW t \in Thread, ScanQueue(t)
  PROVE  /\ queue \in Seq(1..(dev_id - 1)) /\ Len(offq) \in Nat
         /\ Scan(t, queue, "queue", "offq", Len(offq))
BY DEF TypeInv, ScanQueue

LEMMA ScanOffqIs ==
  ASSUME TypeInv, NEW t \in Thread, ScanOffq(t)
  PROVE  offq \in Seq(1..(dev_id - 1)) /\ Scan(t, offq, "offq", "open", 0)
BY DEF TypeInv, ScanOffq

LEMMA NextType == TypeInv /\ [Next]_vars => TypeInv'
<1> SUFFICES ASSUME TypeInv, [Next]_vars PROVE TypeInv'
  OBVIOUS
<1>1. ASSUME NEW t \in Thread, ScanQueue(t) PROVE TypeInv'
  BY <1>1, ScanQueueIs, ScanType
<1>2. ASSUME NEW t \in Thread, ScanOffq(t) PROVE TypeInv'
  BY <1>2, ScanOffqIs, ScanType
<1> QED
  BY <1>1, <1>2, FindType, KnownType, AllocType, PopType, PushType, ListType, OfflineType,
     DeleteType, StartSaveType, OpenType, CloseType, StayType DEF Next, Macs

-----------------------------------------------------------------------------
(* Where the devices are. *)

Carries(t) == th[t].at = "push"
Queued == ToSet(queue) \cup ToSet(offq)

(* Unless offq is mixed up, each device is in one queue, in the hands of   *)
(* one thread or deleted; and a position in offq that is not stale is that *)
(* of the device the thread looked for.                                    *)
PlaceInv ==
  /\ IsInjective(queue) /\ IsInjective(offq)
  /\ ToSet(queue) \cap ToSet(offq) = {}
  /\ gone \cap Queued = {}
  /\ \A t \in Thread : Carries(t) => th[t].id \notin Queued \cup gone
  /\ \A t, u \in Thread : Carries(t) /\ Carries(u) /\ th[t].id = th[u].id => t = u
  /\ \A d \in 1..(dev_id - 1) :
       d \in Queued \cup gone \/ \E t \in Thread : Carries(t) /\ th[t].id = d
  /\ \A t \in Thread : th[t].at = "pop" /\ t \notin stale =>
       th[t].pos \in DOMAIN offq /\ offq[th[t].pos] = th[t].id


LEMMA InitPlace == Init => PlaceInv
<1> SUFFICES ASSUME Init PROVE PlaceInv
  OBVIOUS
<1>1. /\ Known \in Seq(Macs) /\ Len(Known) \in Nat /\ DOMAIN Known = 1..Len(Known)
      /\ dev_id - 1 = Len(Known)
  BY ThreadsAssumption DEF Init, Macs
<1>2. offq = [i \in 1..Len(Known) |-> i] /\ queue = <<>> /\ gone = {} /\ stale = {}
  BY <1>1 DEF Init
<1>3. ToSet(offq) = 1..(dev_id - 1) /\ IsInjective(offq)
  BY <1>1, <1>2 DEF ToSet, IsInjective
<1>4. ToSet(queue) = {} /\ IsInjective(queue)
  BY <1>2 DEF ToSet, IsInjective
<1>5. \A t \in Thread : th[t].at = "idle"
  BY FreeFields DEF Init
<1> QED BY <1>2, <1>3, <1>4, <1>5 DEF PlaceInv, Queued, Carries

(* A step of a thread that neither puts a device in its hands nor takes    *)
(* one out of them.                                                        *)
LEMMA QuietPlace ==
  ASSUME PlaceInv, NEW t \in Thread, Others(t), UNCHANGED <<queue, offq, gone, dev_id, stale>>,
         ~Carries(t), ~Carries(t)',
         th'[t].at = "pop" => th'[t].pos \in DOMAIN offq /\ offq[th'[t].pos] = th'[t].id
  PROVE  PlaceInv'
<1>1. /\ Queued' = Queued /\ gone' = gone /\ queue' = queue /\ offq' = offq
      /\ dev_id' = dev_id /\ stale' = stale
  BY DEF Queued
<1>2. \A u \in Thread : Carries(u)' => Carries(u) /\ th'[u] = th[u]
  BY DEF Carries, Others
<1>3. \A u \in Thread : Carries(u) => Carries(u)' /\ th'[u] = th[u]
  BY DEF Carries, Others
<1>4. \A u \in Thread : th'[u].at = "pop" /\ u \notin stale =>
                          th'[u].pos \in DOMAIN offq /\ offq[th'[u].pos] = th'[u].id
  BY DEF PlaceInv, Others
<1> QED BY <1>1, <1>2, <1>3, <1>4 DEF PlaceInv

LEMMA AllocPlace ==
  ASSUME TypeInv, PlaceInv, NEW t \in Thread, Alloc(t)
  PROVE  PlaceInv'
<1>1. /\ UNCHANGED <<queue, offq, gone, stale>> /\ dev_id' = dev_id + 1
      /\ th[t].at = "alloc" /\ th'[t].at = "push" /\ th'[t].id = dev_id /\ Others(t)
  BY AllocEffect DEF Alloc, history
<1>2. dev_id \in Nat /\ \A d \in 1..(dev_id' - 1) : d \in 1..(dev_id - 1) \/ d = dev_id
  BY <1>1, Counter
<1>3. dev_id \notin Queued \cup gone
  BY <1>2, ToSetProps DEF TypeInv, Queued
<1>4. \A u \in Thread : Carries(u) => th[u].id \in 1..(dev_id - 1)
  BY DEF TypeInv, ThreadInv, ThreadOK, HasDevice, Carries
<1>5. Queued' = Queued /\ dev_id \notin 1..(dev_id - 1)
  BY <1>1, <1>2 DEF Queued
<1>6. \A u \in Thread : Carries(u)' <=> u = t \/ Carries(u)
  BY <1>1 DEF Carries, Others
<1>7. \A u \in Thread : u # t => th'[u] = th[u]
  BY <1>1 DEF Others
<1>8. \A u \in Thread : Carries(u)' => th'[u].id \notin Queued \cup gone
  BY <1>1, <1>3, <1>6, <1>7 DEF PlaceInv
<1>9. \A u, v \in Thread : Carries(u)' /\ Carries(v)' /\ th'[u].id = th'[v].id => u = v
  BY <1>1, <1>4, <1>5, <1>6, <1>7 DEF PlaceInv
<1>10. \A d \in 1..(dev_id' - 1) :
         d \in Queued \cup gone \/ \E u \in Thread : Carries(u)' /\ th'[u].id = d
  <2>1. \A d \in 1..(dev_id - 1) :
          d \in Queued \cup gone \/ \E u \in Thread : Carries(u)' /\ th'[u].id = d
    <3>1. ~Carries(t)
      BY <1>1 DEF Carries
    <3> QED BY <1>6, <1>7, <3>1 DEF PlaceInv
  <2> QED BY <1>1, <1>2, <1>6, <2>1
<1>11. \A u \in Thread : th'[u].at = "pop" /\ u \notin stale' =>
                           th'[u].pos \in DOMAIN offq' /\ offq'[th'[u].pos] = th'[u].id
  BY <1>1, <1>7 DEF PlaceInv
<1> QED BY <1>1, <1>5, <1>8, <1>9, <1>10, <1>11 DEF PlaceInv

LEMMA PopPlace ==
  ASSUME TypeInv, PlaceInv, NEW t \in Thread, PopNth(t), ~mixed'
  PROVE  /\ PlaceInv' /\ th[t].pos \in 1..Len(offq) /\ offq[th[t].pos] = th[t].id
         /\ offq' = RemoveAt(offq, th[t].pos) /\ ToSet(offq') = ToSet(offq) \ {th[t].id}
         /\ late' = late \cup AtRisk(offq, th[t].pos)
<1>1. /\ UNCHANGED <<queue, dev_id, gone>> /\ th[t].at = "pop" /\ t \notin stale
      /\ th' = [th EXCEPT ![t].at = "push"] /\ "push" \in Place
  BY DEF PopNth, Place
<1>2. /\ th'[t].at = "push" /\ th'[t].id = th[t].id /\ Others(t)
  BY <1>1, AtEffect
<1>3. th[t].pos \in DOMAIN offq /\ offq[th[t].pos] = th[t].id
  BY <1>1 DEF PlaceInv
<1>4. PICK p \in 1..Len(offq) : p = th[t].pos /\ offq[p] = th[t].id
  BY <1>3 DEF TypeInv
<1>5. /\ offq' = RemoveAt(offq, p) /\ late' = late \cup AtRisk(offq, p)
      /\ stale' = (stale \cup {u \in Thread : th[u].at = "pop" /\ th[u].pos >= p}) \ {t}
  BY <1>3, <1>4 DEF PopNth
<1>6. /\ IsInjective(offq) /\ offq \in Seq(1..(dev_id - 1)) /\ Len(offq) \in Nat
      /\ DOMAIN offq = 1..Len(offq)
  BY DEF PlaceInv, TypeInv
<1>7. /\ ToSet(offq') = ToSet(offq) \ {th[t].id} /\ IsInjective(offq')
  BY <1>4, <1>5, <1>6, RemoveNth
<1>8. /\ offq' \in Seq(1..(dev_id - 1)) /\ Len(offq') = Len(offq) - 1
      /\ \A j \in 1..(Len(offq) - 1) : j < p => offq'[j] = offq[j]
  BY <1>5, <1>6, RemoveAtProps
<1>9. th[t].id \in ToSet(offq)
  BY <1>4, <1>6 DEF ToSet
<1>10. Queued' = Queued \ {th[t].id} /\ th[t].id \notin ToSet(queue) /\ th[t].id \notin gone
  BY <1>1, <1>7, <1>9 DEF Queued, PlaceInv
<1>11. \A u \in Thread : /\ Carries(u)' <=> u = t \/ Carries(u)
                         /\ u # t => th'[u] = th[u]
  BY <1>2 DEF Carries, Others
<1>12. \A u \in Thread : Carries(u)' => th'[u].id \notin Queued' \cup gone'
  BY <1>1, <1>2, <1>10, <1>11 DEF PlaceInv
<1>13. \A u, v \in Thread : Carries(u)' /\ Carries(v)' /\ th'[u].id = th'[v].id => u = v
  BY <1>2, <1>9, <1>11 DEF PlaceInv, Queued
<1>14. \A d \in 1..(dev_id - 1) :
         d \in Queued' \cup gone' \/ \E u \in Thread : Carries(u)' /\ th'[u].id = d
  <2>1. ~Carries(t)
    BY <1>1 DEF Carries
  <2> QED BY <1>1, <1>2, <1>10, <1>11, <2>1 DEF PlaceInv
<1>15. ASSUME NEW u \in Thread, th'[u].at = "pop", u \notin stale'
       PROVE  th'[u].pos \in DOMAIN offq' /\ offq'[th'[u].pos] = th'[u].id
  <2>1. u # t /\ th'[u] = th[u]
    BY <1>2, <1>11, <1>15
  <2>2. u \notin stale /\ ~(th[u].pos >= p) /\ th[u].at = "pop"
    BY <1>5, <1>15, <2>1
  <2>3. th[u].pos \in 1..Len(offq) /\ offq[th[u].pos] = th[u].id
    BY <1>6, <2>2 DEF PlaceInv
  <2>4. th[u].pos < p /\ th[u].pos \in 1..(Len(offq) - 1)
    BY <1>6, <2>2, <2>3
  <2>5. DOMAIN offq' = 1..(Len(offq) - 1)
    BY <1>8
  <2> QED BY <1>8, <2>1, <2>3, <2>4, <2>5
<1>16. /\ ToSet(queue') \cap ToSet(offq') = {} /\ gone' \cap Queued' = {}
       /\ IsInjective(queue')
  BY <1>1, <1>7, <1>10 DEF PlaceInv
<1>17. PlaceInv'
  BY <1>1, <1>7, <1>12, <1>13, <1>14, <1>15, <1>16 DEF PlaceInv
<1> QED BY <1>4, <1>5, <1>7, <1>17

LEMMA PushPlace ==
  ASSUME TypeInv, PlaceInv, NEW t \in Thread, Push(t)
  PROVE  PlaceInv' /\ ToSet(queue') = ToSet(queue) \cup {th[t].id}
<1>1. /\ UNCHANGED <<offq, dev_id, gone, stale>> /\ th[t].at = "push"
      /\ queue' = Append(queue, th[t].id)
  BY DEF Push
<1>2. PICK p \in Place : p = (IF th[t].new THEN "dirty" ELSE "list")
  BY DEF Place
<1>3. th' = [th EXCEPT ![t].at = p]
  BY <1>2 DEF Push
<1>4. th'[t].at = p /\ Others(t) /\ p # "push" /\ p # "pop"
  BY <1>2, <1>3, AtEffect
<1>5. Carries(t) /\ th[t].id \in 1..(dev_id - 1) /\ th[t].id \notin Queued \cup gone
  BY <1>1 DEF TypeInv, ThreadInv, ThreadOK, HasDevice, PlaceInv, Carries
<1>6. /\ ToSet(queue') = ToSet(queue) \cup {th[t].id} /\ IsInjective(queue')
  <2> DEFINE S == 1..(dev_id - 1)
  <2>1. queue \in Seq(S) /\ IsInjective(queue) /\ th[t].id \notin ToSet(queue) /\ th[t].id \in S
    BY <1>5 DEF TypeInv, PlaceInv, Queued
  <2> HIDE DEF S
  <2> QED BY <1>1, <2>1, PushTail
<1>7. Queued' = Queued \cup {th[t].id}
  BY <1>1, <1>6 DEF Queued
<1>8. \A u \in Thread : /\ Carries(u)' <=> u # t /\ Carries(u)
                        /\ u # t => th'[u] = th[u]
  BY <1>4 DEF Carries, Others
<1>9. /\ \A u \in Thread : Carries(u)' => th'[u].id \notin Queued' \cup gone'
      /\ \A u, v \in Thread : Carries(u)' /\ Carries(v)' /\ th'[u].id = th'[v].id => u = v
  BY <1>1, <1>5, <1>7, <1>8 DEF PlaceInv
<1>10. \A d \in 1..(dev_id - 1) :
         d \in Queued' \cup gone' \/ \E u \in Thread : Carries(u)' /\ th'[u].id = d
  BY <1>1, <1>7, <1>8 DEF PlaceInv
<1>11. \A u \in Thread : th'[u].at = "pop" /\ u \notin stale' =>
                           th'[u].pos \in DOMAIN offq' /\ offq'[th'[u].pos] = th'[u].id
  BY <1>1, <1>4, <1>8 DEF PlaceInv
<1>12. ToSet(queue') \cap ToSet(offq') = {} /\ gone' \cap Queued' = {} /\ IsInjective(offq')
  BY <1>1, <1>5, <1>6, <1>7 DEF PlaceInv, Queued
<1>13. PlaceInv'
  BY <1>1, <1>6, <1>9, <1>10, <1>11, <1>12 DEF PlaceInv
<1> QED BY <1>6, <1>13

(* Taking device d out of the online queue.                                *)
LEMMA TakeOutSet ==
  ASSUME TypeInv, PlaceInv, NEW d \in ToSet(queue)
  PROVE  /\ ToSet(RemoveAt(queue, IndexOf(queue, d))) = ToSet(queue) \ {d}
         /\ IsInjective(RemoveAt(queue, IndexOf(queue, d)))
<1>1. queue \in Seq(1..(dev_id - 1)) /\ IsInjective(queue)
  BY DEF TypeInv, PlaceInv
<1>2. PICK p \in 1..Len(queue) : p = IndexOf(queue, d) /\ queue[p] = d
  BY <1>1, FirstIndex
<1> QED BY <1>1, <1>2, RemoveNth

LEMMA OfflinePlace ==
  ASSUME TypeInv, PlaceInv, NEW e \in table, GoOffline(e)
  PROVE  /\ PlaceInv' /\ ToSet(queue') = ToSet(queue) \ {e.id}
         /\ \/ e.id \in ToSet(queue) /\ ToSet(offq') = ToSet(offq) \cup {e.id}
            \/ e.id \notin ToSet(queue) /\ queue' = queue /\ offq' = offq
<1>1. UNCHANGED <<dev_id, th, gone, stale>>
  BY DEF GoOffline
<1>2. CASE e.id \notin ToSet(queue)
  <2>1. queue' = queue /\ offq' = offq
    BY <1>2 DEF GoOffline
  <2>2. PlaceInv'
    BY <1>1, <2>1 DEF PlaceInv, Queued, Carries
  <2> QED BY <1>2, <2>1, <2>2
<1>3. CASE e.id \in ToSet(queue)
  <2>1. queue' = RemoveAt(queue, IndexOf(queue, e.id)) /\ offq' = Append(offq, e.id)
    BY <1>3 DEF GoOffline
  <2>2. ToSet(queue') = ToSet(queue) \ {e.id} /\ IsInjective(queue')
    BY <1>3, <2>1, TakeOutSet
  <2>3. e.id \in 1..(dev_id - 1) /\ e.id \notin ToSet(offq)
    BY <1>3, TakeOut DEF PlaceInv
  <2>4. ToSet(offq') = ToSet(offq) \cup {e.id} /\ IsInjective(offq')
    BY <2>1, <2>3, PushTail DEF TypeInv, PlaceInv
  <2>5. /\ Len(offq) \in Nat /\ DOMAIN offq = 1..Len(offq)
        /\ \A i \in DOMAIN offq : i \in DOMAIN offq' /\ offq'[i] = offq[i]
    <3>1. offq \in Seq(1..(dev_id - 1))
      BY DEF TypeInv
    <3> QED BY <2>1, <2>3, <3>1
  <2>6. Queued' = Queued /\ ToSet(queue') \cap ToSet(offq') = {}
    BY <1>3, <2>2, <2>4 DEF Queued, PlaceInv
  <2>7. \A u \in Thread : th'[u].at = "pop" /\ u \notin stale' =>
                            th'[u].pos \in DOMAIN offq' /\ offq'[th'[u].pos] = th'[u].id
    BY <1>1, <2>5 DEF PlaceInv
  <2>8. PlaceInv'
    BY <1>1, <2>2, <2>4, <2>6, <2>7 DEF PlaceInv, Carries
  <2> QED BY <1>3, <2>2, <2>4, <2>8
<1> QED BY <1>2, <1>3

LEMMA DeletePlace ==
  ASSUME TypeInv, PlaceInv, NEW t \in Thread, NEW d \in Id, Delete(t, d)
  PROVE  PlaceInv' /\ ToSet(queue') = ToSet(queue) \ {d}
<1>1. /\ UNCHANGED <<offq, dev_id, th, stale>> /\ gone' = gone \cup {d} /\ d \in ToSet(queue)
      /\ queue' = RemoveAt(queue, IndexOf(queue, d))
  BY DEF Delete
<1>2. ToSet(queue') = ToSet(queue) \ {d} /\ IsInjective(queue')
  BY <1>1, TakeOutSet
<1>3. Queued' = Queued \ {d} /\ d \in Queued
  BY <1>1, <1>2 DEF Queued, PlaceInv
<1>4. \A u \in Thread : Carries(u) => th[u].id # d
  BY <1>3 DEF PlaceInv
<1>5. PlaceInv'
  BY <1>1, <1>2, <1>3, <1>4 DEF PlaceInv, Carries
<1> QED BY <1>2, <1>5

LEMMA NextPlace ==
  TypeInv /\ (~mixed => PlaceInv) /\ [Next]_vars => (~mixed' => PlaceInv')
<1> SUFFICES ASSUME TypeInv, ~mixed => PlaceInv, [Next]_vars, ~mixed' PROVE PlaceInv'
  OBVIOUS
<1>1. ~mixed
  <2>1. mixed' = mixed \/ \E t \in Thread : PopNth(t)
    BY DEF Next, vars, history, FindOffline, FindKnown, Alloc, Push, List, GoOffline, Delete,
           StartSave, ScanQueue, ScanOffq, Scan, OpenFile, CloseFile
  <2> QED BY <2>1 DEF PopNth
<1>2. PlaceInv
  BY <1>1
<1>3. ASSUME NEW t \in Thread, NEW m \in Macs, FindOffline(t, m) PROVE PlaceInv'
  <2>1. ~Carries(t) /\ ~Carries(t)'
    BY <1>3, FindEffect, FreeFields DEF Carries
  <2>2. UNCHANGED <<queue, offq, gone, dev_id, stale>>
    BY <1>3 DEF FindOffline, live
  <2>3. /\ Others(t)
        /\ th'[t].at = "pop" => th'[t].pos \in DOMAIN offq /\ offq[th'[t].pos] = th'[t].id
    BY <1>3, FindEffect
  <2> QED BY <1>2, <2>1, <2>2, <2>3, QuietPlace
<1>4. ASSUME NEW i \in DOMAIN offq, FindKnown(i) PROVE PlaceInv'
  <2>1. ~Carries(Main) /\ ~Carries(Main)' /\ Main \in Thread
    BY <1>4, KnownEffect, FreeFields DEF Carries
  <2>2. UNCHANGED <<queue, offq, gone, dev_id, stale>>
    BY <1>4 DEF FindKnown, live, history
  <2>3. Others(Main) /\ th'[Main].pos \in DOMAIN offq /\ offq[th'[Main].pos] = th'[Main].id
    BY <1>4, KnownEffect
  <2> QED BY <1>2, <2>1, <2>2, <2>3, QuietPlace
<1>5. ASSUME NEW t \in Thread, List(t) PROVE PlaceInv'
  <2>1. UNCHANGED <<queue, offq, gone, dev_id, stale>> /\ th[t].at = "list"
    BY <1>5 DEF List, history
  <2>2. Others(t) /\ th'[t] = Free
    BY <1>5 DEF List, Others, TypeInv, ThreadInv
  <2>3. ~Carries(t) /\ ~Carries(t)' /\ th'[t].at # "pop"
    BY <2>1, <2>2, FreeFields DEF Carries
  <2> QED BY <1>2, <2>1, <2>2, <2>3, QuietPlace
<1>6. ASSUME NEW t \in Thread, StartSave(t) PROVE PlaceInv'
  <2>1. UNCHANGED <<queue, offq, gone, dev_id, stale>>
    BY <1>6 DEF StartSave, live
  <2>2. Others(t) /\ ~Carries(t) /\ ~Carries(t)' /\ th'[t].at # "pop"
    BY <1>6, StartSaveEffect DEF Carries
  <2> QED BY <1>2, <2>1, <2>2, QuietPlace
<1>7. ASSUME NEW t \in Thread, NEW q \in Seq(1..(dev_id - 1)), NEW at \in {"queue", "offq"},
             NEW next \in {"offq", "open"}, NEW len \in Nat, Scan(t, q, at, next, len)
      PROVE  PlaceInv'
  <2>1. UNCHANGED <<queue, offq, gone, dev_id, stale>>
    BY <1>7 DEF Scan, live, history
  <2>2. Others(t) /\ th[t].at = at /\ th'[t].at \in {at, next}
    BY <1>7, ScanEffect
  <2>3. ~Carries(t) /\ ~Carries(t)' /\ th'[t].at # "pop"
    BY <2>2 DEF Carries
  <2> QED BY <1>2, <2>1, <2>2, <2>3, QuietPlace
<1>8. ASSUME NEW t \in Thread, OpenFile(t) PROVE PlaceInv'
  <2>1. UNCHANGED <<queue, offq, gone, dev_id, stale>>
    BY <1>8 DEF OpenFile
  <2>2. th[t].at = "open" /\ th' = [th EXCEPT ![t].at = "close"] /\ "close" \in Place
    BY <1>8 DEF OpenFile, Place
  <2>3. Others(t) /\ th'[t].at = "close"
    BY <2>2, AtEffect
  <2>4. ~Carries(t) /\ ~Carries(t)' /\ th'[t].at # "pop"
    BY <2>2, <2>3 DEF Carries
  <2> QED BY <1>2, <2>1, <2>3, <2>4, QuietPlace
<1>9. ASSUME NEW t \in Thread, CloseFile(t) PROVE PlaceInv'
  <2>1. UNCHANGED <<queue, offq, gone, dev_id, stale>>
    BY <1>9 DEF CloseFile, history
  <2>2. Others(t) /\ ~Carries(t) /\ ~Carries(t)' /\ th'[t].at # "pop"
    BY <1>9, CloseEffect, FreeFields DEF Carries
  <2> QED BY <1>2, <2>1, <2>2, QuietPlace
<1>10. ASSUME UNCHANGED vars PROVE PlaceInv'
  BY <1>2, <1>10 DEF PlaceInv, Carries, Queued, vars, live, history
<1>11. ASSUME NEW t \in Thread, ScanQueue(t) PROVE PlaceInv'
  BY <1>7, <1>11, ScanQueueIs
<1>12. ASSUME NEW t \in Thread, ScanOffq(t) PROVE PlaceInv'
  BY <1>7, <1>12, ScanOffqIs
<1> QED
  BY <1>2, <1>3, <1>4, <1>5, <1>6, <1>8, <1>9, <1>10, <1>11, <1>12, AllocPlace, PopPlace,
     PushPlace, OfflinePlace, DeletePlace DEF Next, Macs

(* Each id is in the places it should be in as often as it should be.      *)
LEMMA OnceOf ==
  ASSUME NEW S, NEW q \in Seq(S), IsInjective(q), NEW d
  PROVE  /\ IsFiniteSet({i \in DOMAIN q : q[i] = d})
         /\ Cardinality({i \in DOMAIN q : q[i] = d}) = IF d \in ToSet(q) THEN 1 ELSE 0
<1>1. CASE d \in ToSet(q)
  <2>1. PICK i \in DOMAIN q : q[i] = d
    BY <1>1 DEF ToSet
  <2>2. {j \in DOMAIN q : q[j] = d} = {i}
    BY <2>1 DEF IsInjective
  <2> QED BY <1>1, <2>2, FS_Singleton
<1>2. CASE d \notin ToSet(q)
  <2>1. {j \in DOMAIN q : q[j] = d} = {}
    BY <1>2 DEF ToSet
  <2> QED BY <1>2, <2>1, FS_EmptySet
<1> QED BY <1>1, <1>2

LEMMA PlaceOnce == TypeInv /\ (~mixed => PlaceInv) => OncePerDevice
<1> SUFFICES ASSUME TypeInv, PlaceInv, NEW d \in 1..(dev_id - 1)
    PROVE Cardinality({i \in DOMAIN queue : queue[i] = d})
            + Cardinality({i \in DOMAIN offq : offq[i] = d})
            + Cardinality(Carriers(d)) = IF d \in gone THEN 0 ELSE 1
  BY DEF OncePerDevice
<1>1. /\ Cardinality({i \in DOMAIN queue : queue[i] = d}) = IF d \in ToSet(queue) THEN 1 ELSE 0
      /\ Cardinality({i \in DOMAIN offq : offq[i] = d}) = IF d \in ToSet(offq) THEN 1 ELSE 0
  <2> DEFINE S == 1..(dev_id - 1)
  <2>1. queue \in Seq(S) /\ offq \in Seq(S) /\ IsInjective(queue) /\ IsInjective(offq)
    BY DEF TypeInv, PlaceInv
  <2> HIDE DEF S
  <2> QED BY <2>1, OnceOf, Zenon
<1>2. CASE \E t \in Thread : Carries(t) /\ th[t].id = d
  <2>1. PICK t \in Thread : Carries(t) /\ th[t].id = d
    BY <1>2
  <2>2. Carriers(d) = {t}
    BY <2>1 DEF Carriers, PlaceInv, Carries
  <2>3. Cardinality(Carriers(d)) = 1
    BY <2>2, FS_Singleton
  <2>4. d \notin ToSet(queue) /\ d \notin ToSet(offq) /\ d \notin gone
    BY <2>1 DEF PlaceInv, Queued
  <2> QED BY <1>1, <2>3, <2>4
<1>3. CASE ~\E t \in Thread : Carries(t) /\ th[t].id = d
  <2>1. Carriers(d) = {}
    BY <1>3 DEF Carriers, Carries
  <2>2. Cardinality(Carriers(d)) = 0
    BY <2>1, FS_EmptySet
  <2>3. /\ d \in ToSet(queue) \/ d \in ToSet(offq) \/ d \in gone
        /\ ~(d \in ToSet(queue) /\ d \in ToSet(offq))
        /\ d \in gone => d \notin ToSet(queue) /\ d \notin ToSet(offq)
    BY <1>3 DEF PlaceInv, Queued
  <2> QED BY <1>1, <2>2, <2>3
<1> QED BY <1>2, <1>3

(* Every device that was given an id and not deleted is once in the online *)
(* queue, in offq or in the hands of a thread between dev_online's search  *)
(* and its push, as long as no thread uses a position in offq that another *)
(* one's g_queue_pop_nth moved: for any number of threads and devices.     *)
THEOREM OnceProved == Spec => []OncePerDevice
<1> DEFINE Inv == TypeInv /\ (~mixed => PlaceInv)
<1>1. Init => Inv
  BY InitType, InitPlace
<1>2. Inv /\ [Next]_vars => Inv'
  BY NextType, NextPlace
<1>3. Inv => OncePerDevice
  BY PlaceOnce
<1> QED BY <1>1, <1>2, <1>3, PTL DEF Spec

-----------------------------------------------------------------------------
(* Who registered a MAC. *)
Busy(t, m) == th[t].at # "idle" /\ th[t].mac = m

(* A MAC that no two threads registered at once is in the driver's table   *)
(* once, or in the hands of one thread.                                    *)
OneHolder ==
  \A m \in Radio \ doubled :
    /\ \A t, u \in Thread : Busy(t, m) /\ Busy(u, m) => t = u
    /\ \A e, f \in table : e.mac = m /\ f.mac = m => e = f
    /\ \A t \in Thread, e \in table : Busy(t, m) => e.mac # m

(* An online device that is not infrared is in the driver's table, or the  *)
(* thread that pushed it is about to enter it there.                       *)
Entering(t) == th[t].at \notin {"idle", "alloc", "pop", "push"}

Listed(d) ==
  \/ [mac |-> mac[d], id |-> d] \in table
  \/ \E t \in Thread : Entering(t) /\ th[t].mac = mac[d] /\ th[t].id = d

AllListed == \A d \in ToSet(queue) : mac[d] # ZeroMac => Listed(d)


LEMMA InitHolder == Init => OneHolder /\ AllListed
BY FreeFields DEF Init, OneHolder, AllListed, Busy, ToSet

(* A step of a thread that gets no MAC into its hands.                     *)
LEMMA HolderStep ==
  ASSUME OneHolder, NEW t \in Thread, Others(t), doubled' = doubled, table' \subseteq table,
         \A m \in Radio : Busy(t, m)' => Busy(t, m)
  PROVE  OneHolder'
<1>1. \A u \in Thread, m \in Radio : Busy(u, m)' => Busy(u, m)
  BY DEF Busy, Others
<1> QED BY <1>1 DEF OneHolder

(* A step of a thread that pushes nothing and, if it is about to enter a   *)
(* device in the table, still is.                                          *)
LEMMA ListedStep ==
  ASSUME TypeInv, AllListed, NEW t \in Thread, Others(t), ToSet(queue') \subseteq ToSet(queue),
         table' = table, \A d \in 1..(dev_id - 1) : mac'[d] = mac[d],
         Entering(t) /\ th[t].mac # ZeroMac =>
           Entering(t)' /\ th'[t].mac = th[t].mac /\ th'[t].id = th[t].id
  PROVE  AllListed'
<1> SUFFICES ASSUME NEW d \in ToSet(queue'), mac'[d] # ZeroMac
             PROVE  Listed(d)'
  BY DEF AllListed
<1>1. d \in ToSet(queue) /\ d \in 1..(dev_id - 1)
  BY ToSetProps DEF TypeInv
<1>2. mac'[d] = mac[d] /\ Listed(d)
  BY <1>1 DEF AllListed
<1>3. CASE [mac |-> mac[d], id |-> d] \in table
  BY <1>2, <1>3 DEF Listed
<1>4. CASE \E u \in Thread : Entering(u) /\ th[u].mac = mac[d] /\ th[u].id = d
  <2>1. PICK u \in Thread : Entering(u) /\ th[u].mac = mac[d] /\ th[u].id = d
    BY <1>4
  <2>2. Entering(u)' /\ th'[u].mac = mac[d] /\ th'[u].id = d
    BY <1>2, <2>1 DEF Others, Entering
  <2> QED BY <1>2, <2>2 DEF Listed
<1> QED BY <1>2, <1>3, <1>4 DEF Listed

MacInv == OneHolder /\ (~mixed => AllListed)

(* Both, for a step of a thread that leaves the table and the MACs of the  *)
(* devices alone.                                                          *)
LEMMA MacStep ==
  ASSUME TypeInv, MacInv, mixed' = mixed, NEW t \in Thread, Others(t), doubled' = doubled,
         ToSet(queue') \subseteq ToSet(queue),
         table' = table, \A d \in 1..(dev_id - 1) : mac'[d] = mac[d],
         \A m \in Radio : Busy(t, m)' => Busy(t, m),
         Entering(t) /\ th[t].mac # ZeroMac =>
           Entering(t)' /\ th'[t].mac = th[t].mac /\ th'[t].id = th[t].id
  PROVE  MacInv'
BY HolderStep, ListedStep DEF MacInv

LEMMA FindMac ==
  ASSUME TypeInv, MacInv, NEW t \in Thread, NEW m \in Macs, FindOffline(t, m)
  PROVE  MacInv'
<1>1. /\ UNCHANGED <<queue, table, mac, mixed>> /\ Others(t) /\ th'[t].mac = m
      /\ th[t].at = "idle" /\ th'[t].at # "idle"
  BY FindEffect, FreeFields DEF FindOffline, live
<1>2. \A u \in Thread, n \in Macs : Busy(u, n)' <=> (IF u = t THEN n = m ELSE Busy(u, n))
  BY <1>1 DEF Busy, Others
<1>3. doubled \subseteq doubled' /\ \A n \in Radio \ doubled' :
                                      n = m => ~\E u \in Thread \ {t} : Busy(u, n)
  BY DEF FindOffline, Busy
<1>4. m \in Radio => \A e \in table : e.mac # m
  <2>1. m \in Radio => m # ZeroMac
    BY ThreadsAssumption
  <2> QED BY <2>1 DEF FindOffline
<1>5. OneHolder'
  <2> SUFFICES ASSUME NEW n \in Radio \ doubled'
      PROVE /\ \A u, v \in Thread : Busy(u, n)' /\ Busy(v, n)' => u = v
            /\ \A e, f \in table' : e.mac = n /\ f.mac = n => e = f
            /\ \A u \in Thread, e \in table' : Busy(u, n)' => e.mac # n
    BY DEF OneHolder
  <2>1. n \in Macs /\ n \in Radio \ doubled /\ table' = table
    BY <1>1, <1>3 DEF Macs
  <2>2. /\ \A u, v \in Thread : Busy(u, n) /\ Busy(v, n) => u = v
        /\ \A e, f \in table : e.mac = n /\ f.mac = n => e = f
        /\ \A u \in Thread, e \in table : Busy(u, n) => e.mac # n
    BY <2>1 DEF MacInv, OneHolder
  <2>3. CASE n = m
    BY <1>2, <1>3, <1>4, <2>1, <2>2, <2>3
  <2>4. CASE n # m
    BY <1>2, <2>1, <2>2, <2>4
  <2> QED BY <2>3, <2>4
<1>6. ~mixed' => AllListed'
  BY <1>1, ListedStep DEF MacInv, Entering
<1> QED BY <1>5, <1>6 DEF MacInv

LEMMA KnownMac ==
  ASSUME TypeInv, MacInv, NEW i \in DOMAIN offq, FindKnown(i)
  PROVE  MacInv'
<1>1. UNCHANGED <<queue, table, mac, mixed, doubled>>
  BY DEF FindKnown, live, history
<1>2. Main \in Thread /\ Others(Main) /\ th[Main].at = "idle" /\ th'[Main].mac = ZeroMac
  BY KnownEffect, FreeFields
<1>3. \A m \in Radio : ~Busy(Main, m)'
  BY <1>2, ThreadsAssumption DEF Busy
<1>4. ~Entering(Main)
  BY <1>2 DEF Entering
<1> QED BY <1>1, <1>2, <1>3, <1>4, MacStep

LEMMA AllocMac ==
  ASSUME TypeInv, MacInv, NEW t \in Thread, Alloc(t)
  PROVE  MacInv'
<1>1. UNCHANGED <<queue, table, mixed, doubled>> /\ mac' = [mac EXCEPT ![dev_id] = th[t].mac]
  BY DEF Alloc, history
<1>2. Others(t) /\ th[t].at = "alloc" /\ th'[t].mac = th[t].mac
  BY AllocEffect
<1>3. \A d \in 1..(dev_id - 1) : mac'[d] = mac[d]
  BY <1>1, Counter DEF TypeInv
<1>4. ~Entering(t) /\ \A m \in Radio : Busy(t, m)' => Busy(t, m)
  BY <1>2 DEF Entering, Busy
<1> QED BY <1>1, <1>2, <1>3, <1>4, MacStep

LEMMA PopMac ==
  ASSUME TypeInv, MacInv, NEW t \in Thread, PopNth(t)
  PROVE  MacInv'
<1>1. /\ UNCHANGED <<queue, table, mac, doubled>> /\ th[t].at = "pop"
      /\ th' = [th EXCEPT ![t].at = "push"] /\ "push" \in Place /\ (mixed => mixed')
  BY DEF PopNth, Place
<1>2. Others(t) /\ th'[t].mac = th[t].mac
  BY <1>1, AtEffect
<1>3. ~Entering(t) /\ \A m \in Radio : Busy(t, m)' => Busy(t, m)
  BY <1>1, <1>2 DEF Entering, Busy
<1>4. OneHolder'
  BY <1>1, <1>2, <1>3, HolderStep DEF MacInv
<1>5. AllListed => AllListed'
  BY <1>1, <1>2, <1>3, ListedStep
<1> QED BY <1>1, <1>4, <1>5 DEF MacInv

LEMMA PushMac ==
  ASSUME TypeInv, ~mixed => PlaceInv, MacInv, NEW t \in Thread, Push(t)
  PROVE  MacInv'
<1>1. /\ UNCHANGED <<offq, mac, dev_id, table, mixed, doubled>> /\ th[t].at = "push"
      /\ queue' = Append(queue, th[t].id)
  BY DEF Push
<1>2. PICK p \in Place : p = (IF th[t].new THEN "dirty" ELSE "list")
  BY DEF Place
<1>3. th' = [th EXCEPT ![t].at = p]
  BY <1>2 DEF Push
<1>4. Others(t) /\ th'[t].mac = th[t].mac /\ th'[t].id = th[t].id /\ Entering(t)'
  BY ZenonT(60), <1>2, <1>3, AtEffect DEF Entering
<1>5. \A m \in Radio : Busy(t, m)' => Busy(t, m)
  BY <1>1, <1>4 DEF Busy
<1>6. OneHolder'
  BY <1>1, <1>4, <1>5, HolderStep DEF MacInv
<1>7. mac[th[t].id] = th[t].mac
  BY <1>1 DEF TypeInv, ThreadInv, ThreadOK, HasDevice
<1>8. ASSUME ~mixed PROVE AllListed'
  <2> SUFFICES ASSUME NEW d \in ToSet(queue'), mac'[d] # ZeroMac PROVE Listed(d)'
    BY DEF AllListed
  <2>1. d \in ToSet(queue) \/ d = th[t].id
    BY <1>8, PushPlace
  <2>2. CASE d = th[t].id
    BY <1>1, <1>4, <1>7, <2>2 DEF Listed
  <2>3. CASE d \in ToSet(queue)
    <3>1. Listed(d)
      BY <1>1, <1>8, <2>3 DEF MacInv, AllListed
    <3>2. \A u \in Thread : Entering(u) => u # t
      BY <1>1 DEF Entering
    <3> QED BY <1>1, <1>4, <3>1, <3>2 DEF Listed, Entering, Others
  <2> QED BY <2>1, <2>2, <2>3
<1> QED BY <1>1, <1>6, <1>8 DEF MacInv

LEMMA ListMac ==
  ASSUME TypeInv, MacInv, NEW t \in Thread, List(t)
  PROVE  MacInv'
<1>1. UNCHANGED <<queue, mac, dev_id, mixed, doubled>> /\ th[t].at = "list"
  BY DEF List, history
<1>2. Others(t) /\ th'[t] = Free
  BY DEF List, Others, TypeInv, ThreadInv
<1>3. th[t].mac \in Macs /\ mac[th[t].id] = th[t].mac
  BY <1>1 DEF TypeInv, ThreadInv, ThreadType, ThreadOK, HasDevice
<1> DEFINE e == [mac |-> th[t].mac, id |-> th[t].id]
<1>4. table' = IF th[t].mac = ZeroMac THEN table ELSE table \cup {e}
  BY DEF List
<1>5. \A u \in Thread, m \in Macs : Busy(u, m)' <=> u # t /\ Busy(u, m)
  BY <1>2, FreeFields DEF Busy, Others
<1>6. OneHolder'
  <2> SUFFICES ASSUME NEW n \in Radio \ doubled'
      PROVE /\ \A u, v \in Thread : Busy(u, n)' /\ Busy(v, n)' => u = v
            /\ \A f, g \in table' : f.mac = n /\ g.mac = n => f = g
            /\ \A u \in Thread, f \in table' : Busy(u, n)' => f.mac # n
    BY DEF OneHolder
  <2>1. n \in Macs /\ n \in Radio \ doubled /\ n # ZeroMac
    BY <1>1, ThreadsAssumption DEF Macs
  <2>2. /\ \A u, v \in Thread : Busy(u, n) /\ Busy(v, n) => u = v
        /\ \A f, g \in table : f.mac = n /\ g.mac = n => f = g
        /\ \A u \in Thread, f \in table : Busy(u, n) => f.mac # n
    BY <2>1 DEF MacInv, OneHolder
  <2>3. Busy(t, n) <=> th[t].mac = n
    BY <1>1 DEF Busy
  <2>4. e.mac = th[t].mac
    OBVIOUS
  <2>5. \A f \in table' : f \in table \/ (f = e /\ th[t].mac # ZeroMac)
    BY <1>4
  <2> HIDE DEF e
  <2>6. \A f \in table' : f.mac = n => IF Busy(t, n) THEN f = e ELSE f \in table
    BY <2>2, <2>3, <2>4, <2>5
  <2> QED BY <1>5, <2>1, <2>2, <2>3, <2>4, <2>6
<1>7. ASSUME ~mixed PROVE AllListed'
  <2> SUFFICES ASSUME NEW d \in ToSet(queue'), mac'[d] # ZeroMac PROVE Listed(d)'
    BY DEF AllListed
  <2>1. Listed(d) /\ mac'[d] = mac[d] /\ mac[d] # ZeroMac /\ table \subseteq table'
    BY <1>1, <1>4, <1>7 DEF MacInv, AllListed
  <2>2. CASE [mac |-> mac[d], id |-> d] \in table
    BY <2>1, <2>2 DEF Listed
  <2>3. CASE \E u \in Thread : Entering(u) /\ th[u].mac = mac[d] /\ th[u].id = d
    <3>1. PICK u \in Thread : Entering(u) /\ th[u].mac = mac[d] /\ th[u].id = d
      BY <2>3
    <3>2. CASE u = t
      BY <1>4, <2>1, <3>1, <3>2 DEF Listed
    <3>3. CASE u # t
      BY <1>2, <2>1, <3>1, <3>3 DEF Listed, Entering, Others
    <3> QED BY <3>2, <3>3
  <2> QED BY <2>1, <2>2, <2>3 DEF Listed
<1> QED BY <1>1, <1>6, <1>7 DEF MacInv

LEMMA OfflineMac ==
  ASSUME TypeInv, ~mixed => PlaceInv, MacInv, NEW e \in table, GoOffline(e)
  PROVE  MacInv'
<1>1. UNCHANGED <<mac, dev_id, th, mixed, doubled>> /\ table' = table \ {e}
  BY DEF GoOffline
<1>2. OneHolder'
  BY <1>1 DEF MacInv, OneHolder, Busy
<1>3. ASSUME ~mixed PROVE AllListed'
  <2>1. ToSet(queue') = ToSet(queue) \ {e.id}
    BY <1>3, OfflinePlace
  <2> SUFFICES ASSUME NEW d \in ToSet(queue'), mac[d] # ZeroMac PROVE Listed(d)'
    BY <1>1 DEF AllListed
  <2>2. d \in ToSet(queue) /\ d # e.id
    BY <2>1
  <2>3. Listed(d) /\ [mac |-> mac[d], id |-> d] # e
    BY <1>3, <2>2 DEF MacInv, AllListed
  <2> QED BY <1>1, <2>3 DEF Listed, Entering
<1> QED BY <1>1, <1>2, <1>3 DEF MacInv

LEMMA DeleteMac ==
  ASSUME TypeInv, ~mixed => PlaceInv, MacInv, NEW t \in Thread, NEW d \in Id, Delete(t, d)
  PROVE  MacInv'
<1>1. UNCHANGED <<mac, dev_id, table, th, mixed, doubled>>
  BY DEF Delete
<1>2. OneHolder'
  BY <1>1 DEF MacInv, OneHolder, Busy
<1>3. ASSUME ~mixed PROVE AllListed'
  <2>1. ToSet(queue') \subseteq ToSet(queue)
    BY <1>3, DeletePlace
  <2> QED BY <1>1, <1>3, <2>1 DEF MacInv, AllListed, Listed, Entering
<1> QED BY <1>1, <1>2, <1>3 DEF MacInv

(* A step of a save or its end.                                            *)
LEMMA SavingMac ==
  ASSUME TypeInv, MacInv, NEW t \in Thread, Others(t),
         UNCHANGED <<queue, table, mac, mixed, doubled>>, Entering(t) \/ th[t] = Free,
         \/ (th'[t].mac = th[t].mac /\ th'[t].id = th[t].id /\ Entering(t)')
         \/ (th'[t] = Free /\ th[t].mac = ZeroMac)
  PROVE  MacInv'
<1>1. \A m \in Radio : m # ZeroMac
  BY ThreadsAssumption
<1>2. \A m \in Radio : Busy(t, m)' => Busy(t, m)
  BY <1>1, FreeFields DEF Busy, Entering
<1> QED BY <1>2, MacStep

LEMMA NextMac ==
  TypeInv /\ (~mixed => PlaceInv) /\ MacInv /\ [Next]_vars => MacInv'
<1> SUFFICES ASSUME TypeInv, ~mixed => PlaceInv, MacInv, [Next]_vars PROVE MacInv'
  OBVIOUS
<1>1. ASSUME NEW t \in Thread, StartSave(t) PROVE MacInv'
  <2>1. UNCHANGED <<queue, table, mac, mixed, doubled>>
    BY <1>1 DEF StartSave, live
  <2>2. Entering(t) \/ th[t] = Free
    BY <1>1, StartSaveEffect DEF Entering, TypeInv, ThreadInv, ThreadOK
  <2>3. Others(t) /\ th'[t].mac = th[t].mac /\ th'[t].id = th[t].id /\ Entering(t)'
    BY <1>1, StartSaveEffect DEF Entering
  <2> QED BY <2>1, <2>2, <2>3, SavingMac
<1>2. ASSUME NEW t \in Thread, NEW q \in Seq(1..(dev_id - 1)), NEW at \in {"queue", "offq"},
             NEW next \in {"offq", "open"}, NEW len \in Nat, Scan(t, q, at, next, len)
      PROVE  MacInv'
  <2>1. UNCHANGED <<queue, table, mac, mixed, doubled>>
    BY <1>2 DEF Scan, live, history
  <2>2. /\ Others(t) /\ th[t].at = at /\ th'[t].at \in {at, next}
        /\ th'[t].mac = th[t].mac /\ th'[t].id = th[t].id
    BY <1>2, ScanEffect
  <2>3. Entering(t) /\ Entering(t)'
    BY <2>2 DEF Entering
  <2> QED BY <2>1, <2>2, <2>3, SavingMac
<1>3. ASSUME NEW t \in Thread, OpenFile(t) PROVE MacInv'
  <2>1. UNCHANGED <<queue, table, mac, mixed, doubled>>
    BY <1>3 DEF OpenFile
  <2>2. th[t].at = "open" /\ th' = [th EXCEPT ![t].at = "close"] /\ "close" \in Place
    BY <1>3 DEF OpenFile, Place
  <2>3. /\ Others(t) /\ th'[t].at = "close" /\ th'[t].mac = th[t].mac /\ th'[t].id = th[t].id
    BY <2>2, AtEffect
  <2>4. Entering(t) /\ Entering(t)'
    BY <2>2, <2>3 DEF Entering
  <2> QED BY <2>1, <2>3, <2>4, SavingMac
<1>4. ASSUME NEW t \in Thread, CloseFile(t) PROVE MacInv'
  <2>1. UNCHANGED <<queue, table, mac, mixed, doubled>>
    BY <1>4 DEF CloseFile, history
  <2>2. Others(t) /\ th[t].at = "close" /\ Entering(t)
    BY <1>4, CloseEffect DEF Entering
  <2>3. ~th[t].new => th[t].mac = ZeroMac
    BY <2>2 DEF TypeInv, ThreadInv, ThreadOK, HasDevice
  <2>4. \/ th'[t].mac = th[t].mac /\ th'[t].id = th[t].id /\ Entering(t)'
        \/ th'[t] = Free /\ th[t].mac = ZeroMac
    BY <1>4, <2>3, CloseEffect DEF Entering
  <2> QED BY <2>1, <2>2, <2>4, SavingMac
<1>5. ASSUME UNCHANGED vars PROVE MacInv'
  BY <1>5 DEF MacInv, OneHolder, AllListed, Listed, Entering, Busy, vars, live, history
<1>6. ASSUME NEW t \in Thread, ScanQueue(t) PROVE MacInv'
  BY <1>2, <1>6, ScanQueueIs
<1>7. ASSUME NEW t \in Thread, ScanOffq(t) PROVE MacInv'
  BY <1>2, <1>7, ScanOffqIs
<1> QED
  BY <1>1, <1>3, <1>4, <1>5, <1>6, <1>7, FindMac, KnownMac, AllocMac, PopMac, PushMac, ListMac,
     OfflineMac, DeleteMac DEF Next, Macs

LEMMA MacOnce == TypeInv /\ MacInv => OneDevicePerMac
<1> SUFFICES ASSUME TypeInv, OneHolder, AllListed, NEW c \in ToSet(queue), NEW d \in ToSet(queue),
                    c # d, mac[c] = mac[d], mac[c] # ZeroMac, mac[c] \notin doubled
             PROVE  FALSE
  BY DEF OneDevicePerMac, MacInv
<1>1. c \in 1..(dev_id - 1) /\ mac[c] \in Radio
  BY SMTT(30), ToSetProps, Counter DEF TypeInv, Macs
<1>2. Listed(c) /\ Listed(d)
  BY DEF AllListed
<1>3. /\ \A t, u \in Thread : Busy(t, mac[c]) /\ Busy(u, mac[c]) => t = u
      /\ \A e, f \in table : e.mac = mac[c] /\ f.mac = mac[c] => e = f
      /\ \A t \in Thread, e \in table : Busy(t, mac[c]) => e.mac # mac[c]
  BY <1>1 DEF OneHolder
<1>4. \A t \in Thread : Entering(t) /\ th[t].mac = mac[c] => Busy(t, mac[c])
  BY DEF Entering, Busy
<1> QED BY <1>2, <1>3, <1>4 DEF Listed

(* Two online devices have the same MAC only if two threads registered it  *)
(* at once, each having found it neither in the driver's table nor in      *)
(* offq: for any number of threads and devices.                            *)
THEOREM OnePerMacProved == Spec => []OneDevicePerMac
<1> DEFINE Inv == TypeInv /\ (~mixed => PlaceInv) /\ MacInv
<1>1. Init => Inv
  BY InitType, InitPlace, InitHolder DEF MacInv
<1>2. Inv /\ [Next]_vars => Inv'
  BY NextType, NextPlace, NextMac
<1>3. Inv => OneDevicePerMac
  BY MacOnce
<1> QED BY <1>1, <1>2, <1>3, PTL DEF Spec

-----------------------------------------------------------------------------
(* The file. *)
Closing(t) == th[t].at = "close"

FileInv ==
  /\ file = Torn \/ file \in Seq(Id)
  /\ \A t, u \in Thread : Closing(t) /\ Closing(u) => t = u
  /\ file = Torn <=> \E t \in Thread : Closing(t)

(* A save that is under way has written, or will come to, every device at  *)
(* its place in a queue.                                                   *)
Covered(t) ==
  /\ \A i \in DOMAIN queue : \/ queue[i] \in late \cup ToSet(th[t].acc)
                             \/ th[t].at = "queue" /\ i \in th[t].pos..th[t].len
  /\ \A i \in DOMAIN offq : \/ offq[i] \in late \cup ToSet(th[t].acc)
                            \/ th[t].at = "queue"
                            \/ th[t].at = "offq" /\ i \in th[t].pos..th[t].len

SaveInv ==
  /\ \A t \in Thread : Saving(t) => Covered(t)
  /\ (\E t \in Thread : Saving(t)) =>
       \A u \in Thread : Carries(u) /\ ~th[u].new => th[u].id \in late

(* When nobody saves, what the file lacks is late or is saved next.        *)
Settled ==
  ToSet(file) \cup late \cup {th[t].id : t \in {u \in Thread : th[u].at = "dirty"}}

RestInv ==
  (\A t \in Thread : ~Saving(t)) =>
    /\ Queued \subseteq Settled
    /\ \A t \in Thread : Carries(t) /\ ~th[t].new => th[t].id \in Settled

WriteInv == (~clash => FileInv) /\ (~mixed => SaveInv) /\ (~mixed /\ ~clash => RestInv)

LEMMA InitWrite == Init => TypeInv /\ WriteInv
<1> SUFFICES ASSUME Init PROVE WriteInv
  BY InitType
<1>1. TypeInv /\ file = offq /\ queue = <<>> /\ \A t \in Thread : th[t].at = "idle"
  BY InitType, FreeFields DEF Init
<1>2. offq \in Seq(Id) /\ file # Torn
  <2>1. \A i \in 1..Len(offq) : offq[i] \in Id /\ offq[i] \in Nat \ {0}
    BY <1>1, Counter DEF TypeInv
  <2>2. Len(offq) \in Nat /\ offq = [i \in 1..Len(offq) |-> offq[i]]
    BY <1>1 DEF TypeInv
  <2>3. Torn[1] = 0 /\ 1 \in 1..Len(Torn)
    BY DEF Torn
  <2> QED BY <1>1, <2>1, <2>2, <2>3
<1> QED BY <1>1, <1>2 DEF WriteInv, FileInv, SaveInv, RestInv, Closing, Carries, Saving,
                          Queued, ToSet, Settled

(* No file that was written is torn.                                       *)
LEMMA WholeFile == ASSUME NEW acc \in Seq(Id) PROVE acc # Torn
<1>1. Torn[1] = 0 /\ Len(Torn) = 1
  BY DEF Torn
<1>2. \A i \in 1..Len(acc) : acc[i] \in Id
  BY ElementOfSeq
<1> QED BY <1>1, <1>2 DEF Id

(* What is at or behind a device taken out of a queue during a save is     *)
(* late, and the ones before it stay where they are.                       *)
LEMMA MovedUp ==
  ASSUME NEW S, NEW q \in Seq(S), NEW p \in 1..Len(q), \E t \in Thread : Saving(t)
  PROVE  /\ q[p] \in AtRisk(q, p)
         /\ DOMAIN q = 1..Len(q) /\ DOMAIN RemoveAt(q, p) = 1..(Len(q) - 1)
         /\ \A j \in DOMAIN RemoveAt(q, p) :
              RemoveAt(q, p)[j] \in AtRisk(q, p) \/ (j \in DOMAIN q /\ RemoveAt(q, p)[j] = q[j])
<1>1. Len(q) \in Nat /\ DOMAIN q = 1..Len(q)
  OBVIOUS
<1>2. AtRisk(q, p) = {q[i] : i \in p..Len(q)}
  BY DEF AtRisk
<1> DEFINE r == RemoveAt(q, p)
<1>3. /\ r \in Seq(S) /\ Len(r) = Len(q) - 1
      /\ \A j \in 1..(Len(q) - 1) : r[j] = IF j < p THEN q[j] ELSE q[j + 1]
  BY RemoveAtProps
<1>4. DOMAIN r = 1..(Len(q) - 1)
  BY <1>3
<1> HIDE DEF r
<1>5. ASSUME NEW j \in DOMAIN r
      PROVE  r[j] \in AtRisk(q, p) \/ (j \in DOMAIN q /\ r[j] = q[j])
  <2>1. j \in 1..(Len(q) - 1) /\ j \in DOMAIN q /\ p \in Nat
    BY <1>1, <1>4
  <2>2. CASE j < p
    BY <1>3, <2>1, <2>2
  <2>3. CASE ~(j < p)
    <3>1. j + 1 \in p..Len(q) /\ r[j] = q[j + 1]
      BY <1>1, <1>3, <2>1, <2>3
    <3> QED BY <1>2, <3>1
  <2> QED BY <2>2, <2>3
<1>6. q[p] \in AtRisk(q, p)
  <2>1. p \in p..Len(q)
    BY <1>1
  <2> QED BY <1>2, <2>1
<1> QED BY <1>1, <1>4, <1>5, <1>6 DEF r

-----------------------------------------------------------------------------
(* FileInv: only OpenFile and CloseFile touch the file.                    *)

LEMMA FileStep ==
  ASSUME FileInv, NEW t \in Thread, Others(t), file' = file, Closing(t)' <=> Closing(t)
  PROVE  FileInv'
<1>1. \A u \in Thread : Closing(u)' <=> Closing(u)
  BY DEF Closing, Others
<1> QED BY <1>1 DEF FileInv

LEMMA OpenFileInv ==
  ASSUME TypeInv, FileInv, NEW t \in Thread, OpenFile(t), ~clash'
  PROVE  FileInv'
<1>1. /\ th[t].at = "open" /\ th' = [th EXCEPT ![t].at = "close"] /\ "close" \in Place
      /\ file' = Torn /\ \A u \in Thread : ~Closing(u)
  BY DEF OpenFile, Place, Closing
<1>2. Others(t) /\ Closing(t)'
  BY <1>1, AtEffect DEF Closing
<1>3. \A u \in Thread : Closing(u)' <=> u = t
  BY <1>1, <1>2 DEF Closing, Others
<1> QED BY <1>1, <1>3 DEF FileInv

LEMMA CloseFileInv ==
  ASSUME TypeInv, FileInv, NEW t \in Thread, CloseFile(t)
  PROVE  FileInv' /\ file' = th[t].acc
<1>1. Others(t) /\ Closing(t) /\ ~Closing(t)'
  BY CloseEffect, FreeFields DEF Closing
<1>2. file = Torn /\ \A u \in Thread : Closing(u) => u = t
  BY <1>1 DEF FileInv
<1>3. file' = th[t].acc
  BY <1>2 DEF CloseFile, Closing
<1>4. th[t].acc \in Seq(Id)
  BY DEF TypeInv, ThreadInv, ThreadType
<1>5. \A u \in Thread : ~Closing(u)'
  BY <1>1, <1>2 DEF Closing, Others
<1> QED BY <1>3, <1>4, <1>5, WholeFile DEF FileInv

-----------------------------------------------------------------------------
(* SaveInv. *)

(* A step of a thread that changes no queue and does not save.             *)
LEMMA CoveredStep ==
  ASSUME SaveInv, NEW t \in Thread, Others(t), UNCHANGED <<queue, offq>>, late \subseteq late',
         Saving(t)' => Saving(t) /\ Covered(t)',
         Carries(t)' /\ ~th'[t].new => Carries(t) /\ ~th[t].new /\ th'[t].id = th[t].id
  PROVE  SaveInv'
<1>1. \A u \in Thread : Saving(u)' => Saving(u)
  BY DEF Saving, Others
<1>2. ASSUME NEW u \in Thread, Saving(u)' PROVE Covered(u)'
  <2>1. CASE u = t
    BY <1>2, <2>1
  <2>2. CASE u # t
    <3>1. Covered(u) /\ th'[u] = th[u]
      BY <1>1, <1>2, <2>2 DEF SaveInv, Others
    <3> QED BY <3>1 DEF Covered
  <2> QED BY <2>1, <2>2
<1>3. ASSUME NEW u \in Thread, Saving(u)', NEW v \in Thread, Carries(v)', ~th'[v].new
      PROVE  th'[v].id \in late'
  <2>1. Carries(v) /\ ~th[v].new /\ th'[v].id = th[v].id
    BY <1>3 DEF Others, Carries
  <2> QED BY <1>1, <1>3, <2>1 DEF SaveInv
<1> QED BY <1>2, <1>3 DEF SaveInv

(* A step of a thread that is not saving, over queues in which only what   *)
(* is late has moved or come in.                                           *)
LEMMA MovedStep ==
  ASSUME SaveInv, NEW t \in Thread, Others(t), ~Saving(t), ~Saving(t)', late \subseteq late',
         (\E u \in Thread : Saving(u)) =>
           /\ \A i \in DOMAIN queue' :
                queue'[i] \in late' \/ (i \in DOMAIN queue /\ queue'[i] = queue[i])
           /\ \A i \in DOMAIN offq' :
                offq'[i] \in late' \/ (i \in DOMAIN offq /\ offq'[i] = offq[i])
           /\ Carries(t)' /\ ~th'[t].new => th'[t].id \in late'
  PROVE  SaveInv'
<1>1. \A u \in Thread : Saving(u)' => Saving(u) /\ u # t /\ th'[u] = th[u]
  BY DEF Saving, Others
<1>2. ASSUME NEW u \in Thread, Saving(u)' PROVE Covered(u)'
  <2>1. Covered(u) /\ th'[u] = th[u] /\ Saving(u)
    BY <1>1, <1>2 DEF SaveInv
  <2> QED BY <2>1 DEF Covered
<1>3. ASSUME NEW u \in Thread, Saving(u)', NEW v \in Thread, Carries(v)', ~th'[v].new
      PROVE  th'[v].id \in late'
  <2>1. CASE v = t
    BY <1>1, <1>3, <2>1
  <2>2. CASE v # t
    <3>1. Carries(v) /\ ~th[v].new /\ th'[v].id = th[v].id
      BY <1>3, <2>2 DEF Others, Carries
    <3> QED BY <1>1, <1>3, <3>1 DEF SaveInv
  <2> QED BY <2>1, <2>2
<1> QED BY <1>2, <1>3 DEF SaveInv

LEMMA ScanCovers ==
  ASSUME TypeInv, SaveInv, NEW t \in Thread,
         \/ Scan(t, queue, "queue", "offq", Len(offq))
         \/ Scan(t, offq, "offq", "open", 0)
  PROVE  SaveInv'
<1>1. UNCHANGED <<queue, offq, late>>
  BY DEF Scan, live, history
<1>2. /\ queue \in Seq(1..(dev_id - 1)) /\ offq \in Seq(1..(dev_id - 1))
      /\ Len(queue) \in Nat /\ Len(offq) \in Nat
      /\ DOMAIN queue = 1..Len(queue) /\ DOMAIN offq = 1..Len(offq)
  BY DEF TypeInv
<1>3. /\ th[t].pos \in Nat /\ th[t].len \in Nat /\ th[t].acc \in Seq(Id)
      /\ \A q \in {queue, offq} : \A i \in DOMAIN q : q[i] \in Id
  <2>1. th[t] \in ThreadType
    BY DEF TypeInv, ThreadInv
  <2>2. \A d \in 1..(dev_id - 1) : d \in Id
    BY Counter
  <2>3. /\ \A i \in DOMAIN queue : queue[i] \in 1..(dev_id - 1)
        /\ \A i \in DOMAIN offq : offq[i] \in 1..(dev_id - 1)
    BY <1>2, ElementOfSeq
  <2> QED BY <2>1, <2>2, <2>3 DEF ThreadType
<1>4. ASSUME NEW q \in {queue, offq}
      PROVE  /\ ToSet(th[t].acc) \subseteq ToSet(Peeked(th[t].acc, q, th[t].pos))
             /\ th[t].pos \in DOMAIN q => q[th[t].pos] \in ToSet(Peeked(th[t].acc, q, th[t].pos))
  <2>1. CASE th[t].pos \in DOMAIN q
    <3>1. PICK d \in Id : d = q[th[t].pos]
      BY <1>3, <2>1
    <3>2. ToSet(Append(th[t].acc, d)) = ToSet(th[t].acc) \cup {d}
      BY <1>3, PushTail
    <3> QED BY <2>1, <3>1, <3>2 DEF Peeked
  <2>2. CASE th[t].pos \notin DOMAIN q
    BY <2>2 DEF Peeked
  <2> QED BY <2>1, <2>2
<1>5. CASE Scan(t, queue, "queue", "offq", Len(offq))
  <2>1. /\ th' \in [Thread -> ThreadType] /\ Others(t) /\ th[t].at = "queue"
        /\ \/ /\ th[t].pos > th[t].len /\ th'[t].at = "offq" /\ th'[t].pos = 1
              /\ th'[t].len = Len(offq) /\ th'[t].acc = th[t].acc
           \/ /\ th[t].pos <= th[t].len /\ th'[t].at = "queue" /\ th'[t].pos = th[t].pos + 1
              /\ th'[t].len = th[t].len /\ th'[t].acc = Peeked(th[t].acc, queue, th[t].pos)
    BY <1>2, <1>5, ScanEffect
  <2>2. Saving(t) /\ ~Carries(t)' /\ Covered(t)
    BY <2>1 DEF Saving, Carries, SaveInv
  <2>3. Covered(t)'
    <3>1. CASE th[t].pos > th[t].len
      <4>1. th'[t].at = "offq" /\ th'[t].pos = 1 /\ th'[t].len = Len(offq) /\ th'[t].acc = th[t].acc
        BY <1>3, <2>1, <3>1
      <4>2. \A i \in DOMAIN queue : ~(i \in th[t].pos..th[t].len)
        BY <1>3, <3>1
      <4> QED BY <1>1, <1>2, <2>1, <2>2, <4>1, <4>2 DEF Covered
    <3>2. CASE ~(th[t].pos > th[t].len)
      <4>1. /\ th'[t].at = "queue" /\ th'[t].pos = th[t].pos + 1 /\ th'[t].len = th[t].len
            /\ th'[t].acc = Peeked(th[t].acc, queue, th[t].pos)
        BY <1>3, <2>1, <3>2
      <4>2. \A i \in DOMAIN queue : i \in th[t].pos..th[t].len =>
                                      i = th[t].pos \/ i \in th'[t].pos..th'[t].len
        BY <1>2, <1>3, <4>1
      <4> QED BY <1>1, <1>4, <2>1, <2>2, <4>1, <4>2 DEF Covered
    <3> QED BY <3>1, <3>2
  <2> QED BY <1>1, <2>1, <2>2, <2>3, CoveredStep
<1>6. CASE Scan(t, offq, "offq", "open", 0)
  <2>1. /\ th' \in [Thread -> ThreadType] /\ Others(t) /\ th[t].at = "offq"
        /\ \/ /\ th[t].pos > th[t].len /\ th'[t].at = "open" /\ th'[t].acc = th[t].acc
           \/ /\ th[t].pos <= th[t].len /\ th'[t].at = "offq" /\ th'[t].pos = th[t].pos + 1
              /\ th'[t].len = th[t].len /\ th'[t].acc = Peeked(th[t].acc, offq, th[t].pos)
    BY <1>2, <1>6, ScanEffect
  <2>2. Saving(t) /\ ~Carries(t)' /\ Covered(t)
    BY <2>1 DEF Saving, Carries, SaveInv
  <2>3. Covered(t)'
    <3>1. CASE th[t].pos > th[t].len
      <4>1. th'[t].at = "open" /\ th'[t].acc = th[t].acc
        BY <1>3, <2>1, <3>1
      <4>2. \A i \in DOMAIN offq : ~(i \in th[t].pos..th[t].len)
        BY <1>3, <3>1
      <4> QED BY <1>1, <2>1, <2>2, <4>1, <4>2 DEF Covered
    <3>2. CASE ~(th[t].pos > th[t].len)
      <4>1. /\ th'[t].at = "offq" /\ th'[t].pos = th[t].pos + 1 /\ th'[t].len = th[t].len
            /\ th'[t].acc = Peeked(th[t].acc, offq, th[t].pos)
        BY <1>3, <2>1, <3>2
      <4>2. \A i \in DOMAIN offq : i \in th[t].pos..th[t].len =>
                                     i = th[t].pos \/ i \in th'[t].pos..th'[t].len
        BY <1>2, <1>3, <4>1
      <4> QED BY <1>1, <1>4, <2>1, <2>2, <4>1, <4>2 DEF Covered
    <3> QED BY <3>1, <3>2
  <2> QED BY <1>1, <2>1, <2>2, <2>3, CoveredStep
<1> QED BY <1>5, <1>6

LEMMA StartSaveCovers ==
  ASSUME TypeInv, SaveInv, NEW t \in Thread, StartSave(t)
  PROVE  SaveInv'
<1>1. /\ UNCHANGED <<queue, offq>> /\ Len(queue) \in Nat /\ DOMAIN queue = 1..Len(queue)
      /\ late' = late \cup {th[u].id : u \in {v \in Thread : th[v].at = "push" /\ ~th[v].new}}
  BY DEF StartSave, live, TypeInv
<1>2. /\ Others(t) /\ th[t].at \in {"dirty", "idle"} /\ th'[t].at = "queue"
      /\ th'[t].pos = 1 /\ th'[t].len = Len(queue)
  BY StartSaveEffect
<1>3. Covered(t)'
  BY <1>1, <1>2 DEF Covered
<1>4. ASSUME NEW u \in Thread, u # t, Saving(u)' PROVE Covered(u)'
  <2>1. Covered(u) /\ th'[u] = th[u]
    BY <1>2, <1>4 DEF SaveInv, Saving, Others
  <2> QED BY <1>1, <2>1 DEF Covered
<1>5. ASSUME NEW u \in Thread, Carries(u)', ~th'[u].new PROVE th'[u].id \in late'
  <2>1. th'[u] = th[u]
    BY <1>2, <1>5 DEF Carries, Others
  <2> QED BY <1>1, <1>5, <2>1 DEF Carries
<1> QED BY <1>3, <1>4, <1>5 DEF SaveInv

LEMMA PopCovers ==
  ASSUME TypeInv, PlaceInv, SaveInv, NEW t \in Thread, PopNth(t), ~mixed'
  PROVE  SaveInv'
<1>1. /\ queue' = queue /\ th[t].at = "pop"
      /\ th' = [th EXCEPT ![t].at = "push"] /\ "push" \in Place
  BY DEF PopNth, Place
<1>2. Others(t) /\ th'[t].at = "push" /\ th'[t].id = th[t].id
  BY <1>1, AtEffect
<1>3. PICK p \in 1..Len(offq) : /\ offq[p] = th[t].id /\ offq' = RemoveAt(offq, p)
                                /\ late' = late \cup AtRisk(offq, p)
  BY PopPlace
<1>4. ~Saving(t) /\ ~Saving(t)'
  BY <1>1, <1>2 DEF Saving
<1>5. offq \in Seq(1..(dev_id - 1))
  BY DEF TypeInv
<1>6. ASSUME \E u \in Thread : Saving(u)
      PROVE  /\ \A i \in DOMAIN offq' :
                  offq'[i] \in late' \/ (i \in DOMAIN offq /\ offq'[i] = offq[i])
             /\ th'[t].id \in late'
  BY <1>2, <1>3, <1>5, <1>6, MovedUp
<1> QED BY <1>1, <1>2, <1>3, <1>4, <1>6, MovedStep

LEMMA PushCovers ==
  ASSUME TypeInv, SaveInv, NEW t \in Thread, Push(t)
  PROVE  SaveInv'
<1>1. /\ offq' = offq /\ th[t].at = "push" /\ queue' = Append(queue, th[t].id)
      /\ late' = late \cup (IF \E u \in Thread : Saving(u) THEN {th[t].id} ELSE {})
  BY DEF Push
<1>2. PICK p \in Place : p = (IF th[t].new THEN "dirty" ELSE "list")
  BY DEF Place
<1>3. th' = [th EXCEPT ![t].at = p]
  BY <1>2 DEF Push
<1>4. Others(t) /\ th'[t].at \in {"dirty", "list"}
  BY <1>2, <1>3, AtEffect
<1>5. ~Saving(t) /\ ~Saving(t)' /\ ~Carries(t)'
  BY <1>1, <1>4 DEF Saving, Carries
<1>6. \A i \in DOMAIN queue' :
        queue'[i] = th[t].id \/ (i \in DOMAIN queue /\ queue'[i] = queue[i])
  <2>1. queue \in Seq(1..(dev_id - 1)) /\ Len(queue) \in Nat /\ DOMAIN queue = 1..Len(queue)
    BY DEF TypeInv
  <2>2. th[t].id \in 1..(dev_id - 1)
    BY <1>1 DEF TypeInv, ThreadInv, ThreadOK, HasDevice
  <2> QED BY <1>1, <2>1, <2>2
<1> QED BY <1>1, <1>4, <1>5, <1>6, MovedStep

(* A device taken out of the online queue by a thread that does not save.  *)
LEMMA OutCovers ==
  ASSUME TypeInv, SaveInv, NEW t \in Thread, th[t].at = "idle", th' = th,
         NEW d \in ToSet(queue), queue' = RemoveAt(queue, IndexOf(queue, d)),
         late' = late \cup AtRisk(queue, IndexOf(queue, d)),
         offq' = offq \/ offq' = Append(offq, d)
  PROVE  SaveInv'
<1>1. PICK p \in 1..Len(queue) : p = IndexOf(queue, d) /\ queue[p] = d
  BY TakeOut
<1>2. queue' = RemoveAt(queue, p) /\ late' = late \cup AtRisk(queue, p)
  BY <1>1
<1>3. Others(t) /\ ~Saving(t) /\ ~Saving(t)' /\ ~Carries(t)'
  BY DEF Others, Saving, Carries
<1>4. /\ queue \in Seq(1..(dev_id - 1)) /\ offq \in Seq(1..(dev_id - 1)) /\ d \in 1..(dev_id - 1)
      /\ Len(offq) \in Nat /\ DOMAIN offq = 1..Len(offq)
  BY TakeOut DEF TypeInv
<1>5. \A i \in DOMAIN offq' : offq'[i] = d \/ (i \in DOMAIN offq /\ offq'[i] = offq[i])
  BY <1>4
<1>6. ASSUME \E u \in Thread : Saving(u)
      PROVE  /\ d \in late'
             /\ \A i \in DOMAIN queue' :
                  queue'[i] \in late' \/ (i \in DOMAIN queue /\ queue'[i] = queue[i])
  BY <1>1, <1>2, <1>4, <1>6, MovedUp
<1> QED BY <1>2, <1>3, <1>5, <1>6, MovedStep

-----------------------------------------------------------------------------
(* RestInv. *)

LEMMA RestStep ==
  ASSUME RestInv, NEW t \in Thread, Others(t), ~Saving(t), th[t].at # "dirty",
         file' = file, late \subseteq late',
         \A d \in Queued' : \/ d \in Queued
                            \/ (Carries(t) /\ ~th[t].new /\ d = th[t].id)
                            \/ (th'[t].at = "dirty" /\ d = th'[t].id),
         Carries(t)' /\ ~th'[t].new =>
           th'[t].id \in Queued \/ (Carries(t) /\ ~th[t].new /\ th'[t].id = th[t].id)
  PROVE  RestInv'
<1> SUFFICES ASSUME \A u \in Thread : ~Saving(u)'
    PROVE /\ Queued' \subseteq Settled'
          /\ \A u \in Thread : Carries(u)' /\ ~th'[u].new => th'[u].id \in Settled'
  BY DEF RestInv
<1>1. /\ Queued \subseteq Settled
      /\ \A u \in Thread : Carries(u) /\ ~th[u].new => th[u].id \in Settled
  BY DEF RestInv, Saving, Others
<1>2. Settled \subseteq Settled' /\ (th'[t].at = "dirty" => th'[t].id \in Settled')
  <2>1. \A u \in Thread : th[u].at = "dirty" => th'[u] = th[u]
    BY DEF Others
  <2> QED BY <2>1 DEF Settled
<1>3. Queued' \subseteq Settled'
  BY <1>1, <1>2
<1>4. ASSUME NEW u \in Thread, Carries(u)', ~th'[u].new
      PROVE  th'[u].id \in Settled'
  <2>1. CASE u = t
    BY <1>1, <1>2, <1>4, <2>1
  <2>2. CASE u # t
    <3>1. Carries(u) /\ ~th[u].new /\ th'[u].id = th[u].id
      BY <1>4, <2>2 DEF Carries, Others
    <3> QED BY <1>1, <1>2, <3>1
  <2> QED BY <2>1, <2>2
<1> QED BY <1>3, <1>4

LEMMA RestBusy == ASSUME NEW t \in Thread, Saving(t)' PROVE RestInv'
BY DEF RestInv

LEMMA RestClosed ==
  ASSUME TypeInv, SaveInv, NEW t \in Thread, CloseFile(t), file' = th[t].acc
  PROVE  RestInv'
<1>1. UNCHANGED <<queue, offq, late>>
  BY DEF CloseFile, history
<1>2. Others(t) /\ Saving(t) /\ ~Carries(t)' /\ th[t].at = "close"
  BY CloseEffect, FreeFields DEF Saving, Carries
<1>3. Covered(t)
  BY <1>2 DEF SaveInv
<1>4. \A d \in Queued : d \in ToSet(file') \cup late
  BY <1>2, <1>3 DEF Covered, Queued, ToSet
<1>5. Queued' = Queued
  BY <1>1 DEF Queued
<1>6. \A u \in Thread : Carries(u)' /\ ~th'[u].new => th'[u].id \in late
  BY <1>2 DEF SaveInv, Carries, Others
<1>7. Queued' \subseteq Settled' /\ late \subseteq Settled'
  BY <1>1, <1>4, <1>5 DEF Settled
<1> QED BY <1>6, <1>7 DEF RestInv

-----------------------------------------------------------------------------
(* The steps one by one. *)

LEMMA FindWrite ==
  ASSUME TypeInv, WriteInv, NEW t \in Thread, Others(t), th[t] = Free,
         UNCHANGED <<queue, offq, file, late, mixed, clash>>,
         th'[t].at \in {"pop", "alloc"}
  PROVE  WriteInv'
<1>1. /\ ~Saving(t) /\ ~Saving(t)' /\ ~Carries(t) /\ ~Carries(t)' /\ th[t].at # "dirty"
      /\ Closing(t)' <=> Closing(t)
  BY FreeFields DEF Saving, Carries, Closing
<1>2. Queued' = Queued
  BY DEF Queued
<1>3. FileInv => FileInv'
  BY <1>1, FileStep
<1>4. SaveInv => SaveInv'
  BY <1>1, CoveredStep
<1>5. RestInv => RestInv'
  BY <1>1, <1>2, RestStep
<1> QED BY <1>3, <1>4, <1>5 DEF WriteInv

LEMMA AllocWrite ==
  ASSUME TypeInv, WriteInv, NEW t \in Thread, Alloc(t)
  PROVE  WriteInv'
<1>1. UNCHANGED <<queue, offq, file, late, mixed, clash>>
  BY DEF Alloc, history
<1>2. Others(t) /\ th[t].at = "alloc" /\ th'[t].at = "push" /\ th'[t].new
  BY AllocEffect
<1>3. /\ ~Saving(t) /\ ~Saving(t)' /\ ~Carries(t) /\ th[t].at # "dirty"
      /\ Closing(t)' <=> Closing(t)
  BY <1>2 DEF Saving, Carries, Closing
<1>4. Queued' = Queued
  BY <1>1 DEF Queued
<1>5. FileInv => FileInv'
  BY <1>1, <1>2, <1>3, FileStep
<1>6. SaveInv => SaveInv'
  BY <1>1, <1>2, <1>3, CoveredStep
<1>7. RestInv => RestInv'
  BY <1>1, <1>2, <1>3, <1>4, RestStep
<1> QED BY <1>1, <1>5, <1>6, <1>7 DEF WriteInv

LEMMA PopWrite ==
  ASSUME TypeInv, ~mixed => PlaceInv, WriteInv, NEW t \in Thread, PopNth(t)
  PROVE  WriteInv'
<1>1. /\ UNCHANGED <<queue, file, clash>> /\ th[t].at = "pop" /\ (mixed => mixed')
      /\ th' = [th EXCEPT ![t].at = "push"] /\ "push" \in Place /\ late \subseteq late'
  BY DEF PopNth, Place
<1>2. Others(t) /\ th'[t].at = "push" /\ th'[t].id = th[t].id
  BY <1>1, AtEffect
<1>3. /\ ~Saving(t) /\ ~Saving(t)' /\ ~Carries(t) /\ th[t].at # "dirty"
      /\ Closing(t)' <=> Closing(t)
  BY <1>1, <1>2 DEF Saving, Carries, Closing
<1>4. FileInv => FileInv'
  BY <1>1, <1>2, <1>3, FileStep
<1>5. ASSUME ~mixed', SaveInv PROVE SaveInv'
  BY <1>1, <1>5, PopCovers
<1>6. ASSUME ~mixed', RestInv PROVE RestInv'
  <2>1. /\ ToSet(offq') = ToSet(offq) \ {th[t].id} /\ th[t].pos \in 1..Len(offq)
        /\ offq[th[t].pos] = th[t].id
    BY <1>1, <1>6, PopPlace
  <2>2. th[t].id \in Queued
    BY <2>1, ToSetProps DEF TypeInv, Queued
  <2>3. Queued' \subseteq Queued
    BY <1>1, <2>1 DEF Queued
  <2> QED BY <1>1, <1>2, <1>3, <1>6, <2>2, <2>3, RestStep
<1> QED BY <1>1, <1>4, <1>5, <1>6 DEF WriteInv

LEMMA PushWrite ==
  ASSUME TypeInv, ~mixed => PlaceInv, WriteInv, NEW t \in Thread, Push(t)
  PROVE  WriteInv'
<1>1. /\ UNCHANGED <<offq, file, clash, mixed>> /\ th[t].at = "push" /\ late \subseteq late'
  BY DEF Push
<1>2. PICK p \in Place : p = (IF th[t].new THEN "dirty" ELSE "list")
  BY DEF Place
<1>3. th' = [th EXCEPT ![t].at = p]
  BY <1>2 DEF Push
<1>4. /\ Others(t) /\ th'[t].at = (IF th[t].new THEN "dirty" ELSE "list")
      /\ th'[t].id = th[t].id
  BY <1>2, <1>3, AtEffect
<1>5. /\ ~Saving(t) /\ ~Saving(t)' /\ Carries(t) /\ ~Carries(t)' /\ th[t].at # "dirty"
      /\ Closing(t)' <=> Closing(t)
  BY <1>1, <1>4 DEF Saving, Carries, Closing
<1>6. FileInv => FileInv'
  BY <1>1, <1>4, <1>5, FileStep
<1>7. SaveInv => SaveInv'
  BY PushCovers
<1>8. ASSUME ~mixed, RestInv PROVE RestInv'
  <2>1. Queued' = Queued \cup {th[t].id}
    BY <1>1, <1>8, PushPlace DEF Queued
  <2> QED BY <1>1, <1>4, <1>5, <1>8, <2>1, RestStep
<1> QED BY <1>1, <1>6, <1>7, <1>8 DEF WriteInv

LEMMA ListWrite ==
  ASSUME TypeInv, WriteInv, NEW t \in Thread, List(t)
  PROVE  WriteInv'
<1>1. UNCHANGED <<queue, offq, file, late, mixed, clash>> /\ th[t].at = "list"
  BY DEF List, history
<1>2. Others(t) /\ th'[t] = Free
  BY DEF List, Others, TypeInv, ThreadInv
<1>3. /\ ~Saving(t) /\ ~Saving(t)' /\ ~Carries(t) /\ ~Carries(t)' /\ th[t].at # "dirty"
      /\ Closing(t)' <=> Closing(t)
  BY <1>1, <1>2, FreeFields DEF Saving, Carries, Closing
<1>4. Queued' = Queued
  BY <1>1 DEF Queued
<1>5. FileInv => FileInv'
  BY <1>1, <1>2, <1>3, FileStep
<1>6. SaveInv => SaveInv'
  BY <1>1, <1>2, <1>3, CoveredStep
<1>7. RestInv => RestInv'
  BY <1>1, <1>2, <1>3, <1>4, RestStep
<1> QED BY <1>1, <1>5, <1>6, <1>7 DEF WriteInv

LEMMA OfflineWrite ==
  ASSUME TypeInv, ~mixed => PlaceInv, WriteInv, NEW e \in table, GoOffline(e)
  PROVE  WriteInv'
<1>1. UNCHANGED <<file, th, mixed, clash>> /\ th[Monitor].at = "idle" /\ late \subseteq late'
  BY DEF GoOffline
<1>2. Monitor \in Thread /\ Others(Monitor)
  BY <1>1, ThreadsAssumption DEF Thread, Others
<1>3. /\ ~Saving(Monitor) /\ ~Saving(Monitor)' /\ ~Carries(Monitor) /\ ~Carries(Monitor)'
      /\ Closing(Monitor)' <=> Closing(Monitor)
  BY <1>1 DEF Saving, Carries, Closing
<1>4. FileInv => FileInv'
  BY <1>1, <1>2, <1>3, FileStep
<1>5. ASSUME SaveInv PROVE SaveInv'
  <2>1. CASE e.id \in ToSet(queue)
    <3>1. /\ queue' = RemoveAt(queue, IndexOf(queue, e.id)) /\ offq' = Append(offq, e.id)
          /\ late' = late \cup AtRisk(queue, IndexOf(queue, e.id))
      BY <2>1 DEF GoOffline
    <3> QED BY <1>1, <1>2, <1>5, <2>1, <3>1, OutCovers
  <2>2. CASE e.id \notin ToSet(queue)
    <3>1. UNCHANGED <<queue, offq>>
      BY <2>2 DEF GoOffline
    <3> QED BY <1>1, <1>2, <1>3, <1>5, <3>1, CoveredStep
  <2> QED BY <2>1, <2>2
<1>6. ASSUME ~mixed, RestInv PROVE RestInv'
  <2>1. Queued' \subseteq Queued
    BY <1>6, OfflinePlace DEF Queued
  <2> QED BY <1>1, <1>2, <1>3, <1>6, <2>1, RestStep
<1> QED BY <1>1, <1>4, <1>5, <1>6 DEF WriteInv

LEMMA DeleteWrite ==
  ASSUME TypeInv, ~mixed => PlaceInv, WriteInv, NEW t \in Thread, NEW d \in Id, Delete(t, d)
  PROVE  WriteInv'
<1>1. /\ UNCHANGED <<offq, file, th, mixed, clash>> /\ th[t].at = "idle" /\ late \subseteq late'
      /\ d \in ToSet(queue) /\ queue' = RemoveAt(queue, IndexOf(queue, d))
      /\ late' = late \cup AtRisk(queue, IndexOf(queue, d))
  BY DEF Delete
<1>2. /\ Others(t) /\ ~Saving(t) /\ ~Saving(t)' /\ ~Carries(t) /\ ~Carries(t)'
      /\ Closing(t)' <=> Closing(t)
  BY <1>1 DEF Saving, Carries, Closing, Others
<1>3. FileInv => FileInv'
  BY <1>1, <1>2, FileStep
<1>4. SaveInv => SaveInv'
  BY <1>1, OutCovers
<1>5. ASSUME ~mixed, RestInv PROVE RestInv'
  <2>1. Queued' \subseteq Queued
    BY <1>1, <1>5, DeletePlace DEF Queued
  <2> QED BY <1>1, <1>2, <1>5, <2>1, RestStep
<1> QED BY <1>1, <1>3, <1>4, <1>5 DEF WriteInv

LEMMA StartSaveWrite ==
  ASSUME TypeInv, WriteInv, NEW t \in Thread, StartSave(t)
  PROVE  WriteInv'
<1>1. UNCHANGED <<queue, offq, file, mixed, clash>>
  BY DEF StartSave, live
<1>2. Others(t) /\ th[t].at \in {"dirty", "idle"} /\ th'[t].at = "queue"
  BY StartSaveEffect
<1>3. Saving(t)' /\ (Closing(t)' <=> Closing(t))
  BY <1>2 DEF Saving, Closing
<1>4. FileInv => FileInv'
  BY <1>1, <1>2, <1>3, FileStep
<1> QED BY <1>1, <1>3, <1>4, StartSaveCovers, RestBusy DEF WriteInv

LEMMA ScanWrite ==
  ASSUME TypeInv, WriteInv, NEW t \in Thread,
         \/ Scan(t, queue, "queue", "offq", Len(offq))
         \/ Scan(t, offq, "offq", "open", 0)
  PROVE  WriteInv'
<1>1. UNCHANGED <<queue, offq, file, mixed, clash>>
  BY DEF Scan, live, history
<1>2. /\ queue \in Seq(1..(dev_id - 1)) /\ offq \in Seq(1..(dev_id - 1)) /\ Len(offq) \in Nat
  BY DEF TypeInv
<1>3. Others(t) /\ th[t].at \in {"queue", "offq"} /\ th'[t].at \in {"queue", "offq", "open"}
  BY <1>2, ScanEffect
<1>4. Saving(t)' /\ (Closing(t)' <=> Closing(t))
  BY <1>3 DEF Saving, Closing
<1>5. FileInv => FileInv'
  BY <1>1, <1>3, <1>4, FileStep
<1> QED BY <1>1, <1>4, <1>5, ScanCovers, RestBusy DEF WriteInv

LEMMA OpenWrite ==
  ASSUME TypeInv, WriteInv, NEW t \in Thread, OpenFile(t)
  PROVE  WriteInv'
<1>1. /\ UNCHANGED <<queue, offq, late, mixed>> /\ (clash => clash')
      /\ th[t].at = "open" /\ th' = [th EXCEPT ![t].at = "close"] /\ "close" \in Place
  BY DEF OpenFile, Place
<1>2. Others(t) /\ th'[t].at = "close" /\ th'[t].acc = th[t].acc
  BY <1>1, AtEffect
<1>3. Saving(t) /\ Saving(t)' /\ ~Carries(t)'
  BY <1>1, <1>2 DEF Saving, Carries
<1>4. SaveInv => Covered(t)'
  BY <1>1, <1>2, <1>3 DEF SaveInv, Covered
<1>5. SaveInv => SaveInv'
  BY <1>1, <1>2, <1>3, <1>4, CoveredStep
<1> QED BY <1>1, <1>3, <1>5, OpenFileInv, RestBusy DEF WriteInv

LEMMA CloseWrite ==
  ASSUME TypeInv, WriteInv, NEW t \in Thread, CloseFile(t)
  PROVE  WriteInv'
<1>1. UNCHANGED <<queue, offq, late, mixed, clash>>
  BY DEF CloseFile, history
<1>2. Others(t) /\ ~Saving(t)' /\ ~Carries(t)'
  BY CloseEffect, FreeFields DEF Saving, Carries
<1>3. SaveInv => SaveInv'
  BY <1>1, <1>2, CoveredStep
<1> QED BY <1>1, <1>3, CloseFileInv, RestClosed DEF WriteInv

LEMMA NextWrite ==
  TypeInv /\ (~mixed => PlaceInv) /\ WriteInv /\ [Next]_vars => WriteInv'
<1> SUFFICES ASSUME TypeInv, ~mixed => PlaceInv, WriteInv, [Next]_vars PROVE WriteInv'
  OBVIOUS
<1>1. ASSUME NEW t \in Thread, NEW m \in Macs, FindOffline(t, m) PROVE WriteInv'
  <2>1. UNCHANGED <<queue, offq, file, late, mixed, clash>>
    BY <1>1 DEF FindOffline, live
  <2>2. Others(t) /\ th[t] = Free /\ th'[t].at \in {"pop", "alloc"}
    BY <1>1, FindEffect
  <2> QED BY <2>1, <2>2, FindWrite
<1>2. ASSUME NEW i \in DOMAIN offq, FindKnown(i) PROVE WriteInv'
  <2>1. UNCHANGED <<queue, offq, file, late, mixed, clash>>
    BY <1>2 DEF FindKnown, live, history
  <2>2. Main \in Thread /\ Others(Main) /\ th[Main] = Free /\ th'[Main].at \in {"pop", "alloc"}
    BY <1>2, KnownEffect
  <2> QED BY <2>1, <2>2, FindWrite
<1>3. ASSUME NEW t \in Thread, ScanQueue(t) \/ ScanOffq(t) PROVE WriteInv'
  BY <1>3, ScanWrite DEF ScanQueue, ScanOffq
<1>4. ASSUME UNCHANGED vars PROVE WriteInv'
  BY <1>4 DEF WriteInv, FileInv, SaveInv, RestInv, Covered, Closing, Saving, Carries, Queued,
              Settled, vars, live, history
<1> QED
  BY <1>1, <1>2, <1>3, <1>4, AllocWrite, PopWrite, PushWrite, ListWrite, OfflineWrite,
     DeleteWrite, StartSaveWrite, OpenWrite, CloseWrite DEF Next, Macs

LEMMA SavedComplete == WriteInv => FileComplete
<1> SUFFICES ASSUME FileInv, RestInv, Saved
             PROVE  file # Torn /\ \A d \in Queued : d \in ToSet(file) \cup late
  BY DEF WriteInv, FileComplete, Queued
<1>1. \A t \in Thread : ~Saving(t) /\ th[t].at # "dirty"
  BY DEF Saved
<1>2. file # Torn
  BY <1>1 DEF FileInv, Closing, Saving
<1> QED BY <1>1, <1>2 DEF RestInv, Settled

(* When all saves are done the file can be read and lacks no device except *)
(* one that changed places during a save, unless two threads wrote at once *)
(* or offq was mixed up: for any number of threads, devices and saves.     *)
THEOREM FileProved == Spec => []FileComplete
<1> DEFINE Inv == TypeInv /\ (~mixed => PlaceInv) /\ WriteInv
<1>1. Init => Inv
  BY InitPlace, InitWrite
<1>2. Inv /\ [Next]_vars => Inv'
  BY NextType, NextPlace, NextWrite
<1>3. Inv => FileComplete
  BY SavedComplete
<1> QED BY <1>1, <1>2, <1>3, PTL DEF Spec

-----------------------------------------------------------------------------
(* The request channel of the Zigbee driver, through which the async and   *)
(* the monitor thread work together: CzTransport, for any number of        *)
(* requests below the wrap of trans_id, any number of probes and any size  *)
(* of the monitor's socket.                                                *)

(* Up to the wrap a non-zero number stands for one request.                *)
LEMMA NumbersDiffer ==
  ASSUME NEW a \in Req, NEW b \in Req,
         a % Wrap # 0, a % Wrap = b % Wrap
  PROVE  a = b
<1>1. /\ Wrap \in Nat \ {0} /\ MaxReq \in 1..Wrap
      /\ a \in 1..Wrap /\ b \in 1..Wrap
  BY TransportAssumption DEF Req
<1>2. \A n \in 0..(Wrap - 1) : n % Wrap = n
  BY <1>1
<1>3. Wrap % Wrap = 0
  BY <1>1
<1> QED BY <1>1, <1>2, <1>3

(* A thread that waits or was woken is in a request, and a request is made *)
(* only below the bound.                                                   *)
Requests ==
  /\ InRequest => seq \in Req
  /\ is_waiting => pc["async"] \in {"notify", "wait", "woken"}
  /\ pc["async"] = "woken" => wake # "none"

(* The answer the monitor has matched is the current request's, or that of *)
(* one that ended since; so is what a signalled thread will read.          *)
Matched ==
  /\ mon \in {"lock", "signal"} => hand \in {seq} \cup overtaken \/ seq > MaxReq
  /\ mon = "signal" => recv_buf = hand
  /\ pc["async"] = "woken" /\ wake = "signal" => recv_buf \in {seq} \cup overtaken

AnswerInv ==
  /\ TypeOK
  /\ mon # "select" /\ mon # "write" => hand \in Req
  /\ Requests
  /\ Matched
  /\ WrongAnswerIsOvertaken

LEMMA AnswerInvInit == CzInit => AnswerInv
<1> SUFFICES ASSUME CzInit PROVE AnswerInv
  OBVIOUS
<1>1. TypeOK
  <2>1. seq \in 1..(MaxReq + 1) /\ notes \in 0..QLen /\ probes \in 0..MaxProbe
    BY TransportAssumption DEF CzInit
  <2>2. last \in Ending
    BY DEF CzInit, Ending, Running
  <2> QED BY <2>1, <2>2 DEF CzInit, TypeOK, Threads
<1> QED BY <1>1 DEF CzInit, AnswerInv, Requests, InRequest, Matched,
                    WrongAnswerIsOvertaken, Running, Threads

LEMMA TransportTypeStep == AnswerInv /\ [CzNext]_czVars => TypeOK'
<1> SUFFICES ASSUME AnswerInv, [CzNext]_czVars PROVE TypeOK'
  OBVIOUS
<1> USE DEF TypeOK, AnswerInv, reqv, monv, Threads
<1>1. CASE UNCHANGED czVars
  BY <1>1 DEF czVars
<1>2. CASE StartRequest
  BY <1>2 DEF StartRequest
<1>3. CASE LockRequest
  BY <1>3 DEF LockRequest, Requests, InRequest
<1>4. CASE NotifyRequest
  BY <1>4, TransportAssumption DEF NotifyRequest
<1>5. ASSUME NEW how \in {"timeout", "spurious"}, EndWait(how) PROVE TypeOK'
  BY <1>5 DEF EndWait
<1>6. CASE FinishRequest
  <2>1. seq \in Req /\ wake # "none"
    BY <1>6 DEF FinishRequest, Requests, InRequest
  <2>2. seq' \in 1..(MaxReq + 1)
    BY <1>6, <2>1, TransportAssumption DEF FinishRequest, Req
  <2>3. [how |-> wake, got |-> IF wake = "timeout" THEN NoReq ELSE recv_buf] \in Ending
    BY <2>1 DEF Ending
  <2>4. last' \in Ending
    BY <1>6, <2>3 DEF FinishRequest
  <2>5. overtaken' \in SUBSET Req
    BY <1>6, <2>1 DEF FinishRequest
  <2> QED BY <1>6, <2>2, <2>4, <2>5 DEF FinishRequest
<1>7. ASSUME NEW t \in Threads, ProbeLock(t) PROVE TypeOK'
  <2>1. probes' \in 0..MaxProbe
    BY <1>7, TransportAssumption DEF ProbeLock
  <2>2. probed' \in SUBSET Req
    BY <1>7 DEF ProbeLock, Requests
  <2> QED BY <1>7, <2>1, <2>2 DEF ProbeLock
<1>8. ASSUME NEW t \in Threads, ProbeNotify(t) PROVE TypeOK'
  BY <1>8, TransportAssumption DEF ProbeNotify
<1>9. CASE MonTake
  BY <1>9, TransportAssumption DEF MonTake
<1>10. CASE MonWrite
  <2>1. air' \in [Req -> Nat] /\ tried' \in SUBSET Req
    BY <1>10 DEF MonWrite
  <2> QED BY <1>10, <2>1 DEF MonWrite
<1>11. ASSUME NEW r \in Req, MonRead(r) PROVE TypeOK'
  <2>1. air' \in [Req -> Nat]
    BY <1>11 DEF MonRead
  <2> QED BY <1>11, <2>1 DEF MonRead
<1>12. CASE MonCheck
  BY <1>12 DEF MonCheck
<1>13. CASE MonStore
  BY <1>13 DEF MonStore
<1>14. CASE MonSignal
  BY <1>14 DEF MonSignal
<1> QED BY <1>1, <1>2, <1>3, <1>4, <1>5, <1>6, <1>7, <1>8, <1>9, <1>10, <1>11,
           <1>12, <1>13, <1>14 DEF CzNext

(* What the request that ends has read is right because of Matched. *)
LEMMA FinishStep ==
  ASSUME AnswerInv, FinishRequest
  PROVE  Requests' /\ Matched' /\ WrongAnswerIsOvertaken'
<1>1. /\ seq \in Req /\ seq \in Nat /\ seq' = seq + 1
      /\ pc' = [pc EXCEPT !["async"] = "idle"] /\ pc["async"] = "woken"
      /\ is_waiting' = FALSE
      /\ overtaken \subseteq overtaken'
      /\ UNCHANGED <<recv_buf, mon, hand>>
      /\ last' = [how |-> wake, got |-> IF wake = "timeout" THEN NoReq ELSE recv_buf]
  BY TransportAssumption
     DEF FinishRequest, AnswerInv, Requests, InRequest, monv, Req
<1>2. pc'["async"] = "idle"
  BY <1>1 DEF AnswerInv, TypeOK, Threads
<1>3. Requests'
  BY <1>1, <1>2 DEF Requests, InRequest
<1>4. Matched'
  <2>1. mon \in {"lock", "signal"} => seq \in overtaken'
    BY DEF FinishRequest
  <2>2. mon \in {"lock", "signal"} => hand \in {seq} \cup overtaken
    BY <1>1, TransportAssumption DEF AnswerInv, Matched, Req
  <2> QED BY <1>1, <1>2, <2>1, <2>2 DEF AnswerInv, Matched
<1>5. WrongAnswerIsOvertaken'
  <2>1. last'.how = "signal" => wake = "signal" /\ last'.got = recv_buf
    BY <1>1
  <2>2. seq' - 1 = seq
    BY <1>1
  <2>3. wake = "signal" => recv_buf \in {seq} \cup overtaken
    BY <1>1 DEF AnswerInv, Matched
  <2> QED BY <1>1, <2>1, <2>2, <2>3 DEF WrongAnswerIsOvertaken
<1> QED BY <1>3, <1>4, <1>5

LEMMA AnswerInvNext == AnswerInv /\ [CzNext]_czVars => AnswerInv'
<1> SUFFICES ASSUME AnswerInv, [CzNext]_czVars PROVE AnswerInv'
  OBVIOUS
<1>1. TypeOK'
  BY TransportTypeStep
<1>2. mon' # "select" /\ mon' # "write" => hand' \in Req
  BY DEF AnswerInv, CzNext, czVars, reqv, monv, StartRequest, LockRequest,
         NotifyRequest, EndWait, FinishRequest, ProbeLock, ProbeNotify, MonTake,
         MonWrite, MonRead, MonCheck, MonStore, MonSignal
<1>3. CASE FinishRequest
  BY <1>1, <1>2, <1>3, FinishStep DEF AnswerInv
<1>4. ASSUME UNCHANGED <<seq, last, overtaken>>
      PROVE  WrongAnswerIsOvertaken'
  BY <1>4 DEF AnswerInv, WrongAnswerIsOvertaken
<1>5. ASSUME ~FinishRequest
      PROVE  UNCHANGED <<seq, last, overtaken>>
  BY <1>5 DEF CzNext, czVars, reqv, monv, StartRequest, LockRequest, NotifyRequest,
              EndWait, ProbeLock, ProbeNotify, MonTake, MonWrite, MonRead,
              MonCheck, MonStore, MonSignal
<1>6. ASSUME ~FinishRequest
      PROVE  Requests' /\ Matched'
  <2>0. pc \in [Threads -> {"idle", "enter", "notify", "wait", "woken", "probe", "start"}]
    BY DEF AnswerInv, TypeOK
  <2> USE <2>0 DEF AnswerInv, Requests, InRequest, Matched, reqv, monv, Threads
  <2>1. CASE UNCHANGED czVars
    BY <2>1 DEF czVars
  <2>2. CASE StartRequest
    <3>1. seq \in Req
      BY <2>2, TransportAssumption DEF StartRequest, TypeOK, Req
    <3> QED BY <2>2, <3>1 DEF StartRequest
  <2>3. CASE LockRequest
    BY <2>3 DEF LockRequest
  <2>4. CASE NotifyRequest
    BY <2>4 DEF NotifyRequest
  <2>5. ASSUME NEW how \in {"timeout", "spurious"}, EndWait(how)
        PROVE  Requests' /\ Matched'
    BY <2>5 DEF EndWait
  <2>6. ASSUME NEW t \in Threads, ProbeLock(t)
        PROVE  Requests' /\ Matched'
    BY <2>6 DEF ProbeLock
  <2>7. ASSUME NEW t \in Threads, ProbeNotify(t)
        PROVE  Requests' /\ Matched'
    BY <2>7 DEF ProbeNotify
  <2>8. CASE MonTake
    BY <2>8 DEF MonTake
  <2>9. CASE MonWrite
    BY <2>9 DEF MonWrite
  <2>10. ASSUME NEW r \in Req, MonRead(r)
         PROVE  Requests' /\ Matched'
    BY <2>10 DEF MonRead
  <2>11. CASE MonCheck
    <3>1. mon' = "lock" => hand = seq \/ seq > MaxReq
      <4>1. hand \in Req /\ (seq \in Req \/ seq > MaxReq)
        BY <2>11, TransportAssumption DEF MonCheck, TypeOK, Req
      <4> QED BY <4>1, <2>11, NumbersDiffer DEF MonCheck
    <3> QED BY <2>11, <3>1 DEF MonCheck
  <2>12. CASE MonStore
    <3>1. is_waiting => seq \in Req /\ ~(seq > MaxReq)
      BY TransportAssumption DEF Req
    <3> QED BY <2>12, <3>1 DEF MonStore
  <2>13. CASE MonSignal
    <3>1. pc["async"] = "wait" => seq \in Req /\ ~(seq > MaxReq)
      BY TransportAssumption DEF Req
    <3> QED BY <2>13, <3>1 DEF MonSignal
  <2> QED BY <1>6, <2>1, <2>2, <2>3, <2>4, <2>5, <2>6, <2>7, <2>8, <2>9, <2>10,
             <2>11, <2>12, <2>13 DEF CzNext
<1> QED BY <1>1, <1>2, <1>3, <1>4, <1>5, <1>6 DEF AnswerInv

(* Types, for every wrap, number of requests and socket size. *)
THEOREM TransportTypes == CzSpec => []TypeOK
<1>1. AnswerInv => TypeOK
  BY DEF AnswerInv
<1> QED BY <1>1, AnswerInvInit, AnswerInvNext, PTL DEF CzSpec

(* The answer a signalled request reads is its own or that of a request    *)
(* which ended while the monitor was handing an answer over.               *)
THEOREM AnswersMatch == CzSpec => []WrongAnswerIsOvertaken
<1>1. AnswerInv => WrongAnswerIsOvertaken
  BY DEF AnswerInv
<1> QED BY <1>1, AnswerInvInit, AnswerInvNext, PTL DEF CzSpec

-----------------------------------------------------------------------------
(* Frames. *)

(* A frame that was not tried is still in the buffer, and the monitor is   *)
(* about to be told, was told, or is writing it. Between the filling of    *)
(* the buffer and the datagram the lock keeps probes away.                 *)
Announced ==
  /\ \A t \in Threads : pc[t] = "probe" => lock = t
  /\ pc["async"] = "notify" => lock = "async" /\ send_buf = seq
  /\ pc["async"] = "wait" =>
       \/ seq \in tried \cup probed
       \/ send_buf = seq /\ (notes > 0 \/ mon = "write")

FrameInv == AnswerInv /\ Announced

LEMMA FrameInvNext == FrameInv /\ [CzNext]_czVars => FrameInv'
<1> SUFFICES ASSUME FrameInv, [CzNext]_czVars PROVE Announced'
  BY AnswerInvNext DEF FrameInv
<1>0. /\ pc \in [Threads -> {"idle", "enter", "notify", "wait", "woken", "probe", "start"}]
      /\ notes \in Nat /\ send_buf \in Req \cup {Discover}
      /\ pc["async"] \in {"notify", "wait"} => seq \in Req
  BY TransportAssumption
     DEF FrameInv, AnswerInv, TypeOK, Requests, InRequest
<1>1. Discover \notin Req
  BY DEF Discover, Req
<1> USE <1>0 DEF FrameInv, Announced, reqv, monv, Threads
<1>2. CASE UNCHANGED czVars
  BY <1>2 DEF czVars
<1>3. CASE StartRequest
  BY <1>3 DEF StartRequest
<1>4. CASE LockRequest
  BY <1>4 DEF LockRequest
<1>5. CASE NotifyRequest
  BY <1>5 DEF NotifyRequest
<1>6. ASSUME NEW how \in {"timeout", "spurious"}, EndWait(how) PROVE Announced'
  BY <1>6 DEF EndWait
<1>7. CASE FinishRequest
  BY <1>7 DEF FinishRequest
<1>8. ASSUME NEW t \in Threads, ProbeLock(t) PROVE Announced'
  BY <1>8 DEF ProbeLock, InRequest
<1>9. ASSUME NEW t \in Threads, ProbeNotify(t) PROVE Announced'
  BY <1>9, TransportAssumption DEF ProbeNotify
<1>10. CASE MonTake
  BY <1>10 DEF MonTake
<1>11. CASE MonWrite
  BY <1>1, <1>11 DEF MonWrite
<1>12. ASSUME NEW r \in Req, MonRead(r) PROVE Announced'
  BY <1>12 DEF MonRead
<1>13. CASE MonCheck
  BY <1>13 DEF MonCheck
<1>14. CASE MonStore
  BY <1>14 DEF MonStore
<1>15. CASE MonSignal
  BY <1>15 DEF MonSignal
<1> QED BY <1>2, <1>3, <1>4, <1>5, <1>6, <1>7, <1>8, <1>9, <1>10, <1>11, <1>12,
           <1>13, <1>14, <1>15 DEF CzNext

(* A request that waits has had its frame tried once the monitor has taken *)
(* all datagrams, unless somebody probed since the request began.          *)
THEOREM FramesAreTried == CzSpec => []FrameTried
<1>1. CzInit => FrameInv
  BY AnswerInvInit DEF CzInit, FrameInv, Announced, Threads
<1>2. FrameInv => FrameTried
  BY DEF FrameInv, AnswerInv, TypeOK, Announced, FrameTried
<1> QED BY <1>1, <1>2, FrameInvNext, PTL DEF CzSpec

=============================================================================
