-------------------------- MODULE ConfigStoreProofs --------------------------
(***************************************************************************)
(* For any number of clients, names, values, commands and crashes: until   *)
(* two threads are at once to set one name, the lists of ConfigStore have  *)
(* each name once, and they implement the map of NameMap; a name that was  *)
(* saved survives restarts as long as nothing endangered the file; and     *)
(* then, whenever no command is under way, the file has all there is.      *)
(***************************************************************************)
EXTENDS ConfigStore, QueueFacts, TLAPS

-----------------------------------------------------------------------------
(* What the operators of NamedList do to lists.                            *)

(* A name of the list has a place. *)
LEMMA NamesFacts ==
  ASSUME NEW E, NEW l \in Seq(E)
  PROVE  /\ DOMAIN l = 1..Len(l) /\ Len(l) \in Nat
         /\ \A i \in DOMAIN l : l[i] \in E /\ l[i].name \in Names(l)
         /\ \A n \in Names(l) : \E i \in DOMAIN l : l[i].name = n
<1>1. DOMAIN l = 1..Len(l) /\ Len(l) \in Nat
  BY LenProperties
<1>2. \A i \in DOMAIN l : l[i] \in E
  BY <1>1, ElementOfSeq
<1> QED BY <1>1, <1>2 DEF Names

(* A search for a name that is there finds a place. *)
LEMMA PositionFinds ==
  ASSUME NEW E, NEW l \in Seq(E), NEW n \in Names(l)
  PROVE  Position(l, n) \in 1..Len(l) /\ l[Position(l, n)].name = n
<1> DEFINE P(k) == l[k].name = n /\ \A j \in 1..(k - 1) : l[j].name # n
           T == {i \in DOMAIN l : l[i].name = n}
<1>1. DOMAIN l = 1..Len(l) /\ Len(l) \in Nat /\ T \in SUBSET Nat /\ T # {}
  BY NamesFacts
<1>2. PICK i \in T : \A j \in T : i <= j
  BY <1>1, LeastNat
<1>3. i \in DOMAIN l /\ P(i)
  BY <1>1, <1>2
<1>4. Position(l, n) = CHOOSE k \in DOMAIN l : P(k)
  BY DEF Position
<1> QED BY <1>1, <1>3, <1>4

(* Whatever a list holds, the operations make lists of it. *)
LEMMA ListsStayLists ==
  ASSUME NEW E, NEW l \in Seq(E), NEW n, NEW v, [name |-> n, val |-> v] \in E
  PROVE  Replace(l, n, v) \in Seq(E) /\ Add(l, n, v) \in Seq(E)
<1>1. Add(l, n, v) \in Seq(E)
  BY AppendProperties DEF Add
<1>2. Replace(l, n, v) \in Seq(E)
  <2>1. CASE Position(l, n) \in 1..Len(l)
    BY <2>1, ExceptSeq DEF Replace
  <2>2. CASE Position(l, n) \notin 1..Len(l)
    BY <2>2, LenProperties DEF Replace
  <2> QED BY <2>1, <2>2
<1> QED BY <1>1, <1>2

LEMMA DropStaysList ==
  ASSUME NEW E, NEW l \in Seq(E), NEW n
  PROVE  Drop(l, n) \in Seq(E)
BY PositionFinds, RemoveAtProps DEF Drop

(* Even in a list with a name twice, a name stays that was not dropped. *)
LEMMA NamesStay ==
  ASSUME NEW E, NEW l \in Seq(E), NEW n, NEW v
  PROVE  /\ Names(Add(l, n, v)) = Names(l) \cup {n}
         /\ n \in Names(l) => Names(Replace(l, n, v)) = Names(l)
         /\ Names(Drop(l, n)) \subseteq Names(l) /\ Names(l) \ {n} \subseteq Names(Drop(l, n))
<1> DEFINE e == [name |-> n, val |-> v]
<1>1. /\ DOMAIN l = 1..Len(l) /\ Len(l) \in Nat
      /\ \A i \in DOMAIN l : l[i] \in E /\ l[i].name \in Names(l)
      /\ \A m \in Names(l) : \E i \in DOMAIN l : l[i].name = m
  BY NamesFacts
<1>2. e.name = n
  OBVIOUS
<1>3. Names(Add(l, n, v)) = Names(l) \cup {n}
  <2> DEFINE a == Append(l, e)
  <2>1. /\ DOMAIN a = 1..(Len(l) + 1) /\ a[Len(l) + 1] = e
        /\ \A i \in 1..Len(l) : a[i] = l[i]
    <3>1. l \in Seq(E \cup {e})
      BY <1>1, SeqDef
    <3> QED BY <3>1, <1>1, AppendProperties, LenProperties
  <2> HIDE DEF a, e
  <2>2. DOMAIN a = DOMAIN l \cup {Len(l) + 1}
    BY <2>1, <1>1
  <2>3. Names(a) = Names(l) \cup {n}
    BY <2>1, <2>2, <1>1, <1>2 DEF Names
  <2> QED BY <2>3 DEF Add, a, e
<1>4. ASSUME n \in Names(l)
      PROVE  Position(l, n) \in DOMAIN l /\ l[Position(l, n)].name = n
  BY <1>1, <1>4, PositionFinds
<1>5. ASSUME n \in Names(l)
      PROVE  Names(Replace(l, n, v)) = Names(l)
  <2> DEFINE r == [l EXCEPT ![Position(l, n)] = e]
  <2>1. DOMAIN r = DOMAIN l /\ \A i \in DOMAIN r : r[i].name = l[i].name
    BY <1>2, <1>4, <1>5
  <2> HIDE DEF r, e
  <2>2. Names(r) = Names(l)
    BY <2>1 DEF Names
  <2> QED BY <2>2 DEF Replace, r, e
<1>6. Names(Drop(l, n)) \subseteq Names(l) /\ Names(l) \ {n} \subseteq Names(Drop(l, n))
  <2>1. CASE n \notin Names(l)
    BY <2>1 DEF Drop
  <2>2. CASE n \in Names(l)
    <3> DEFINE k == Position(l, n)
               d == RemoveAt(l, k)
    <3>1. k \in 1..Len(l) /\ l[k].name = n
      BY <1>1, <1>4, <2>2
    <3> HIDE DEF k
    <3>2. /\ d \in Seq(E) /\ Len(d) = Len(l) - 1
          /\ \A j \in 1..(Len(l) - 1) : d[j] = IF j < k THEN l[j] ELSE l[j + 1]
      BY <1>1, <3>1, RemoveAtProps
    <3> HIDE DEF d
    <3>3. DOMAIN d = 1..(Len(l) - 1)
      BY <3>2, LenProperties
    <3>4. ASSUME NEW j \in DOMAIN d
          PROVE  \E i \in DOMAIN l : d[j] = l[i]
      <4>1. j \in DOMAIN l /\ j + 1 \in DOMAIN l
        BY <1>1, <3>3
      <4> QED BY <3>2, <3>3, <4>1
    <3>5. \A i \in DOMAIN l : i # k => \E j \in DOMAIN d : d[j] = l[i]
      <4> SUFFICES ASSUME NEW i \in DOMAIN l, i # k
                   PROVE  \E j \in DOMAIN d : d[j] = l[i]
        OBVIOUS
      <4>1. CASE i < k
        BY <4>1, <1>1, <3>1, <3>2, <3>3
      <4>2. CASE ~(i < k)
        <5>1. i - 1 \in DOMAIN d /\ d[i - 1] = l[i]
          BY <4>2, <1>1, <3>1, <3>2, <3>3
        <5> QED BY <5>1
      <4> QED BY <4>1, <4>2
    <3>6. Names(d) \subseteq Names(l) /\ Names(l) \ {n} \subseteq Names(d)
      BY <3>1, <3>4, <3>5 DEF Names
    <3> QED BY <3>6, <2>2 DEF Drop, d, k
  <2> QED BY <2>1, <2>2
<1> QED BY <1>3, <1>5, <1>6

(* The search finds the only entry with the name. *)
LEMMA PositionFacts ==
  ASSUME NEW E, NEW l \in Seq(E), Unique(l),
         NEW i \in DOMAIN l
  PROVE  Position(l, l[i].name) = i
<1> DEFINE P(k) == k \in DOMAIN l /\ l[k].name = l[i].name
                   /\ \A j \in 1..(k - 1) : l[j].name # l[i].name
<1>1. DOMAIN l = 1..Len(l) /\ Len(l) \in Nat
  BY NamesFacts
<1>2. \A j \in 1..(i - 1) : j \in DOMAIN l /\ j # i
  BY <1>1
<1>3. P(i)
  BY <1>2 DEF Unique
<1>4. \A k : P(k) => k = i
  BY DEF Unique
<1>5. Position(l, l[i].name)
        = CHOOSE k \in DOMAIN l : l[k].name = l[i].name /\ \A j \in 1..(k - 1) : l[j].name # l[i].name
  BY DEF Position
<1> QED BY <1>3, <1>4, <1>5

(* A search that finds something returns the value beside the name. *)
LEMMA LookupFacts ==
  ASSUME NEW E, NEW l \in Seq(E), Unique(l), NEW none
  PROVE  /\ \A i \in DOMAIN l : Lookup(l, l[i].name, none) = l[i].val
         /\ \A n : n \notin Names(l) => Lookup(l, n, none) = none
<1>1. ASSUME NEW i \in DOMAIN l
      PROVE  Lookup(l, l[i].name, none) = l[i].val
  <2>1. l[i].name \in Names(l)
    BY NamesFacts
  <2>2. Position(l, l[i].name) = i
    BY PositionFacts
  <2> QED BY <2>1, <2>2 DEF Lookup
<1>2. \A n : n \notin Names(l) => Lookup(l, n, none) = none
  BY DEF Lookup
<1> QED BY <1>1, <1>2

(* Put gives the name its value and leaves the others theirs; it is        *)
(* Replace for a name of the list and Add for another.                     *)
LEMMA PutFacts ==
  ASSUME NEW E, NEW l \in Seq(E), Unique(l),
         NEW n, NEW v, [name |-> n, val |-> v] \in E, NEW none
  PROVE  /\ Put(l, n, v) \in Seq(E)
         /\ Unique(Put(l, n, v))
         /\ Names(Put(l, n, v)) = Names(l) \cup {n}
         /\ Put(l, n, v) = IF n \in Names(l) THEN Replace(l, n, v) ELSE Add(l, n, v)
         /\ \A m : Lookup(Put(l, n, v), m, none) = IF m = n THEN v ELSE Lookup(l, m, none)
<1> DEFINE e == [name |-> n, val |-> v]
           p == Put(l, n, v)
<1>1. /\ DOMAIN l = 1..Len(l) /\ Len(l) \in Nat
      /\ \A i \in DOMAIN l : l[i] \in E /\ l[i].name \in Names(l)
      /\ \A m \in Names(l) : \E i \in DOMAIN l : l[i].name = m
  BY NamesFacts
<1>2. e \in E /\ e.name = n /\ e.val = v
  OBVIOUS
<1>3. /\ p \in Seq(E) /\ Unique(p)
      /\ \E k \in DOMAIN p :
           /\ p[k] = e
           /\ \A i \in DOMAIN p \ {k} : i \in DOMAIN l /\ p[i] = l[i] /\ l[i].name # n
           /\ \A i \in DOMAIN l : l[i].name = n \/ (i \in DOMAIN p \ {k} /\ p[i] = l[i])
  <2>1. CASE n \in Names(l)
    <3>1. PICK k \in DOMAIN l : l[k].name = n
      BY <1>1, <2>1
    <3>2. p = [l EXCEPT ![k] = e]
      <4>1. Position(l, n) = k
        BY <3>1, PositionFacts
      <4> QED BY <4>1, <2>1 DEF Put, Replace
    <3>3. DOMAIN p = DOMAIN l /\ p[k] = e /\ \A i \in DOMAIN l \ {k} : p[i] = l[i]
      BY <3>2
    <3>4. p \in Seq(E)
      BY <3>2, <1>1, <1>2, ExceptSeq
    <3>5. \A i \in DOMAIN l \ {k} : l[i].name # n
      BY <3>1 DEF Unique
    <3>6. Unique(p)
      <4> SUFFICES ASSUME NEW i \in DOMAIN p, NEW j \in DOMAIN p, p[i].name = p[j].name
                   PROVE  i = j
        BY DEF Unique
      <4>1. CASE i = k
        BY <4>1, <1>2, <3>3, <3>5
      <4>2. CASE j = k
        BY <4>2, <1>2, <3>3, <3>5
      <4>3. CASE i # k /\ j # k
        BY <4>3, <3>3 DEF Unique
      <4> QED BY <4>1, <4>2, <4>3
    <3> QED BY <3>1, <3>3, <3>4, <3>5, <3>6
  <2>2. CASE n \notin Names(l)
    <3>1. p = Append(l, e)
      BY <2>2 DEF Put, Add
    <3>2. /\ p \in Seq(E) /\ DOMAIN p = 1..(Len(l) + 1)
          /\ p[Len(l) + 1] = e /\ \A i \in 1..Len(l) : p[i] = l[i]
      BY <3>1, <1>1, <1>2, AppendProperties, LenProperties
    <3>3. \A i \in DOMAIN l : l[i].name # n
      BY <2>2, <1>1
    <3>4. DOMAIN p \ {Len(l) + 1} = DOMAIN l /\ Len(l) + 1 \in DOMAIN p
      BY <3>2, <1>1
    <3>5. Unique(p)
      <4> SUFFICES ASSUME NEW i \in DOMAIN p, NEW j \in DOMAIN p, p[i].name = p[j].name
                   PROVE  i = j
        BY DEF Unique
      <4>1. CASE i = Len(l) + 1
        BY <4>1, <1>1, <1>2, <3>2, <3>3, <3>4
      <4>2. CASE j = Len(l) + 1
        BY <4>2, <1>1, <1>2, <3>2, <3>3, <3>4
      <4>3. CASE i # Len(l) + 1 /\ j # Len(l) + 1
        BY <4>3, <1>1, <3>2, <3>4 DEF Unique
      <4> QED BY <4>1, <4>2, <4>3
    <3> QED BY <1>1, <3>2, <3>3, <3>4, <3>5
  <2> QED BY <2>1, <2>2
<1> HIDE DEF p, e
<1>4. PICK k \in DOMAIN p :
        /\ p[k] = e
        /\ \A i \in DOMAIN p \ {k} : i \in DOMAIN l /\ p[i] = l[i] /\ l[i].name # n
        /\ \A i \in DOMAIN l : l[i].name = n \/ (i \in DOMAIN p \ {k} /\ p[i] = l[i])
  BY <1>3
<1>5. ASSUME NEW m
      PROVE  Lookup(p, m, none) = IF m = n THEN v ELSE Lookup(l, m, none)
  <2>1. CASE m = n
    <3>1. Lookup(p, p[k].name, none) = p[k].val
      BY <1>3, LookupFacts
    <3> QED BY <2>1, <3>1, <1>2, <1>4
  <2>2. CASE m # n /\ m \in Names(l)
    <3>1. PICK i \in DOMAIN l : l[i].name = m
      BY <1>1, <2>2
    <3>2. i \in DOMAIN p /\ p[i] = l[i]
      BY <3>1, <2>2, <1>4
    <3>3. Lookup(p, p[i].name, none) = p[i].val
      BY <1>3, <3>2, LookupFacts
    <3>4. Lookup(l, l[i].name, none) = l[i].val
      BY LookupFacts
    <3> QED BY <2>2, <3>1, <3>2, <3>3, <3>4
  <2>3. CASE m # n /\ m \notin Names(l)
    <3>1. m \notin Names(p)
      BY <2>3, <1>1, <1>2, <1>4 DEF Names
    <3>2. Lookup(p, m, none) = none /\ Lookup(l, m, none) = none
      BY <3>1, <2>3, <1>3, LookupFacts
    <3> QED BY <2>3, <3>2
  <2> QED BY <2>1, <2>2, <2>3
<1>6. Names(p) = Names(l) \cup {n}
  <2>1. Names(p) \subseteq Names(l) \cup {n}
    BY <1>1, <1>2, <1>4 DEF Names
  <2>2. Names(l) \cup {n} \subseteq Names(p)
    BY <1>1, <1>2, <1>4 DEF Names
  <2> QED BY <2>1, <2>2
<1> QED BY <1>3, <1>5, <1>6 DEF p, Put

(* Drop takes the name out and leaves the others theirs. *)
LEMMA DropFacts ==
  ASSUME NEW E, NEW l \in Seq(E), Unique(l), NEW n
  PROVE  /\ Drop(l, n) \in Seq(E)
         /\ Unique(Drop(l, n))
         /\ Names(Drop(l, n)) = Names(l) \ {n}
         /\ \A m, none : Lookup(Drop(l, n), m, none) = IF m = n THEN none ELSE Lookup(l, m, none)
<1>1. /\ DOMAIN l = 1..Len(l) /\ Len(l) \in Nat
      /\ \A i \in DOMAIN l : l[i] \in E /\ l[i].name \in Names(l)
      /\ \A m \in Names(l) : \E i \in DOMAIN l : l[i].name = m
  BY NamesFacts
<1>2. CASE n \notin Names(l)
  <2>1. Drop(l, n) = l
    BY <1>2 DEF Drop
  <2>2. \A none : Lookup(l, n, none) = none
    BY <1>2 DEF Lookup
  <2> QED BY <1>2, <2>1, <2>2
<1>3. CASE n \in Names(l)
  <2>1. PICK k \in DOMAIN l : l[k].name = n
    BY <1>1, <1>3
  <2> DEFINE d == RemoveAt(l, k)
  <2>2. Drop(l, n) = d
    <3>1. Position(l, n) = k
      BY <2>1, PositionFacts
    <3> QED BY <3>1, <1>3 DEF Drop
  <2>3. /\ d \in Seq(E) /\ Len(d) = Len(l) - 1
        /\ \A j \in 1..(Len(l) - 1) : d[j] = IF j < k THEN l[j] ELSE l[j + 1]
    BY ZenonT(60), <1>1, RemoveAtProps
  <2> HIDE DEF d
  <2>4. DOMAIN d = 1..(Len(l) - 1)
    BY <2>3, LenProperties
  <2> DEFINE from(j) == IF j < k THEN j ELSE j + 1
  <2>5. \A j \in DOMAIN d : from(j) \in DOMAIN l \ {k} /\ d[j] = l[from(j)]
    BY <2>3, <2>4, <1>1
  <2>6. \A i, j \in DOMAIN d : from(i) = from(j) => i = j
    BY <2>4, <1>1
  <2>7. \A i \in DOMAIN l \ {k} : \E j \in DOMAIN d : from(j) = i
    <3> SUFFICES ASSUME NEW i \in DOMAIN l \ {k}
                 PROVE  \E j \in DOMAIN d : from(j) = i
      OBVIOUS
    <3>1. CASE i < k
      BY <3>1, <2>4, <1>1
    <3>2. CASE ~(i < k)
      <4>1. i - 1 \in DOMAIN d /\ from(i - 1) = i
        BY <3>2, <2>4, <1>1
      <4> QED BY <4>1
    <3> QED BY <3>1, <3>2
  <2> HIDE DEF from
  <2>8. Unique(d)
    <3> SUFFICES ASSUME NEW i \in DOMAIN d, NEW j \in DOMAIN d, d[i].name = d[j].name
                 PROVE  i = j
      BY DEF Unique
    <3>1. from(i) = from(j)
      BY <2>5 DEF Unique
    <3> QED BY <3>1, <2>6
  <2>9. ASSUME NEW m, NEW none
        PROVE  Lookup(d, m, none) = IF m = n THEN none ELSE Lookup(l, m, none)
    <3>1. CASE m = n
      <4>1. \A j \in DOMAIN d : d[j].name # n
        BY <2>1, <2>5 DEF Unique
      <4>2. n \notin Names(d)
        BY <4>1 DEF Names
      <4> QED BY <3>1, <4>2 DEF Lookup
    <3>2. CASE m # n /\ m \in Names(l)
      <4>1. PICK i \in DOMAIN l : l[i].name = m
        BY <1>1, <3>2
      <4>2. PICK j \in DOMAIN d : from(j) = i
        BY <4>1, <3>2, <2>1, <2>7
      <4>3. Lookup(d, d[j].name, none) = d[j].val
        BY <2>3, <2>8, LookupFacts
      <4>4. Lookup(l, l[i].name, none) = l[i].val
        BY LookupFacts
      <4> QED BY <3>2, <4>1, <4>2, <4>3, <4>4, <2>5
    <3>3. CASE m # n /\ m \notin Names(l)
      <4>1. m \notin Names(d)
        BY <3>3, <2>5, <1>1 DEF Names
      <4> QED BY <3>3, <4>1 DEF Lookup
    <3> QED BY <3>1, <3>2, <3>3
  <2>10. Names(d) = Names(l) \ {n}
    <3>1. Names(d) \subseteq Names(l) \ {n}
      BY <2>1, <2>5, <1>1 DEF Names, Unique
    <3>2. Names(l) \ {n} \subseteq Names(d)
      BY <2>1, <2>5, <2>7, <1>1 DEF Names
    <3> QED BY <3>1, <3>2
  <2> QED BY <2>2, <2>3, <2>8, <2>9, <2>10
<1> QED BY <1>2, <1>3

-----------------------------------------------------------------------------
(* Before load_config has parsed the device there are no channels, and no  *)
(* thread works at any: init_scene clears everything there is, and nobody  *)
(* watches load_config set channels.                                       *)
NoChannelsYet ==
  /\ phase \in {"boot", "parse"} => mem["channel"] = <<>>
  /\ ~DeviceKnown => \A t \in Thread : at[t] # "idle" => cmd[t].kind = "scene"

(* A thread that is not idle has a command. *)
Busy == \A t \in Thread : at[t] # "idle" => cmd[t] \in Command

(* What a thread has found is still there, unless it is stale; a name that *)
(* it has not found and is to set is still missing; and no other thread is *)
(* to set it.                                                              *)
Agrees(t) ==
  LET there == cmd[t].name \in Names(mem[cmd[t].kind]) IN
  /\ found[t] /\ ~stale[t] => there
  /\ ~found[t] /\ cmd[t].op = "set" => ~there
  /\ cmd[t].op = "set" => \A u \in Thread \ {t} : ~(at[u] = "change" /\ SetsToo(u, cmd[t]))
SearchesAgree == ~overlap => \A t \in Thread : at[t] = "change" => Agrees(t)

IInv == TypeOK /\ NamesUnique /\ NoChannelsYet /\ Busy /\ SearchesAgree

(* The map that the lists stand for. *)
Abs == [x \in Kind \X Name |-> Lookup(mem[x[1]], x[2], NoVal)]

(* What the threads ask of it. *)
Pending == {<<t, Request(t)>> : t \in Asking}

(* A step of the map, or none. *)
Refines == [Map!Next]_<<Abs, Pending, overlap>>

-----------------------------------------------------------------------------
LEMMA InitInv == Init => IInv
<1> SUFFICES ASSUME Init PROVE IInv
  OBVIOUS
<1> USE DEF Init
<1>1. Empty \in Document
  BY EmptySeq DEF Empty, Document, Kind
<1>2. TypeOK
  <2>1. todo \in Seq(SetCommand)
    BY EmptySeq
  <2>2. cmds \in 0..MaxCmd /\ crashes \in 0..MaxCrash /\ file \in Document
    BY StoreAssumption
  <2> QED BY <1>1, <2>1, <2>2 DEF TypeOK
<1>3. NamesUnique
  BY DEF NamesUnique, Unique, Empty
<1>4. NoChannelsYet
  BY DEF NoChannelsYet, Empty, Kind
<1>5. Busy /\ SearchesAgree
  BY DEF Busy, SearchesAgree
<1> QED BY <1>2, <1>3, <1>4, <1>5 DEF IInv

-----------------------------------------------------------------------------
(* A command that is searched for. *)
LEMMA SearchInv ==
  ASSUME IInv, NEW t \in Thread, NEW c \in Command, Search(t, c),
         c.kind = "scene" \/ DeviceKnown, UNCHANGED phase, DeviceKnown => DeviceKnown'
  PROVE  /\ at' \in [Thread -> {"idle", "change", "build", "open", "flush"}]
         /\ cmd' \in [Thread -> Command \cup {NoCommand}]
         /\ found' \in [Thread -> BOOLEAN] /\ stale' \in [Thread -> BOOLEAN]
         /\ overlap' \in BOOLEAN
         /\ NamesUnique' /\ NoChannelsYet' /\ Busy' /\ SearchesAgree'
         /\ Refines
<1> USE DEF Search
<1>0. TypeOK /\ NamesUnique /\ NoChannelsYet /\ Busy /\ SearchesAgree
  BY DEF IInv
<1>1. /\ at' \in [Thread -> {"idle", "change", "build", "open", "flush"}]
      /\ cmd' \in [Thread -> Command \cup {NoCommand}]
      /\ found' \in [Thread -> BOOLEAN] /\ stale' \in [Thread -> BOOLEAN]
      /\ overlap' \in BOOLEAN
  BY <1>0 DEF TypeOK
<1>2. /\ cmd'[t] = c /\ at'[t] = "change" /\ ~stale'[t]
      /\ found'[t] = (c.name \in Names(mem[c.kind]))
      /\ \A u \in Thread \ {t} : /\ cmd'[u] = cmd[u] /\ at'[u] = at[u]
                                 /\ found'[u] = found[u] /\ stale'[u] = stale[u]
  BY <1>0 DEF TypeOK
<1>3. NamesUnique'
  BY <1>0 DEF NamesUnique
<1>4. NoChannelsYet' /\ Busy'
  BY <1>0, <1>2 DEF NoChannelsYet, Busy
<1>5. SearchesAgree'
  <2> SUFFICES ASSUME ~overlap', NEW u \in Thread, at'[u] = "change"
               PROVE  Agrees(u)'
    BY DEF SearchesAgree
  <2>1. ~overlap /\ (c.op = "set" => \A w \in Thread \ {t} : ~(at[w] = "change" /\ SetsToo(w, c)))
    OBVIOUS
  <2>2. CASE u = t
    <3>1. c.op = "set" => \A w \in Thread \ {t} : ~(at'[w] = "change" /\ SetsToo(w, c)')
      BY <1>2, <2>1 DEF SetsToo
    <3> QED BY ZenonT(60), <1>2, <2>2, <3>1 DEF Agrees
  <2>3. CASE u # t
    <3>1. at[u] = "change" /\ Agrees(u)
      BY <1>0, <1>2, <2>1, <2>3 DEF SearchesAgree
    <3>2. cmd[u].op = "set" => ~SetsToo(t, cmd[u])'
      BY <1>2, <2>1, <2>3, <3>1 DEF SetsToo
    <3>3. \A w \in Thread \ {t} : SetsToo(w, cmd[u])' = SetsToo(w, cmd[u])
      BY <1>2, <2>3 DEF SetsToo
    <3> QED BY <1>2, <2>3, <3>1, <3>2, <3>3 DEF Agrees
  <2> QED BY <2>2, <2>3
<1>6. Refines
  <2> DEFINE r == [op |-> c.op, key |-> <<c.kind, c.name>>, val |-> c.val]
             p == <<t, r>>
  <2>1. Request(t)' = r /\ \A u \in Thread \ {t} : Request(u)' = Request(u)
    BY <1>2 DEF Request, TheKey
  <2>2. t \notin Asking /\ \A u \in Thread \ {t} : u \in Asking' <=> u \in Asking
    BY <1>2 DEF Asking
  <2>3. \A q \in Pending : q[1] # t
    BY <2>2 DEF Pending
  <2>4. UNCHANGED Abs
    BY DEF Abs
  <2>5. CASE t \in Asking'
    <3>1. r \in Map!Requests
      BY <2>5, <1>2 DEF Asking, Command, SetCommand, Map!Requests, Map!Key
    <3>2. Pending' = Pending \cup {p}
      BY <2>1, <2>2, <2>5 DEF Pending, Asking
    <3>3. p \in Thread \X Map!Requests /\ p \in Pending' \ Pending /\ p[1] = t /\ p[2] = r
      BY <3>1, <3>2, <2>3
    <3> DEFINE C == r.op = "set" /\ \E q \in Pending : q[2].op = "set" /\ q[2].key = r.key
    <3>4. C <=> (c.op = "set" /\ \E u \in Thread \ {t} : at[u] = "change" /\ SetsToo(u, c))
      <4>1. C <=> (c.op = "set" /\ \E u \in Asking : cmd[u].op = "set" /\ TheKey(u) = <<c.kind, c.name>>)
        <5>1. \A u \in Asking : <<u, Request(u)>> \in Pending
          BY DEF Pending
        <5>2. \A q \in Pending : \E u \in Asking : q[2] = Request(u)
          BY DEF Pending
        <5>3. \A u : Request(u).op = cmd[u].op /\ Request(u).key = TheKey(u)
          BY DEF Request
        <5> QED BY <5>1, <5>2, <5>3
      <4>2. \A u \in Thread : SetsToo(u, c) <=> (cmd[u].op = "set" /\ TheKey(u) = <<c.kind, c.name>>)
        BY DEF SetsToo, TheKey
      <4>3. \A u : (u \in Asking /\ cmd[u].op = "set")
                    <=> (u \in Thread \ {t} /\ at[u] = "change" /\ cmd[u].op = "set")
        BY <2>2 DEF Asking
      <4> QED BY <4>1, <4>2, <4>3
    <3>5. overlap' = (overlap \/ C)
      BY <3>4
    <3>6. Map!Ask
      BY <3>2, <3>3, <3>5, <2>3, <2>4 DEF Map!Ask, Map!Clash, Pending, Abs
    <3> QED BY <3>6 DEF Refines, Map!Next, Abs, Pending
  <2>6. CASE t \notin Asking'
    <3>1. Asking' = Asking
      BY <2>2, <2>6 DEF Asking
    <3>2. UNCHANGED Pending
      <4>1. \A u \in Asking : Request(u)' = Request(u)
        BY <2>1, <2>2 DEF Asking
      <4> QED BY <3>1, <4>1 DEF Pending
    <3>3. c.op # "set"
      BY <1>2, <2>6 DEF Asking
    <3> QED BY <2>4, <3>2, <3>3, <1>0 DEF Refines, TypeOK
  <2> QED BY <2>5, <2>6
<1> QED BY <1>1, <1>3, <1>4, <1>5, <1>6

-----------------------------------------------------------------------------
(* Writing the entries of a list leaves a document. *)
LEMMA DocFacts ==
  /\ Entry = [name : Name, val : Val]
  /\ \A d : d \in Document => \A k \in Kind : d[k] \in Seq(Entry)
  /\ \A d \in Document, k \in Kind, l \in Seq(Entry) : [d EXCEPT ![k] = l] \in Document
BY DEF Document, Entry

(* The facts about lists, for those of the store. *)
LEMMA StorePut ==
  ASSUME NEW l \in Seq(Entry), Unique(l), NEW n, NEW v, [name |-> n, val |-> v] \in Entry
  PROVE  /\ Put(l, n, v) \in Seq(Entry)
         /\ Unique(Put(l, n, v))
         /\ Names(Put(l, n, v)) = Names(l) \cup {n}
         /\ Put(l, n, v) = IF n \in Names(l) THEN Replace(l, n, v) ELSE Add(l, n, v)
         /\ \A m : Lookup(Put(l, n, v), m, NoVal) = IF m = n THEN v ELSE Lookup(l, m, NoVal)
<1>1. Put(l, n, v) \in Seq(Entry) /\ Unique(Put(l, n, v))
  BY PutFacts
<1>2. Names(Put(l, n, v)) = Names(l) \cup {n}
  BY PutFacts
<1>3. Put(l, n, v) = IF n \in Names(l) THEN Replace(l, n, v) ELSE Add(l, n, v)
  BY PutFacts
<1>4. \A m : Lookup(Put(l, n, v), m, NoVal) = IF m = n THEN v ELSE Lookup(l, m, NoVal)
  BY PutFacts
<1> QED BY <1>1, <1>2, <1>3, <1>4

LEMMA StoreDrop ==
  ASSUME NEW l \in Seq(Entry), Unique(l), NEW n
  PROVE  /\ Drop(l, n) \in Seq(Entry)
         /\ Unique(Drop(l, n))
         /\ Names(Drop(l, n)) = Names(l) \ {n}
         /\ \A m : Lookup(Drop(l, n), m, NoVal) = IF m = n THEN NoVal ELSE Lookup(l, m, NoVal)
<1>1. Drop(l, n) \in Seq(Entry) /\ Unique(Drop(l, n))
  BY DropFacts
<1>2. Names(Drop(l, n)) = Names(l) \ {n}
  BY DropFacts
<1>3. ASSUME NEW m
      PROVE  Lookup(Drop(l, n), m, NoVal) = IF m = n THEN NoVal ELSE Lookup(l, m, NoVal)
  BY DropFacts
<1> QED BY <1>1, <1>2, <1>3

(* The map after one of its keys has got another value. *)
LEMMA ListEffect ==
  ASSUME NEW k, NEW n, NEW v,
         \A i \in Kind, m \in Name :
           Lookup(mem'[i], m, NoVal) = IF i = k /\ m = n THEN v ELSE Lookup(mem[i], m, NoVal)
  PROVE  Abs' = [Abs EXCEPT ![<<k, n>>] = v]
<1>1. \A x \in Kind \X Name :
        Lookup(mem'[x[1]], x[2], NoVal) = IF x = <<k, n>> THEN v ELSE Lookup(mem[x[1]], x[2], NoVal)
  OBVIOUS
<1> QED BY <1>1 DEF Abs

(* What a command makes of the lists: lists again, ... *)
LEMMA EditedType ==
  ASSUME TypeOK, NEW t \in Thread, cmd[t] \in Command
  PROVE  /\ Edited(t) \in Document
         /\ Edited(t) = mem \/ \E l \in Seq(Entry) : Edited(t) = [mem EXCEPT ![cmd[t].kind] = l]
<1> DEFINE c == cmd[t]
<1>1. /\ c.kind \in Kind /\ c.name \in Name /\ mem \in Document
      /\ c.op = "set" => c.val \in Val
  BY DEF TypeOK, Command, SetCommand
<1>2. mem[c.kind] \in Seq(Entry)
  BY <1>1, DocFacts
<1>3. Edited(t) = mem \/ \E l \in Seq(Entry) : Edited(t) = [mem EXCEPT ![c.kind] = l]
  <2>1. CASE c.op = "set"
    <3>1. [name |-> c.name, val |-> c.val] \in Entry
      BY <1>1, <2>1 DEF Entry
    <3>2. /\ Replace(mem[c.kind], c.name, c.val) \in Seq(Entry)
          /\ Add(mem[c.kind], c.name, c.val) \in Seq(Entry)
      BY <1>2, <3>1, ListsStayLists
    <3> QED BY <2>1, <3>2 DEF Edited
  <2>2. CASE c.op # "set"
    <3>1. Drop(mem[c.kind], c.name) \in Seq(Entry)
      BY <1>2, DropStaysList
    <3> QED BY <2>2, <3>1 DEF Edited
  <2> QED BY <2>1, <2>2
<1>4. Edited(t) \in Document
  <2>1. CASE Edited(t) = mem
    BY <1>1, <2>1
  <2>2. ASSUME NEW l \in Seq(Entry), Edited(t) = [mem EXCEPT ![c.kind] = l]
        PROVE  Edited(t) \in Document
    BY <1>1, <2>2 DEF Document, Entry
  <2> QED BY <1>3, <2>1, <2>2
<1> QED BY <1>3, <1>4

(* ... and, while nobody misses a name or sets another's, the right ones.  *)
LEMMA EditedFacts ==
  ASSUME IInv, ~overlap, NEW t \in Thread, at[t] = "change", ~(found[t] /\ stale[t]),
         cmd[t] \in Command, mem' = Edited(t)
  PROVE  /\ \A k \in Kind : Unique(mem'[k])
         /\ Abs' = IF t \in Asking THEN [Abs EXCEPT ![TheKey(t)] = cmd[t].val] ELSE Abs
         /\ \A k \in Kind : k # cmd[t].kind => mem'[k] = mem[k]
         /\ Names(mem'[cmd[t].kind])
              \subseteq Names(mem[cmd[t].kind]) \cup {n \in {cmd[t].name} : cmd[t].op = "set"}
         /\ Names(mem[cmd[t].kind]) \ {n \in {cmd[t].name} : cmd[t].op = "del" /\ found[t]}
              \subseteq Names(mem'[cmd[t].kind])
<1> DEFINE c == cmd[t]
           k == c.kind
           n == c.name
<1>1. /\ k \in Kind /\ n \in Name /\ mem \in Document
      /\ \/ c.op = "set" /\ c.val \in Val
         \/ c.op = "del" /\ c.val = NoVal
         \/ c.op = "read"
  BY DEF IInv, TypeOK, Command, SetCommand
<1>2. /\ mem[k] \in Seq(Entry) /\ Unique(mem[k])
      /\ \A j \in Kind : Unique(mem[j])
  BY <1>1, DocFacts DEF IInv, NamesUnique
<1>3. Agrees(t)
  BY DEF IInv, SearchesAgree
<1>4. CASE c.op = "set"
  <2> DEFINE l == Put(mem[k], n, c.val)
  <2>1. [name |-> n, val |-> c.val] \in Entry
    BY <1>1, <1>4 DEF Entry
  <2>2. /\ l \in Seq(Entry) /\ Unique(l) /\ Names(l) = Names(mem[k]) \cup {n}
        /\ l = IF n \in Names(mem[k]) THEN Replace(mem[k], n, c.val) ELSE Add(mem[k], n, c.val)
        /\ \A m : Lookup(l, m, NoVal) = IF m = n THEN c.val ELSE Lookup(mem[k], m, NoVal)
    BY <1>2, <2>1, StorePut
  <2>3. found[t] = (n \in Names(mem[k]))
    BY <1>3, <1>4 DEF Agrees, IInv, TypeOK
  <2> HIDE DEF l
  <2>4. mem' = [mem EXCEPT ![k] = l]
    BY <1>4, <2>2, <2>3 DEF Edited, IInv, TypeOK
  <2>5. \A j \in Kind : mem'[j] = IF j = k THEN l ELSE mem[j]
    BY <1>1, <2>4 DEF Document
  <2>6. Abs' = [Abs EXCEPT ![<<k, n>>] = c.val]
    <3>1. \A i \in Kind, m \in Name :
            Lookup(mem'[i], m, NoVal) = IF i = k /\ m = n THEN c.val ELSE Lookup(mem[i], m, NoVal)
      BY <2>2, <2>5
    <3> QED BY <3>1, ListEffect
  <2>7. t \in Asking /\ TheKey(t) = <<k, n>>
    BY <1>4 DEF Asking, TheKey
  <2> QED BY <1>1, <1>2, <1>4, <2>2, <2>5, <2>6, <2>7
<1>5. CASE c.op = "del" /\ found[t]
  <2> DEFINE l == Drop(mem[k], n)
  <2>1. mem' = [mem EXCEPT ![k] = l]
    BY <1>5 DEF Edited
  <2>2. /\ l \in Seq(Entry) /\ Unique(l) /\ Names(l) = Names(mem[k]) \ {n}
        /\ \A m : Lookup(l, m, NoVal) = IF m = n THEN NoVal ELSE Lookup(mem[k], m, NoVal)
    BY <1>2, StoreDrop
  <2> HIDE DEF l
  <2>3. \A j \in Kind : mem'[j] = IF j = k THEN l ELSE mem[j]
    BY <1>1, <2>1 DEF Document
  <2>4. Abs' = [Abs EXCEPT ![<<k, n>>] = NoVal]
    <3>1. \A i \in Kind, m \in Name :
            Lookup(mem'[i], m, NoVal) = IF i = k /\ m = n THEN NoVal ELSE Lookup(mem[i], m, NoVal)
      BY <2>2, <2>3
    <3> QED BY <3>1, ListEffect
  <2>5. t \in Asking /\ TheKey(t) = <<k, n>> /\ c.val = NoVal
    BY <1>1, <1>5 DEF Asking, TheKey
  <2> QED BY <1>1, <1>2, <1>5, <2>2, <2>3, <2>4, <2>5
<1>6. CASE c.op # "set" /\ ~(c.op = "del" /\ found[t])
  <2>1. mem' = mem /\ t \notin Asking
    BY <1>6 DEF Edited, Asking
  <2> QED BY <1>2, <1>6, <2>1 DEF Abs
<1> QED BY <1>4, <1>5, <1>6

-----------------------------------------------------------------------------
(* A step that leaves the lists and the requests alone is none of the map. *)
LEMMA SameMap == UNCHANGED <<mem, Pending, overlap>> => Refines
BY DEF Refines, Abs

(* Commands of clients. *)
LEMMA CommandStep ==
  ASSUME IInv, NEW t \in Client, NEW c \in Command,
         SceneCommand(t, c) \/ ChannelCommand(t, c)
  PROVE  IInv' /\ Refines
<1>1. /\ Search(t, c) /\ Accepted(t, c) /\ t \in Thread
      /\ c.kind = "scene" \/ DeviceKnown
      /\ damaged' \in BOOLEAN
  BY DEF SceneCommand, ChannelCommand, Thread, IInv, TypeOK
<1>2. UNCHANGED <<mem, file, doc, mixed, undefined, crashes, phase, todo>>
  BY <1>1 DEF Search, Accepted
<1>3. DeviceKnown' = DeviceKnown
  BY <1>2 DEF DeviceKnown
<1>4. /\ at' \in [Thread -> {"idle", "change", "build", "open", "flush"}]
      /\ cmd' \in [Thread -> Command \cup {NoCommand}]
      /\ found' \in [Thread -> BOOLEAN] /\ stale' \in [Thread -> BOOLEAN]
      /\ overlap' \in BOOLEAN
      /\ NamesUnique' /\ NoChannelsYet' /\ Busy' /\ SearchesAgree' /\ Refines
  BY <1>1, <1>2, <1>3, SearchInv
<1>5. /\ cmds' \in 0..MaxCmd
      /\ acked' \in SUBSET (Kind \X Name) /\ claim' \in SUBSET Client
  <2>1. cmds \in 0..MaxCmd /\ acked \in SUBSET (Kind \X Name) /\ claim \in SUBSET Client
    BY DEF IInv, TypeOK
  <2> QED BY <2>1, <1>1, StoreAssumption DEF Accepted
<1>6. TypeOK'
  BY <1>1, <1>2, <1>4, <1>5 DEF IInv, TypeOK
<1> QED BY <1>4, <1>6 DEF IInv

(* A thread goes on with its command, or ends it. *)
LEMMA ThreadMoves ==
  ASSUME IInv, NEW t \in Thread, NEW p \in {"idle", "build", "open", "flush"},
         at[t] # "idle",
         at' = [at EXCEPT ![t] = p],
         \/ UNCHANGED cmd
         \/ p = "idle" /\ cmd' = [cmd EXCEPT ![t] = NoCommand],
         UNCHANGED <<phase, todo>>,
         phase \in {"boot", "parse"} => mem'["channel"] = mem["channel"]
  PROVE  /\ at' \in [Thread -> {"idle", "change", "build", "open", "flush"}]
         /\ cmd' \in [Thread -> Command \cup {NoCommand}]
         /\ NoChannelsYet' /\ Busy'
         /\ \A u \in Thread : at'[u] = "change" <=> (at[u] = "change" /\ u # t)
         /\ \A u \in Thread : at'[u] = "change" => cmd'[u] = cmd[u]
<1> USE DEF IInv, TypeOK
<1>1. /\ at' \in [Thread -> {"idle", "change", "build", "open", "flush"}]
      /\ cmd' \in [Thread -> Command \cup {NoCommand}]
  OBVIOUS
<1>2. \A u \in Thread : at'[u] # "idle" => at[u] # "idle" /\ cmd'[u] = cmd[u]
  OBVIOUS
<1>3. NoChannelsYet' /\ Busy'
  BY <1>2 DEF NoChannelsYet, Busy, DeviceKnown
<1>4. \A u \in Thread : at'[u] = "change" <=> (at[u] = "change" /\ u # t)
  OBVIOUS
<1> QED BY <1>1, <1>2, <1>3, <1>4

(* The change in the list. *)
LEMMA ChangeStep ==
  ASSUME IInv, NEW t \in Thread, NEW m \in SUBSET Thread, Change(t, m)
  PROVE  IInv' /\ Refines
<1>1. at[t] = "change" /\ ~(found[t] /\ stale[t]) /\ cmd[t] \in Command /\ mem' = Edited(t)
  BY DEF Change, IInv, Busy
<1>2. /\ mem' \in Document
      /\ mem' = mem \/ \E l \in Seq(Entry) : mem' = [mem EXCEPT ![cmd[t].kind] = l]
  BY <1>1, EditedType DEF IInv
<1>3. phase \in {"boot", "parse"} => mem'["channel"] = mem["channel"]
  <2> SUFFICES ASSUME phase \in {"boot", "parse"} PROVE mem'["channel"] = mem["channel"]
    OBVIOUS
  <2>1. cmd[t].kind = "scene"
    BY <1>1 DEF IInv, NoChannelsYet, DeviceKnown
  <2>2. mem \in Document
    BY DEF IInv, TypeOK
  <2> QED BY <1>2, <2>1, <2>2 DEF Document, Kind
<1>4. PICK p \in {"idle", "build"} :
        /\ at' = [at EXCEPT ![t] = p]
        /\ UNCHANGED cmd \/ (p = "idle" /\ cmd' = [cmd EXCEPT ![t] = NoCommand])
        /\ UNCHANGED doc \/ doc' = [doc EXCEPT ![t] = Empty]
  BY DEF Change, Done
<1>5. /\ UNCHANGED <<file, mixed, phase, todo, undefined, count, damaged>>
      /\ overlap' = (overlap \/ \E u \in m : cmd[u].op # "read")
      /\ \A u \in m : Misses(t, u)
  BY DEF Change
<1>6. /\ at' \in [Thread -> {"idle", "change", "build", "open", "flush"}]
      /\ cmd' \in [Thread -> Command \cup {NoCommand}]
      /\ NoChannelsYet' /\ Busy'
      /\ \A u \in Thread : at'[u] = "change" <=> (at[u] = "change" /\ u # t)
      /\ \A u \in Thread : at'[u] = "change" => cmd'[u] = cmd[u]
  BY <1>1, <1>3, <1>4, <1>5, ThreadMoves
<1>7. doc' \in [Thread -> Document]
  <2>1. Empty \in Document
    BY EmptySeq DEF Empty, Document, Kind
  <2> QED BY <1>4, <2>1 DEF IInv, TypeOK
<1>8. /\ found' \in [Thread -> BOOLEAN] /\ stale' \in [Thread -> BOOLEAN]
      /\ \A u \in Thread \ ({t} \cup m) :
           /\ found'[u] = found[u]
           /\ at[u] = "change" => stale'[u] = (stale[u] \/ Spoils(t, u))
      /\ \A u \in m : ~found'[u]
  <2>1. \A u \in Thread : found[u] \in BOOLEAN /\ stale[u] \in BOOLEAN
    BY DEF IInv, TypeOK
  <2>2. \A u \in Thread : Spoils(t, u) \in BOOLEAN /\ Frees(t) \in BOOLEAN
    BY <2>1 DEF Spoils, Frees
  <2>3. /\ found' = [u \in Thread |-> found[u] /\ u # t /\ u \notin m]
        /\ stale' = [u \in Thread |-> stale[u] \/ (Spoils(t, u) /\ u \notin m)
                                          \/ (at[u] = "build" /\ Frees(t))]
    BY DEF Change
  <2> QED BY <2>1, <2>2, <2>3
<1>9. acked' \in SUBSET (Kind \X Name) /\ claim' \in SUBSET Client
  BY DEF Change, Forgotten, Done, ack, IInv, TypeOK
<1>10. TypeOK'
  <2>1. overlap' \in BOOLEAN
    BY <1>5 DEF IInv, TypeOK
  <2> QED BY <1>2, <1>5, <1>6, <1>7, <1>8, <1>9, <2>1 DEF IInv, TypeOK, count
<1>11. ~overlap =>
         /\ \A k \in Kind : Unique(mem'[k])
         /\ Abs' = IF t \in Asking THEN [Abs EXCEPT ![TheKey(t)] = cmd[t].val] ELSE Abs
         /\ \A k \in Kind : k # cmd[t].kind => mem'[k] = mem[k]
         /\ Names(mem'[cmd[t].kind])
              \subseteq Names(mem[cmd[t].kind]) \cup {n \in {cmd[t].name} : cmd[t].op = "set"}
         /\ Names(mem[cmd[t].kind]) \ {n \in {cmd[t].name} : cmd[t].op = "del" /\ found[t]}
              \subseteq Names(mem'[cmd[t].kind])
  BY <1>1, EditedFacts
<1>12. NamesUnique'
  BY <1>5, <1>11 DEF NamesUnique
<1>13. SearchesAgree'
  <2> SUFFICES ASSUME ~overlap', NEW u \in Thread, at'[u] = "change"
               PROVE  Agrees(u)'
    BY DEF SearchesAgree
  <2>1. ~overlap /\ u # t /\ at[u] = "change" /\ cmd'[u] = cmd[u]
    BY <1>5, <1>6
  <2>2. Agrees(u) /\ cmd[u] \in Command /\ cmd[u].kind \in Kind
    BY <2>1 DEF IInv, SearchesAgree, Busy, Command, SetCommand
  <2>3. cmd[u].op = "set" => ~SetsToo(t, cmd[u])
    BY <1>1, <2>1, <2>2 DEF Agrees
  <2>4. found'[u] /\ ~stale'[u] => cmd[u].name \in Names(mem'[cmd[u].kind])
    <3> SUFFICES ASSUME found[u], ~stale[u], ~Spoils(t, u)
                 PROVE  cmd[u].name \in Names(mem'[cmd[u].kind])
      <4>1. CASE u \in m
        BY <1>8, <4>1
      <4>2. CASE u \notin m
        BY <1>8, <2>1, <4>2
      <4> QED BY <4>1, <4>2
    <3>1. cmd[u].name \in Names(mem[cmd[u].kind])
      BY <2>2 DEF Agrees
    <3>2. ~(cmd[u].kind = cmd[t].kind /\ cmd[u].name = cmd[t].name /\ cmd[t].op = "del" /\ found[t])
      BY <2>1 DEF Spoils, Frees
    <3> QED BY <1>11, <2>1, <2>2, <3>1, <3>2
  <2>5. ~found'[u] /\ cmd[u].op = "set" => cmd[u].name \notin Names(mem'[cmd[u].kind])
    <3> SUFFICES ASSUME ~found[u], cmd[u].op = "set"
                 PROVE  cmd[u].name \notin Names(mem'[cmd[u].kind])
      <4>1. cmd[u].op = "set" => u \notin m
        BY <1>5
      <4> QED BY <1>8, <2>1, <4>1
    <3>1. cmd[u].name \notin Names(mem[cmd[u].kind])
      BY <2>2 DEF Agrees
    <3>2. ~(cmd[u].kind = cmd[t].kind /\ cmd[u].name = cmd[t].name /\ cmd[t].op = "set")
      BY <2>3 DEF SetsToo
    <3> QED BY <1>11, <2>1, <2>2, <3>1, <3>2
  <2>6. cmd[u].op = "set" => \A w \in Thread \ {u} : ~(at'[w] = "change" /\ SetsToo(w, cmd[u])')
    BY <1>6, <2>1, <2>2 DEF Agrees, SetsToo
  <2> QED BY <2>1, <2>4, <2>5, <2>6 DEF Agrees
<1>14. Refines
  <2> DEFINE q == <<t, Request(t)>>
  <2>1. \A u \in Thread \ {t} : /\ u \in Asking' => u \in Asking
                                /\ u \in Asking => Request(u)' = Request(u) \/ u \notin Asking'
    <3> SUFFICES ASSUME NEW u \in Thread \ {t}
                 PROVE  /\ u \in Asking' => u \in Asking
                        /\ u \in Asking => Request(u)' = Request(u) \/ u \notin Asking'
      OBVIOUS
    <3>1. at'[u] = "change" => at[u] = "change" /\ cmd'[u] = cmd[u]
      BY <1>6
    <3>2. found'[u] => found[u]
      BY <1>8
    <3> QED BY <3>1, <3>2 DEF Asking, Request, TheKey
  <2>2. t \notin Asking'
    BY <1>6 DEF Asking
  <2>3. CASE overlap
    BY <1>5, <2>3 DEF Refines, Map!Next
  <2>4. CASE ~overlap /\ overlap'
    <3>1. PICK u \in m : cmd[u].op # "read" /\ Misses(t, u)
      BY <1>5, <2>4
    <3>2. t \in Asking /\ u \in Asking /\ u # t /\ cmd[u].kind = cmd[t].kind
      <4>1. cmd[u].op \in {"set", "del"}
        BY <3>1 DEF Misses, IInv, Busy, Command, SetCommand
      <4> QED BY <1>1, <3>1, <4>1 DEF Misses, Frees, Asking
    <3> DEFINE w == <<u, Request(u)>>
    <3>3. q \in Pending /\ q[1] = t /\ q[2].key = TheKey(t) /\ q[2].val = cmd[t].val
      BY <3>2 DEF Pending, Request
    <3>4. w \in Pending /\ w[1] # q[1] /\ w[2].key[1] = q[2].key[1]
      BY <3>2 DEF Pending, Request, TheKey
    <3>5. Abs' = [Abs EXCEPT ![q[2].key] = q[2].val]
      BY <1>11, <2>4, <3>2, <3>3
    <3>6. q \notin Pending' /\ Pending' \subseteq Pending
      <4>1. ASSUME NEW x \in Pending' PROVE x \in Pending /\ x # q
        <5>1. PICK v \in Asking' : x = <<v, Request(v)'>>
          BY DEF Pending
        <5>2. v \in Thread \ {t}
          BY <2>2, <5>1 DEF Asking
        <5>3. v \in Asking /\ x = <<v, Request(v)>>
          BY <2>1, <5>1, <5>2
        <5> QED BY <5>2, <5>3 DEF Pending
      <4> QED BY <4>1
    <3> HIDE DEF q, w
    <3>7. Map!Next
      BY <2>4, <3>3, <3>4, <3>5, <3>6 DEF Map!Next, Map!Meet, Abs, Pending
    <3> QED BY <3>7 DEF Refines
  <2>5. CASE ~overlap'
    <3>1. overlap' = overlap /\ \A u \in m : cmd[u].op = "read"
      BY <1>5, <2>5 DEF IInv, TypeOK
    <3>2. \A u \in Thread \ {t} : /\ u \in Asking' <=> u \in Asking
                                  /\ u \in Asking => Request(u)' = Request(u)
      <4> SUFFICES ASSUME NEW u \in Thread \ {t}, u \in Asking
                   PROVE  u \in Asking' /\ Request(u)' = Request(u)
        BY <2>1
      <4>1. u \notin m /\ at'[u] = "change" /\ cmd'[u] = cmd[u]
        BY <1>6, <3>1 DEF Asking
      <4>2. found'[u] = found[u]
        BY <1>8, <4>1
      <4> QED BY <4>1, <4>2 DEF Asking, Request, TheKey
    <3>3. CASE t \in Asking
      <4>1. q \in Pending /\ q[2].key = TheKey(t) /\ q[2].val = cmd[t].val
        BY <3>3 DEF Pending, Request
      <4>2. Pending' = Pending \ {q}
        BY <2>2, <3>2, <3>3 DEF Pending, Asking
      <4>3. Abs' = [Abs EXCEPT ![q[2].key] = q[2].val]
        BY <1>11, <2>5, <3>1, <3>3, <4>1
      <4> HIDE DEF q
      <4>4. Map!Next
        BY <3>1, <4>1, <4>2, <4>3 DEF Map!Next, Map!Do, Abs, Pending
      <4> QED BY <4>4 DEF Refines
    <3>4. CASE t \notin Asking
      <4>1. Pending' = Pending
        BY <2>2, <3>2, <3>4 DEF Pending, Asking
      <4> QED BY <1>11, <2>5, <3>1, <3>4, <4>1 DEF Refines
    <3> QED BY <3>3, <3>4
  <2> QED BY <2>3, <2>4, <2>5
<1> QED BY <1>6, <1>10, <1>12, <1>13, <1>14 DEF IInv

(* The steps of save_config. *)
LEMMA SaveStep ==
  ASSUME IInv, NEW t \in Thread, Build(t) \/ Open(t) \/ Flush(t)
  PROVE  IInv' /\ Refines
<1>1. UNCHANGED <<mem, found, stale, phase, todo, undefined, overlap, count>>
  BY DEF Build, Open, Flush
<1>2. PICK p \in {"idle", "open", "flush"} :
        /\ at[t] \notin {"idle", "change"} /\ at' = [at EXCEPT ![t] = p]
        /\ UNCHANGED cmd \/ (p = "idle" /\ cmd' = [cmd EXCEPT ![t] = NoCommand])
  BY DEF Build, Open, Flush, Done
<1>3. /\ at' \in [Thread -> {"idle", "change", "build", "open", "flush"}]
      /\ cmd' \in [Thread -> Command \cup {NoCommand}]
      /\ NoChannelsYet' /\ Busy'
      /\ \A u \in Thread : at'[u] = "change" <=> (at[u] = "change" /\ u # t)
      /\ \A u \in Thread : at'[u] = "change" => cmd'[u] = cmd[u]
  BY <1>1, <1>2, ThreadMoves
<1>4. Empty \in Document
  BY EmptySeq DEF Empty, Document, Kind
<1>5. [mem EXCEPT !["channel"] = <<>>] \in Document
  <2>1. <<>> \in Seq(Entry) /\ "channel" \in Kind /\ mem \in Document
    BY EmptySeq DEF IInv, TypeOK, Kind
  <2> QED BY <2>1, DocFacts
<1>6. doc' \in [Thread -> Document]
  <2>1. doc \in [Thread -> Document] /\ Known \in Document
    BY <1>5 DEF IInv, TypeOK, Known
  <2>2. \A k \in Kind, n \in Name : [Known EXCEPT ![k] = Drop(@, n)] \in Document
    BY <2>1, DocFacts, DropStaysList
  <2>3. \E d \in Document : doc' = doc \/ doc' = [doc EXCEPT ![t] = d]
    BY <1>4, <2>1, <2>2 DEF Build, Open, Flush, Done
  <2> QED BY <2>1, <2>3
<1>7. file' \in Document \cup {Torn}
  <2>1. file \in Document \cup {Torn} /\ doc[t] \in Document
    BY DEF IInv, TypeOK
  <2>2. CASE Build(t)
    BY <2>1, <2>2 DEF Build
  <2>3. CASE Open(t)
    BY <2>3 DEF Open
  <2>4. CASE Flush(t)
    BY <2>1, <2>4 DEF Flush
  <2> QED BY <2>2, <2>3, <2>4
<1>8. mixed' \in [Thread -> BOOLEAN]
  <2>1. \A u \in Thread : mixed[u] \in BOOLEAN
    BY DEF IInv, TypeOK
  <2> QED BY <2>1 DEF Build, Open, Flush, IInv, TypeOK
<1>9. /\ acked' \in SUBSET (Kind \X Name) /\ claim' \in SUBSET Client
      /\ damaged' \in BOOLEAN
  <2>1. TheKey(t) \in Kind \X Name
    BY <1>2 DEF IInv, Busy, TheKey, Command, SetCommand
  <2> QED BY <2>1 DEF Build, Open, Flush, Done, ack, IInv, TypeOK
<1>10. TypeOK'
  BY <1>1, <1>3, <1>6, <1>7, <1>8, <1>9 DEF IInv, TypeOK, count
<1>11. NamesUnique'
  BY <1>1 DEF IInv, NamesUnique
<1>12. SearchesAgree'
  <2> SUFFICES ASSUME ~overlap', NEW u \in Thread, at'[u] = "change"
               PROVE  Agrees(u)'
    BY DEF SearchesAgree
  <2>1. at[u] = "change" /\ Agrees(u) /\ cmd'[u] = cmd[u]
    BY <1>1, <1>3 DEF IInv, SearchesAgree
  <2> QED BY <1>1, <1>3, <2>1 DEF Agrees, SetsToo
<1>13. UNCHANGED Pending
  <2>1. \A u \in Thread : u \in Asking' <=> u \in Asking
    BY <1>1, <1>2, <1>3 DEF Asking
  <2>2. Asking' = Asking
    BY <2>1 DEF Asking
  <2>3. \A u \in Asking : Request(u)' = Request(u)
    BY <1>2, <1>3 DEF Asking, Request, TheKey
  <2> QED BY <2>2, <2>3 DEF Pending
<1> QED BY <1>1, <1>3, <1>10, <1>11, <1>12, <1>13, SameMap DEF IInv

-----------------------------------------------------------------------------
(* A step that leaves the lists empty clears the map. *)
LEMMA ClearedMap ==
  ASSUME \A k \in Kind : mem'[k] = <<>>,
         Pending' \in {Pending, {}}, UNCHANGED overlap
  PROVE  Refines /\ NamesUnique'
<1>1. \A n : Lookup(<<>>, n, NoVal) = NoVal
  BY DEF Lookup, Names
<1>2. Abs' = [x \in Kind \X Name |-> NoVal]
  BY <1>1 DEF Abs
<1>3. Map!Clear
  BY <1>2 DEF Abs, Pending, Map!Clear, Map!Key
<1>4. NamesUnique'
  BY DEF NamesUnique, Unique
<1> QED BY <1>3, <1>4 DEF Refines, Map!Next, Abs, Pending

(* What depends on the threads alone stays as they stay. *)
LEMMA SameThreads ==
  UNCHANGED <<thread, found>> => UNCHANGED Pending
BY DEF thread, Pending, Asking, Request, TheKey

(* init_scene. *)
LEMMA InitSceneStep ==
  ASSUME IInv, InitScene
  PROVE  IInv' /\ Refines
<1>1. /\ UNCHANGED <<file, thread, found, mixed, todo, undefined, overlap, count, ack, damaged>>
      /\ phase = "boot" /\ phase' = "parse"
      /\ mem' = [mem EXCEPT !["scene"] = <<>>]
  BY DEF InitScene
<1>2. /\ mem \in Document /\ mem["channel"] = <<>>
      /\ \A t \in Thread : at[t] # "idle" => cmd[t].kind = "scene"
  BY <1>1 DEF IInv, TypeOK, NoChannelsYet, DeviceKnown
<1>3. mem' \in Document
  <2>1. <<>> \in Seq(Entry) /\ "scene" \in Kind
    BY EmptySeq DEF Kind
  <2> QED BY <1>1, <1>2, <2>1, DocFacts
<1>4. \A k \in Kind : mem'[k] = <<>>
  BY <1>1, <1>2 DEF Document, Kind
<1>5. Refines /\ NamesUnique'
  BY <1>1, <1>4, ClearedMap, SameThreads
<1>6. /\ stale' \in [Thread -> BOOLEAN]
      /\ \A t \in Thread : at[t] = "change" /\ found[t] => stale'[t]
  <2>1. \A t \in Thread : stale[t] \in BOOLEAN
    BY DEF IInv, TypeOK
  <2> QED BY <2>1 DEF InitScene
<1>7. TypeOK'
  BY <1>1, <1>3, <1>6 DEF IInv, TypeOK, thread, count, ack
<1>8. NoChannelsYet' /\ Busy'
  BY <1>1, <1>2, <1>4 DEF IInv, NoChannelsYet, Busy, thread, Kind
<1>9. SearchesAgree'
  <2> SUFFICES ASSUME ~overlap', NEW u \in Thread, at'[u] = "change"
               PROVE  Agrees(u)'
    BY DEF SearchesAgree
  <2>1. at[u] = "change" /\ Agrees(u) /\ cmd'[u] = cmd[u] /\ "scene" \in Kind
    BY <1>1 DEF IInv, SearchesAgree, thread, Kind
  <2>2. mem'[cmd[u].kind] = <<>>
    BY <1>2, <1>4, <2>1
  <2>3. cmd[u].name \notin Names(mem'[cmd[u].kind])
    BY <2>2 DEF Names
  <2> QED BY <1>1, <1>6, <2>1, <2>3 DEF Agrees, SetsToo, thread
<1> QED BY <1>5, <1>7, <1>8, <1>9 DEF IInv

(* The end of the daemon. *)
LEMMA CrashStep ==
  ASSUME IInv, Crash
  PROVE  IInv' /\ Refines
<1>1. Empty \in Document /\ \A k \in Kind : Empty[k] = <<>>
  BY EmptySeq DEF Empty, Document, Kind
<1>2. mem' = Empty /\ UNCHANGED <<file, undefined, overlap, cmds, acked>>
  BY DEF Crash
<1>3. Refines /\ NamesUnique'
  <2>1. Asking' = {}
    BY DEF Crash, Asking
  <2>2. Pending' = {}
    BY <2>1 DEF Pending
  <2> QED BY <1>1, <1>2, <2>2, ClearedMap
<1>4. todo' \in Seq(SetCommand)
  BY EmptySeq DEF Crash
<1>5. crashes' \in 0..MaxCrash
  BY StoreAssumption DEF Crash, IInv, TypeOK
<1>6. TypeOK'
  BY <1>1, <1>2, <1>4, <1>5 DEF Crash, IInv, TypeOK
<1>7. NoChannelsYet' /\ Busy' /\ SearchesAgree'
  BY <1>1, <1>2 DEF Crash, NoChannelsYet, Busy, SearchesAgree, Kind
<1> QED BY <1>3, <1>6, <1>7 DEF IInv

(* What load_config finds in the file. *)
LEMMA TaggedFacts ==
  ASSUME NEW l \in Seq(Entry), NEW k \in Kind
  PROVE  Tagged(l, k) \in Seq(SetCommand)
<1>1. Len(l) \in Nat /\ DOMAIN l = 1..Len(l) /\ \A i \in DOMAIN l : l[i] \in Entry
  BY NamesFacts
<1>2. \A i \in DOMAIN l :
        [op |-> "set", kind |-> k, name |-> l[i].name, val |-> l[i].val] \in SetCommand
  BY <1>1 DEF Entry, SetCommand
<1>3. Tagged(l, k) \in [1..Len(l) -> SetCommand]
  BY <1>1, <1>2 DEF Tagged
<1> QED BY <1>1, <1>3, SeqDef

(* load_config reads the file, and ends. *)
LEMMA ParseStep ==
  ASSUME IInv, Parse \/ Loaded
  PROVE  IInv' /\ Refines
<1>1. /\ UNCHANGED <<mem, file, thread, found, stale, mixed, undefined, overlap, count, ack, damaged>>
      /\ phase' \in {"loading", "running"}
  BY DEF Parse, Loaded
<1>2. todo' \in Seq(SetCommand)
  <2>1. CASE Loaded
    BY <2>1 DEF Loaded, IInv, TypeOK
  <2>2. CASE Parse /\ file = Torn
    BY <2>2, EmptySeq DEF Parse
  <2>3. CASE Parse /\ file # Torn
    <3>1. file \in Document /\ "channel" \in Kind /\ "scene" \in Kind
      BY <2>3 DEF IInv, TypeOK, Kind
    <3>2. file["channel"] \in Seq(Entry) /\ file["scene"] \in Seq(Entry)
      BY <3>1, DocFacts
    <3>3. /\ Tagged(file["channel"], "channel") \in Seq(SetCommand)
          /\ Tagged(file["scene"], "scene") \in Seq(SetCommand)
      BY <3>1, <3>2, TaggedFacts
    <3>4. Tagged(file["channel"], "channel") \o Tagged(file["scene"], "scene") \in Seq(SetCommand)
      BY <3>3, ConcatProperties
    <3> QED BY <2>3, <3>4 DEF Parse
  <2> QED BY <2>1, <2>2, <2>3
<1>3. TypeOK'
  BY <1>1, <1>2 DEF IInv, TypeOK, thread, count, ack
<1>4. DeviceKnown => DeviceKnown'
  BY DEF Parse, Loaded, DeviceKnown
<1>5. NamesUnique' /\ NoChannelsYet' /\ Busy'
  BY <1>1, <1>4 DEF IInv, NamesUnique, NoChannelsYet, Busy, thread
<1>6. SearchesAgree'
  BY <1>1 DEF IInv, SearchesAgree, Agrees, SetsToo, thread
<1> QED BY <1>1, <1>3, <1>5, <1>6, SameMap, SameThreads DEF IInv

(* The next entry of the file, and the others. *)
LEMMA HeadFacts ==
  ASSUME TypeOK, todo # <<>>
  PROVE  /\ Head(todo) \in SetCommand /\ Tail(todo) \in Seq(SetCommand)
         /\ 1 \in DOMAIN todo /\ todo[1] = Head(todo)
         /\ \A i \in DOMAIN Tail(todo) : i + 1 \in DOMAIN todo /\ Tail(todo)[i] = todo[i + 1]
<1>1. todo \in Seq(SetCommand)
  BY DEF TypeOK
<1>2. /\ Head(todo) \in SetCommand /\ Tail(todo) \in Seq(SetCommand)
      /\ Len(todo) \in Nat /\ Len(todo) > 0 /\ DOMAIN todo = 1..Len(todo)
      /\ Len(Tail(todo)) = Len(todo) - 1 /\ DOMAIN Tail(todo) = 1..Len(Tail(todo))
  BY <1>1, HeadTailProperties, EmptySeq, LenProperties
<1>3. \A i \in 1..Len(Tail(todo)) : Tail(todo)[i] = todo[i + 1]
  BY <1>1, <1>2, HeadTailProperties
<1>4. Head(todo) = todo[1]
  BY <1>1
<1> QED BY <1>2, <1>3, <1>4

(* load_config adds a scene. *)
LEMMA LoadSceneStep ==
  ASSUME IInv, LoadScene
  PROVE  IInv' /\ Refines
<1>1. /\ UNCHANGED <<mem, file, doc, mixed, undefined, crashes>>
      /\ UNCHANGED <<phase, cmds, ack, damaged>>
      /\ phase = "loading" /\ todo # <<>> /\ todo' = Tail(todo)
      /\ Head(todo).kind = "scene" /\ Search(Main, Head(todo))
  BY DEF LoadScene, Search
<1>2. Head(todo) \in Command /\ todo' \in Seq(SetCommand) /\ Main \in Thread
  BY <1>1, HeadFacts DEF IInv, Command, Thread
<1>3. DeviceKnown => DeviceKnown'
  BY <1>1, HeadFacts DEF DeviceKnown, IInv
<1>4. /\ at' \in [Thread -> {"idle", "change", "build", "open", "flush"}]
      /\ cmd' \in [Thread -> Command \cup {NoCommand}]
      /\ found' \in [Thread -> BOOLEAN] /\ stale' \in [Thread -> BOOLEAN]
      /\ overlap' \in BOOLEAN
      /\ NamesUnique' /\ NoChannelsYet' /\ Busy' /\ SearchesAgree' /\ Refines
  BY <1>1, <1>2, <1>3, SearchInv
<1>5. TypeOK'
  BY <1>1, <1>2, <1>4 DEF IInv, TypeOK, ack
<1> QED BY <1>4, <1>5 DEF IInv

(* load_config adds a channel. *)
LEMMA LoadChannelStep ==
  ASSUME IInv, LoadChannel
  PROVE  IInv' /\ Refines
<1> DEFINE k == "channel"
           n == Head(todo).name
           v == Head(todo).val
           l == Put(mem[k], n, v)
<1>1. /\ UNCHANGED <<file, thread, found, stale, mixed, phase, undefined, overlap, count, ack, damaged>>
      /\ phase = "loading" /\ todo # <<>> /\ Head(todo).kind = "channel"
      /\ todo' = Tail(todo) /\ mem' = [mem EXCEPT ![k] = l]
  BY DEF LoadChannel
<1>2. /\ n \in Name /\ v \in Val /\ todo' \in Seq(SetCommand)
      /\ [name |-> n, val |-> v] \in Entry
  BY <1>1, HeadFacts DEF IInv, SetCommand, Entry
<1>3. mem \in Document /\ k \in Kind
  BY DEF IInv, TypeOK, Kind
<1>4. mem[k] \in Seq(Entry) /\ (~overlap => Unique(mem[k]))
  BY <1>3, DocFacts DEF IInv, NamesUnique
<1>5. l \in Seq(Entry)
  BY <1>2, <1>4, ListsStayLists DEF Put
<1>6. ~overlap =>
        /\ Unique(l)
        /\ \A m : Lookup(l, m, NoVal) = IF m = n THEN v ELSE Lookup(mem[k], m, NoVal)
  BY <1>2, <1>4, StorePut
<1> HIDE DEF l
<1>7. mem' \in Document /\ \A j \in Kind : mem'[j] = IF j = k THEN l ELSE mem[j]
  <2>1. mem' \in Document
    BY <1>1, <1>3, <1>5, DocFacts
  <2>2. \A j \in Kind : mem'[j] = IF j = k THEN l ELSE mem[j]
    BY <1>1, <1>3 DEF Document
  <2> QED BY <2>1, <2>2
<1>8. TypeOK'
  BY <1>1, <1>2, <1>7 DEF IInv, TypeOK, thread, count, ack
<1>9. NamesUnique'
  BY <1>1, <1>6, <1>7 DEF IInv, NamesUnique
<1>10. \A t \in Thread : at[t] # "idle" => cmd[t].kind = "scene"
  <2>1. ~DeviceKnown
    BY <1>1, HeadFacts DEF DeviceKnown, IInv
  <2> QED BY <2>1 DEF IInv, NoChannelsYet
<1>11. NoChannelsYet' /\ Busy'
  BY <1>1, <1>10 DEF IInv, NoChannelsYet, Busy, thread
<1>12. SearchesAgree'
  <2> SUFFICES ASSUME ~overlap', NEW u \in Thread, at'[u] = "change"
               PROVE  Agrees(u)'
    BY DEF SearchesAgree
  <2>1. at[u] = "change" /\ Agrees(u) /\ cmd'[u] = cmd[u] /\ cmd[u].kind = "scene"
    BY <1>1, <1>10 DEF IInv, SearchesAgree, thread
  <2>2. mem'[cmd[u].kind] = mem[cmd[u].kind]
    BY <1>7, <2>1 DEF Kind
  <2> QED BY <1>1, <2>1, <2>2 DEF Agrees, SetsToo, thread
<1>13. Refines
  <2>1. UNCHANGED <<Pending, overlap>>
    BY <1>1, SameThreads
  <2>2. CASE overlap
    BY <2>1, <2>2 DEF Refines, Map!Next
  <2>3. CASE ~overlap
    <3>1. Abs' = [Abs EXCEPT ![<<k, n>>] = v]
      <4>1. \A i \in Kind, m \in Name :
              Lookup(mem'[i], m, NoVal) = IF i = k /\ m = n THEN v ELSE Lookup(mem[i], m, NoVal)
        BY <1>6, <1>7, <2>3
      <4> QED BY <4>1, ListEffect
    <3>2. <<k, n>> \in Kind \X Name
      BY <1>2, <1>3
    <3>3. \E key \in Kind \X Name, w \in Val :
            Abs' = [Abs EXCEPT ![key] = w] /\ UNCHANGED <<Pending, overlap>>
      BY <1>2, <2>1, <3>1, <3>2
    <3>4. Map!Next
      BY <3>3 DEF Map!Next, Map!Load, Map!Key, Abs, Pending
    <3> QED BY <3>4 DEF Refines
  <2> QED BY <2>2, <2>3
<1> QED BY <1>8, <1>9, <1>11, <1>12, <1>13 DEF IInv

(* The use of a stale entry, which ends what the model says, and steps     *)
(* that change nothing.                                                    *)
LEMMA OtherStep ==
  ASSUME IInv, (\E t \in Thread : UseStale(t)) \/ UNCHANGED vars
  PROVE  IInv' /\ Refines
<1>1. /\ UNCHANGED <<mem, file, thread, found, stale, mixed, phase, todo, overlap, count, ack, damaged>>
      /\ undefined' \in BOOLEAN
  BY DEF UseStale, vars, IInv, TypeOK
<1>2. TypeOK'
  BY <1>1 DEF IInv, TypeOK, thread, count, ack
<1>3. NamesUnique' /\ NoChannelsYet' /\ Busy'
  BY <1>1 DEF IInv, NamesUnique, NoChannelsYet, Busy, DeviceKnown, thread
<1>4. SearchesAgree'
  BY <1>1 DEF IInv, SearchesAgree, Agrees, SetsToo, thread
<1> QED BY <1>1, <1>2, <1>3, <1>4, SameMap, SameThreads DEF IInv

LEMMA StepInv == IInv /\ [Next]_vars => IInv' /\ Refines
<1> SUFFICES ASSUME IInv, [Next]_vars PROVE IInv' /\ Refines
  OBVIOUS
<1>1. CASE \E t \in Client, c \in Command : SceneCommand(t, c) \/ ChannelCommand(t, c)
  BY <1>1, CommandStep
<1>2. CASE \E t \in Thread, m \in SUBSET Thread : Change(t, m)
  BY <1>2, ChangeStep
<1>3. CASE \E t \in Thread : Build(t) \/ Open(t) \/ Flush(t)
  BY <1>3, SaveStep
<1>4. CASE (\E t \in Thread : UseStale(t)) \/ UNCHANGED vars
  BY <1>4, OtherStep
<1>5. CASE InitScene
  BY <1>5, InitSceneStep
<1>6. CASE Parse \/ Loaded
  BY <1>6, ParseStep
<1>7. CASE LoadScene
  BY <1>7, LoadSceneStep
<1>8. CASE LoadChannel
  BY <1>8, LoadChannelStep
<1>9. CASE Crash
  BY <1>9, CrashStep
<1> QED BY <1>1, <1>2, <1>3, <1>4, <1>5, <1>6, <1>7, <1>8, <1>9 DEF Next

LEMMA StoreInv == Spec => []IInv
BY InitInv, StepInv, PTL DEF Spec

-----------------------------------------------------------------------------
(* Why a name survives restarts. As long as nothing endangered the file,   *)
(* ...                                                                     *)
Here == {x \in Kind \X Name : x[2] \in Names(mem[x[1]])}
Filed == {x \in Kind \X Name : x[2] \in Names(file[x[1]])}
Written(t) == {x \in Kind \X Name : x[2] \in Names(doc[t][x[1]])}
Ahead == {<<todo[i].kind, todo[i].name>> : i \in DOMAIN todo}

(* ... nobody works, and the file has every promised name, until the       *)
(* device is known; ...                                                    *)
Untouched ==
  ~DeviceKnown =>
    /\ file # Torn /\ acked \subseteq Filed
    /\ \A t \in Thread : at[t] = "idle"

(* ... load_config only adds, the channels first, and ends; ...            *)
Loader ==
  /\ phase = "running" => todo = <<>> /\ at[Main] = "idle"
  /\ at[Main] # "idle" => cmd[Main].op = "set"
  /\ \A i, j \in DOMAIN todo : i < j /\ todo[i].kind = "scene" => todo[j].kind = "scene"

(* ... one thread writes; ...                                              *)
OneWriter ==
  /\ \A t \in Thread : ~mixed[t]
  /\ \A t, u \in Thread : at[t] = "flush" /\ at[u] = "flush" => t = u

(* ... what a thread found is there, unless it is stale; ...               *)
FoundThere ==
  \A t \in Thread : at[t] = "change" /\ found[t] /\ ~stale[t] => TheKey(t) \in Here

(* ... a name that a thread has added, and nobody deleted, is there; ...   *)
Claimed ==
  \A t \in claim : /\ at[t] # "idle" /\ cmd[t].op = "set"
                   /\ at[t] # "change" => TheKey(t) \in Here

(* ... a promised name is there, or load_config has yet to add it, which   *)
(* it has not if a client works; ...                                       *)
InMemory ==
  /\ phase \in {"loading", "running"} =>
       acked \subseteq Here \cup Ahead \cup {x \in {TheKey(Main)} : at[Main] = "change"}
  /\ (\E t \in Client : at[t] # "idle") => acked \subseteq Here

(* ... a promised name that is there is in the file and in every document  *)
(* that is to be written, unless load_config has just added it; and so is  *)
(* in a document what was promised when the writer before it is done.      *)
ByMain(x) == at[Main] \in {"build", "open", "flush"} /\ x = TheKey(Main)
InFile ==
  (\A t \in Thread : at[t] # "flush") =>
    /\ file # Torn
    /\ \A x \in acked \cap Here : x \in Filed \/ ByMain(x)
InDocuments ==
  \A t \in Thread : at[t] \in {"open", "flush"} =>
    /\ \A x \in acked \cap Here : x \in Written(t) \/ (t # Main /\ ByMain(x))
    /\ \A u \in Thread :
         /\ at[u] = "flush" \/ u = t
         /\ u \in claim \/ (u = Main /\ TheKey(u) \in acked \cap Here)
         => TheKey(u) \in Written(t)

Kept ==
  /\ Untouched /\ Loader /\ OneWriter /\ FoundThere
  /\ Claimed /\ InMemory /\ InFile /\ InDocuments
KeptInv == ~damaged /\ ~undefined => Kept

LEMMA KeptInit == Init => KeptInv
<1> SUFFICES ASSUME Init PROVE Kept
  BY DEF KeptInv
<1> USE DEF Init
<1>1. file # Torn
  BY StoreAssumption
<1>2. acked = Filed
  BY DEF Filed
<1>3. Main \in Thread
  BY DEF Thread
<1>4. DOMAIN todo = {}
  OBVIOUS
<1>5. Untouched /\ OneWriter /\ FoundThere /\ Claimed
  BY <1>1, <1>2 DEF Untouched, OneWriter, FoundThere, Claimed
<1>6. Loader
  BY <1>3, <1>4 DEF Loader
<1>7. InMemory
  BY <1>3 DEF InMemory, Thread
<1>8. InFile /\ InDocuments
  BY <1>1, <1>2 DEF InFile, InDocuments
<1> QED BY <1>5, <1>6, <1>7, <1>8 DEF Kept

(* A command begins. *)
LEMMA CommandKept ==
  ASSUME TypeOK, Kept, ~damaged', NEW t \in Client, NEW c \in Command,
         SceneCommand(t, c) \/ ChannelCommand(t, c)
  PROVE  Kept'
<1>1. /\ Search(t, c) /\ Accepted(t, c) /\ DeviceKnown
      /\ t \in Thread /\ Main \in Thread /\ t # Main
  BY StoreAssumption DEF SceneCommand, ChannelCommand, Thread
<1>2. UNCHANGED <<mem, file, doc, mixed, phase, todo>>
  BY <1>1 DEF Search, Accepted
<1>3. DeviceKnown' /\ UNCHANGED <<Here, Filed, Ahead>> /\ \A u : Written(u)' = Written(u)
  BY <1>1, <1>2 DEF DeviceKnown, Here, Filed, Ahead, Written
<1>4. /\ at[t] = "idle" /\ at'[t] = "change" /\ cmd'[t] = c /\ ~stale'[t]
      /\ found'[t] = (c.name \in Names(mem[c.kind]))
      /\ \A u \in Thread \ {t} : /\ at'[u] = at[u] /\ cmd'[u] = cmd[u]
                                 /\ found'[u] = found[u] /\ stale'[u] = stale[u]
  BY <1>1 DEF Search, TypeOK
<1>5. /\ acked' \subseteq acked /\ (phase # "running" => acked' = {})
      /\ \A u \in claim' : u \in claim \/ (u = t /\ c.op = "set")
      /\ claim' \subseteq Thread
  <2>1. claim \subseteq Thread
    BY DEF TypeOK, Thread
  <2> QED BY <1>1, <2>1 DEF Accepted
<1>6. \A u \in Thread \ {t} : TheKey(u)' = TheKey(u)
  BY <1>4 DEF TheKey
<1>7. Untouched' /\ Loader' /\ OneWriter'
  BY <1>1, <1>2, <1>3, <1>4 DEF Kept, Untouched, Loader, OneWriter
<1>8. FoundThere'
  <2>1. found'[t] => TheKey(t)' \in Here'
    BY <1>3, <1>4 DEF TheKey, Here, Command, SetCommand
  <2> QED BY <1>3, <1>4, <1>6, <2>1 DEF Kept, FoundThere
<1>9. Claimed'
  BY <1>3, <1>4, <1>5, <1>6 DEF Kept, Claimed
<1>10. InMemory'
  <2>1. acked' \subseteq Here
    <3>1. CASE phase = "running"
      <4>1. Ahead = {}
        BY <3>1 DEF Kept, Loader, Ahead
      <4> QED BY <3>1, <4>1, <1>5 DEF Kept, InMemory, Loader
    <3> QED BY <3>1, <1>5
  <2> QED BY <2>1, <1>3 DEF InMemory
<1>11. \A x : ByMain(x)' <=> ByMain(x)
  BY <1>1, <1>4, <1>6 DEF ByMain
<1>12. InFile'
  BY <1>1, <1>2, <1>3, <1>4, <1>5, <1>11 DEF Kept, InFile
<1>13. InDocuments'
  <2> SUFFICES ASSUME NEW u \in Thread, at'[u] \in {"open", "flush"}
               PROVE  /\ \A x \in acked' \cap Here' :
                           x \in Written(u)' \/ (u # Main /\ ByMain(x)')
                      /\ \A w \in Thread :
                           /\ at'[w] = "flush" \/ w = u
                           /\ w \in claim' \/ (w = Main /\ TheKey(w)' \in acked' \cap Here')
                           => TheKey(w)' \in Written(u)'
    BY DEF InDocuments
  <2>1. u # t /\ at[u] \in {"open", "flush"}
    BY <1>4
  <2>2. \A x \in acked' \cap Here' : x \in Written(u)' \/ (u # Main /\ ByMain(x)')
    BY <1>3, <1>5, <1>11, <2>1 DEF Kept, InDocuments
  <2>3. ASSUME NEW w \in Thread, at'[w] = "flush" \/ w = u,
               w \in claim' \/ (w = Main /\ TheKey(w)' \in acked' \cap Here')
        PROVE  TheKey(w)' \in Written(u)'
    <3>1. w # t /\ (at[w] = "flush" \/ w = u) /\ TheKey(w)' = TheKey(w)
      BY <1>4, <1>6, <2>1, <2>3
    <3>2. w \in claim \/ (w = Main /\ TheKey(w) \in acked \cap Here)
      BY <1>3, <1>5, <2>3, <3>1
    <3> QED BY <1>3, <2>1, <3>1, <3>2 DEF Kept, InDocuments
  <2> QED BY <2>2, <2>3
<1> QED BY <1>7, <1>8, <1>9, <1>10, <1>12, <1>13 DEF Kept

(* The names that an edit adds and takes away, with names that are there   *)
(* twice or not.                                                           *)
LEMMA EditedNames ==
  ASSUME TypeOK, NEW t \in Thread, cmd[t] \in Command, mem' = Edited(t),
         found[t] => TheKey(t) \in Here
  PROVE  /\ TheKey(t) \in Kind \X Name
         /\ \A x \in Here : x \in Here' \/ (x = TheKey(t) /\ cmd[t].op = "del" /\ found[t])
         /\ \A x \in Here' : x \in Here \/ (x = TheKey(t) /\ cmd[t].op = "set" /\ ~found[t])
         /\ cmd[t].op = "set" => TheKey(t) \in Here'
<1> DEFINE k == cmd[t].kind
           n == cmd[t].name
           v == cmd[t].val
<1>1. k \in Kind /\ n \in Name /\ mem \in Document
  BY DEF TypeOK, Command, SetCommand
<1>2. mem[k] \in Seq(Entry)
  BY <1>1, DocFacts
<1>3. /\ Names(Add(mem[k], n, v)) = Names(mem[k]) \cup {n}
      /\ n \in Names(mem[k]) => Names(Replace(mem[k], n, v)) = Names(mem[k])
      /\ Names(Drop(mem[k], n)) \subseteq Names(mem[k])
      /\ Names(mem[k]) \ {n} \subseteq Names(Drop(mem[k], n))
  BY ZenonT(60), <1>2, NamesStay
<1>4. found[t] => n \in Names(mem[k])
  BY DEF TheKey, Here
<1>5. TheKey(t) = <<k, n>> /\ <<k, n>> \in Kind \X Name
  BY <1>1 DEF TheKey
<1>6. /\ \A j \in Kind : j # k => mem'[j] = mem[j]
      /\ \/ /\ cmd[t].op = "set" /\ found[t]
            /\ Names(mem'[k]) = Names(mem[k]) /\ n \in Names(mem[k])
         \/ /\ cmd[t].op = "set" /\ ~found[t]
            /\ Names(mem'[k]) = Names(mem[k]) \cup {n}
         \/ /\ cmd[t].op = "del" /\ found[t]
            /\ Names(mem'[k]) \subseteq Names(mem[k])
            /\ Names(mem[k]) \ {n} \subseteq Names(mem'[k])
         \/ cmd[t].op # "set" /\ Names(mem'[k]) = Names(mem[k])
  <2>1. CASE cmd[t].op = "set" /\ found[t]
    <3>1. mem' = [mem EXCEPT ![k] = Replace(mem[k], n, v)]
      BY <2>1 DEF Edited
    <3>2. mem'[k] = Replace(mem[k], n, v) /\ \A j \in Kind : j # k => mem'[j] = mem[j]
      BY <3>1, <1>1 DEF Document
    <3> QED BY <2>1, <3>2, <1>3, <1>4
  <2>2. CASE cmd[t].op = "set" /\ ~found[t]
    <3>1. mem' = [mem EXCEPT ![k] = Add(mem[k], n, v)]
      BY <2>2 DEF Edited
    <3>2. mem'[k] = Add(mem[k], n, v) /\ \A j \in Kind : j # k => mem'[j] = mem[j]
      BY <3>1, <1>1 DEF Document
    <3> QED BY <2>2, <3>2, <1>3
  <2>3. CASE cmd[t].op = "del" /\ found[t]
    <3>1. mem' = [mem EXCEPT ![k] = Drop(mem[k], n)]
      BY <2>3 DEF Edited
    <3>2. mem'[k] = Drop(mem[k], n) /\ \A j \in Kind : j # k => mem'[j] = mem[j]
      BY <3>1, <1>1 DEF Document
    <3> QED BY <2>3, <3>2, <1>3
  <2>4. CASE cmd[t].op # "set" /\ ~(cmd[t].op = "del" /\ found[t])
    <3>1. mem' = mem
      BY <2>4 DEF Edited
    <3> QED BY <2>4, <3>1
  <2> QED BY <2>1, <2>2, <2>3, <2>4
<1>7. \A x \in Kind \X Name :
        x \in Here' /\ x \notin Here => x = <<k, n>> /\ cmd[t].op = "set" /\ ~found[t]
  BY <1>1, <1>6 DEF Here
<1>8. \A x \in Kind \X Name :
        x \in Here /\ x \notin Here' => x = <<k, n>> /\ cmd[t].op = "del" /\ found[t]
  BY <1>1, <1>6 DEF Here
<1>9. cmd[t].op = "set" => <<k, n>> \in Here'
  BY <1>5, <1>6 DEF Here
<1>10. Here \subseteq Kind \X Name /\ Here' \subseteq Kind \X Name
  BY DEF Here
<1> QED BY <1>5, <1>7, <1>8, <1>9, <1>10

(* The change in the list. *)
LEMMA ChangeKept ==
  ASSUME IInv, Kept, NEW t \in Thread, NEW m \in SUBSET Thread, Change(t, m)
  PROVE  Kept'
<1> USE DEF Kept
<1>0. TypeOK /\ Busy
  BY DEF IInv
<1>1. /\ at[t] = "change" /\ cmd[t] \in Command /\ mem' = Edited(t)
      /\ ~(found[t] /\ stale[t])
      /\ UNCHANGED <<file, mixed, phase, todo>>
  BY <1>0 DEF Change, Busy
<1>2. /\ TheKey(t) \in Kind \X Name
      /\ \A x \in Here : x \in Here' \/ (x = TheKey(t) /\ cmd[t].op = "del" /\ found[t])
      /\ \A x \in Here' : x \in Here \/ (x = TheKey(t) /\ cmd[t].op = "set" /\ ~found[t])
      /\ cmd[t].op = "set" => TheKey(t) \in Here'
  <2>1. found[t] => TheKey(t) \in Here
    BY <1>0, <1>1 DEF FoundThere, TypeOK
  <2> QED BY <1>0, <1>1, <2>1, EditedNames
<1>3. cmd[t].kind \in Kind
  BY <1>1 DEF Command, SetCommand
<1>4. /\ \A u \in Thread \ {t} : /\ at'[u] = at[u] /\ cmd'[u] = cmd[u]
                                 /\ found'[u] => found[u]
                                 /\ doc'[u] = doc[u]
                                 /\ found'[u] /\ ~stale'[u] => ~stale[u] /\ ~Spoils(t, u)
      /\ \/ at'[t] = "build" /\ cmd'[t] = cmd[t] /\ Saves(t)
         \/ at'[t] = "idle" /\ ~Saves(t)
  <2>1. \A u \in Thread \ {t} : at'[u] = at[u] /\ cmd'[u] = cmd[u] /\ doc'[u] = doc[u]
    BY <1>0 DEF Change, Done, TypeOK
  <2>2. /\ found' = [u \in Thread |-> found[u] /\ u # t /\ u \notin m]
        /\ stale' = [u \in Thread |-> stale[u] \/ (Spoils(t, u) /\ u \notin m)
                                          \/ (at[u] = "build" /\ Frees(t))]
    BY DEF Change
  <2>3. \A u \in Thread \ {t} : /\ found'[u] => found[u]
                                /\ found'[u] /\ ~stale'[u] => ~stale[u] /\ ~Spoils(t, u)
    BY <2>2
  <2>4. \/ at'[t] = "build" /\ cmd'[t] = cmd[t] /\ Saves(t)
        \/ at'[t] = "idle" /\ ~Saves(t)
    BY <1>0 DEF Change, Done, TypeOK
  <2> QED BY <2>1, <2>3, <2>4
<1>5. /\ acked' \subseteq acked /\ \A u \in claim' : u \in claim
      /\ cmd[t].op = "del" /\ found[t] =>
           TheKey(t) \notin acked' /\ \A u \in claim' : TheKey(u) # TheKey(t)
      /\ t \in claim' => at'[t] = "build"
  <2>1. cmd[t].op = "del" /\ found[t] => Saves(t)
    BY <1>3 DEF Saves, Kind
  <2>2. CASE Saves(t)
    BY <1>0, <2>2 DEF Change, Forgotten, ack, TypeOK
  <2>3. CASE ~Saves(t)
    BY <2>1, <2>3 DEF Change, Done
  <2> QED BY <2>2, <2>3
<1>6. /\ UNCHANGED <<Filed, Ahead>>
      /\ \A u \in Thread \ {t} : TheKey(u)' = TheKey(u) /\ Written(u)' = Written(u)
      /\ at'[t] = "build" => TheKey(t)' = TheKey(t)
  BY <1>1, <1>4 DEF Filed, Ahead, TheKey, Written
<1>7. Main \in Thread /\ \A u \in Thread : u = Main \/ u \in Client
  BY DEF Thread
<1>8. claim \subseteq Thread
  BY <1>0 DEF TypeOK, Thread
<1>9. Untouched'
  BY <1>1 DEF Untouched, DeviceKnown
<1>10. Loader' /\ OneWriter'
  BY <1>1, <1>4, <1>7 DEF Loader, OneWriter
<1>11. FoundThere'
  <2> SUFFICES ASSUME NEW u \in Thread, at'[u] = "change", found'[u], ~stale'[u]
               PROVE  TheKey(u)' \in Here'
    BY DEF FoundThere
  <2>1. u # t /\ at[u] = "change" /\ found[u] /\ ~stale[u] /\ ~Spoils(t, u)
    BY <1>4
  <2>2. TheKey(u) \in Here
    BY <2>1 DEF FoundThere
  <2>3. ~(TheKey(u) = TheKey(t) /\ cmd[t].op = "del" /\ found[t])
    BY <2>1 DEF Spoils, Frees, TheKey
  <2> QED BY <1>2, <1>6, <2>1, <2>2, <2>3
<1>12. Claimed'
  <2> SUFFICES ASSUME NEW u \in claim'
               PROVE  /\ at'[u] # "idle" /\ cmd'[u].op = "set"
                      /\ at'[u] # "change" => TheKey(u)' \in Here'
    BY DEF Claimed
  <2>1. u \in claim /\ u \in Thread /\ at[u] # "idle" /\ cmd[u].op = "set"
    BY <1>5, <1>8 DEF Claimed
  <2>2. CASE u = t
    BY <1>2, <1>4, <1>5, <1>6, <2>1, <2>2
  <2>3. CASE u # t
    BY <1>2, <1>4, <1>5, <1>6, <2>1, <2>3 DEF Claimed
  <2> QED BY <2>2, <2>3
<1>13. \A x \in acked' : x \in Here => x \in Here'
  BY <1>2, <1>5
<1>14. InMemory'
  <2>1. ASSUME phase \in {"loading", "running"}, NEW x \in acked'
        PROVE  x \in Here' \/ x \in Ahead' \/ (x = TheKey(Main)' /\ at'[Main] = "change")
    <3>1. x \in Here \/ x \in Ahead \/ (x = TheKey(Main) /\ at[Main] = "change")
      BY <1>5, <2>1 DEF InMemory
    <3>2. CASE x \in Here \/ x \in Ahead
      BY <1>6, <1>13, <3>2
    <3>3. CASE x = TheKey(Main) /\ at[Main] = "change" /\ t # Main
      BY <1>4, <1>6, <1>7, <3>3
    <3>4. CASE x = TheKey(Main) /\ t = Main
      BY <1>1, <1>2, <3>4 DEF Loader
    <3> QED BY <3>1, <3>2, <3>3, <3>4
  <2>2. (\E u \in Client : at'[u] # "idle") => acked' \subseteq Here'
    <3> SUFFICES ASSUME NEW u \in Client, at'[u] # "idle"
                 PROVE  acked' \subseteq Here'
      OBVIOUS
    <3>1. at[u] # "idle"
      BY <1>1, <1>4 DEF Thread
    <3> QED BY <1>5, <1>13, <3>1 DEF InMemory
  <2> QED BY <1>1, <2>1, <2>2 DEF InMemory
<1>5a. ASSUME NEW x \in acked' \cap Here'
       PROVE  x \in acked /\ (x \in Here \/ (t = Main /\ ByMain(x)'))
  <2>1. CASE t = Main /\ x \notin Here
    <3>1. x = TheKey(t) /\ cmd[t].op = "set" /\ ~found[t]
      BY <1>2, <2>1
    <3>2. Saves(t)
      BY <1>3, <3>1 DEF Saves, Kind
    <3> QED BY <1>4, <1>5, <1>6, <2>1, <3>1, <3>2 DEF ByMain
  <2>2. CASE t # Main
    <3>1. acked \subseteq Here
      BY <1>1, <1>7, <2>2 DEF InMemory
    <3> QED BY <1>5, <3>1
  <2> QED BY <1>5, <2>1, <2>2
<1>16. \A x : ByMain(x) => ByMain(x)'
  BY <1>1, <1>4, <1>6, <1>7 DEF ByMain
<1>17. InFile'
  <2> SUFFICES ASSUME \A u \in Thread : at'[u] # "flush"
               PROVE  file' # Torn /\ \A x \in acked' \cap Here' : x \in Filed' \/ ByMain(x)'
    BY DEF InFile
  <2>1. \A u \in Thread : at[u] # "flush"
    BY <1>1, <1>4
  <2>2. file # Torn /\ \A x \in acked \cap Here : x \in Filed \/ ByMain(x)
    BY <2>1 DEF InFile
  <2> QED BY <1>1, <1>6, <1>5a, <1>16, <2>2
<1>18. InDocuments'
  <2> SUFFICES ASSUME NEW u \in Thread, at'[u] \in {"open", "flush"}
               PROVE  /\ \A x \in acked' \cap Here' :
                           x \in Written(u)' \/ (u # Main /\ ByMain(x)')
                      /\ \A w \in Thread :
                           /\ at'[w] = "flush" \/ w = u
                           /\ w \in claim' \/ (w = Main /\ TheKey(w)' \in acked' \cap Here')
                           => TheKey(w)' \in Written(u)'
    BY DEF InDocuments
  <2>1. u # t /\ at[u] \in {"open", "flush"} /\ Written(u)' = Written(u)
    BY <1>4, <1>6
  <2>2. \A x \in acked \cap Here : x \in Written(u) \/ (u # Main /\ ByMain(x))
    BY <2>1 DEF InDocuments
  <2>3. \A x \in acked' \cap Here' : x \in Written(u)' \/ (u # Main /\ ByMain(x)')
    BY <1>5a, <1>16, <2>1, <2>2
  <2>4. ASSUME NEW w \in Thread, at'[w] = "flush" \/ w = u,
               w \in claim' \/ (w = Main /\ TheKey(w)' \in acked' \cap Here')
        PROVE  TheKey(w)' \in Written(u)'
    <3>1. w # t /\ (at[w] = "flush" \/ w = u) /\ TheKey(w)' = TheKey(w)
      BY <1>4, <1>6, <2>1, <2>4
    <3>2. w \in claim \/ (w = Main /\ TheKey(w) \in acked \cap Here)
      BY <1>5, <1>5a, <2>4, <3>1
    <3> QED BY <2>1, <3>1, <3>2 DEF InDocuments
  <2> QED BY <2>3, <2>4
<1> QED BY <1>9, <1>10, <1>11, <1>12, <1>14, <1>17, <1>18

(* The document is put together. *)
LEMMA BuildKept ==
  ASSUME IInv, Kept, ~damaged, ~damaged', NEW t \in Thread, Build(t)
  PROVE  Kept'
<1> USE DEF Kept
<1>0. TypeOK
  BY DEF IInv
<1>1. /\ at[t] = "build" /\ DeviceKnown
      /\ UNCHANGED <<mem, file, cmd, found, stale, mixed, phase, todo, acked, claim>>
  BY DEF Build, Untouched, ack
<1>2. /\ at'[t] = "open" /\ doc'[t] = mem
      /\ \A u \in Thread \ {t} : at'[u] = at[u] /\ doc'[u] = doc[u]
  BY <1>0, <1>1 DEF Build, Known, TypeOK
<1>3. /\ UNCHANGED <<Here, Filed, Ahead>> /\ \A u : TheKey(u)' = TheKey(u)
      /\ Written(t)' = Here /\ \A u \in Thread \ {t} : Written(u)' = Written(u)
  BY <1>1, <1>2 DEF Here, Filed, Ahead, TheKey, Written
<1>4. Main \in Thread /\ claim \subseteq Thread /\ \A u \in Client : u \in Thread
  BY <1>0 DEF TypeOK, Thread
<1>5. \A x : ByMain(x)' <=> ByMain(x)
  BY <1>1, <1>2, <1>3, <1>4 DEF ByMain
<1>6. Untouched' /\ Loader' /\ OneWriter'
  BY <1>1, <1>2, <1>4 DEF Untouched, DeviceKnown, Loader, OneWriter
<1>7. FoundThere' /\ Claimed'
  BY <1>1, <1>2, <1>3, <1>4 DEF FoundThere, Claimed
<1>8. InMemory'
  BY <1>1, <1>2, <1>3, <1>4 DEF InMemory
<1>9. InFile'
  BY <1>1, <1>2, <1>3, <1>5 DEF InFile
<1>10. InDocuments'
  <2> SUFFICES ASSUME NEW u \in Thread, at'[u] \in {"open", "flush"}
               PROVE  /\ \A x \in acked' \cap Here' :
                           x \in Written(u)' \/ (u # Main /\ ByMain(x)')
                      /\ \A w \in Thread :
                           /\ at'[w] = "flush" \/ w = u
                           /\ w \in claim' \/ (w = Main /\ TheKey(w)' \in acked' \cap Here')
                           => TheKey(w)' \in Written(u)'
    BY DEF InDocuments
  <2>1. CASE u = t
    <3>1. \A w \in claim : at'[w] = "flush" \/ w = t => TheKey(w) \in Here
      BY <1>1, <1>2, <1>4 DEF Claimed
    <3> QED BY <1>1, <1>3, <2>1, <3>1
  <2>2. CASE u # t
    <3>1. at[u] \in {"open", "flush"} /\ \A w \in Thread : at'[w] = "flush" => at[w] = "flush"
      BY <1>2, <2>2
    <3> QED BY <1>1, <1>3, <1>5, <2>2, <3>1 DEF InDocuments
  <2> QED BY <2>1, <2>2
<1> QED BY <1>6, <1>7, <1>8, <1>9, <1>10

(* The file is opened, and nobody else is about to write. *)
LEMMA OpenKept ==
  ASSUME IInv, Kept, ~damaged', NEW t \in Thread, Open(t)
  PROVE  Kept'
<1> USE DEF Kept
<1>0. TypeOK
  BY DEF IInv
<1>1. /\ at[t] = "open" /\ DeviceKnown
      /\ UNCHANGED <<mem, cmd, doc, found, stale, phase, todo, acked, claim>>
      /\ \A u \in Thread \ {t} : at[u] \notin {"open", "flush"}
  BY DEF Open, Untouched, ack
<1>2. at'[t] = "flush" /\ \A u \in Thread \ {t} : at'[u] = at[u]
  BY <1>0 DEF Open, TypeOK
<1>3. UNCHANGED <<Here, Ahead>> /\ \A u : TheKey(u)' = TheKey(u) /\ Written(u)' = Written(u)
  BY <1>1 DEF Here, Ahead, TheKey, Written
<1>4. Main \in Thread /\ claim \subseteq Thread /\ \A u \in Client : u \in Thread
  BY <1>0 DEF TypeOK, Thread
<1>5. \A x : ByMain(x)' <=> ByMain(x)
  BY <1>1, <1>2, <1>3, <1>4 DEF ByMain
<1>6. OneWriter'
  <2>1. \A u \in Thread : ~mixed'[u]
    BY <1>1 DEF Open, OneWriter
  <2> QED BY <1>1, <1>2, <2>1 DEF OneWriter
<1>7. Untouched' /\ Loader'
  BY <1>1, <1>2, <1>4 DEF Untouched, DeviceKnown, Loader
<1>8. FoundThere' /\ Claimed'
  BY <1>1, <1>2, <1>3, <1>4 DEF FoundThere, Claimed
<1>9. InMemory'
  BY <1>1, <1>2, <1>3, <1>4 DEF InMemory
<1>10. InFile'
  BY <1>2 DEF InFile
<1>11. InDocuments'
  <2>1. \A u \in Thread : at'[u] \in {"open", "flush"} => u = t
    BY <1>1, <1>2
  <2> QED BY <1>1, <1>3, <1>5, <2>1 DEF InDocuments
<1> QED BY <1>6, <1>7, <1>8, <1>9, <1>10, <1>11

(* The document is written. *)
LEMMA FlushKept ==
  ASSUME IInv, Kept, NEW t \in Thread, Flush(t)
  PROVE  Kept'
<1> USE DEF Kept
<1>0. TypeOK
  BY DEF IInv
<1>1. /\ at[t] = "flush" /\ DeviceKnown /\ file' = doc[t]
      /\ UNCHANGED <<mem, found, stale, phase, todo>>
      /\ claim' = claim \ {t}
      /\ acked' = IF t \in claim THEN acked \cup {TheKey(t)} ELSE acked
  BY DEF Flush, Done, Untouched, OneWriter
<1>2. /\ at'[t] = "idle"
      /\ \A u \in Thread \ {t} : /\ at'[u] = at[u] /\ cmd'[u] = cmd[u]
                                 /\ doc'[u] = doc[u] /\ at[u] # "flush"
  BY <1>0, <1>1 DEF Flush, Done, TypeOK, OneWriter
<1>3. /\ UNCHANGED <<Here, Ahead>> /\ Filed' = Written(t)
      /\ \A u \in Thread \ {t} : TheKey(u)' = TheKey(u) /\ Written(u)' = Written(u)
  BY <1>1, <1>2 DEF Here, Filed, Ahead, TheKey, Written
<1>4. Main \in Thread /\ claim \subseteq Thread /\ \A u \in Client : u \in Thread
  BY <1>0 DEF TypeOK, Thread
<1>5. t \in claim => TheKey(t) \in Here
  BY <1>1 DEF Claimed
<1>6. Untouched' /\ Loader' /\ OneWriter'
  <2>1. \A u \in Thread : ~mixed'[u]
    BY DEF Flush, OneWriter
  <2> QED BY <1>1, <1>2, <1>4, <2>1 DEF Untouched, DeviceKnown, Loader, OneWriter
<1>7. FoundThere' /\ Claimed'
  BY <1>1, <1>2, <1>3, <1>4 DEF FoundThere, Claimed
<1>8. InMemory'
  <2>1. acked' \subseteq acked \cup Here /\ acked \subseteq acked'
    BY <1>1, <1>5
  <2>2. phase' \in {"loading", "running"} =>
          acked' \subseteq Here' \cup Ahead' \cup {x \in {TheKey(Main)'} : at'[Main] = "change"}
    BY <1>1, <1>2, <1>3, <1>4, <2>1 DEF InMemory
  <2>3. (\E u \in Client : at'[u] # "idle") => acked' \subseteq Here'
    BY <1>2, <1>3, <1>4, <2>1 DEF InMemory
  <2> QED BY <2>2, <2>3 DEF InMemory
<1>9. \A x : t # Main /\ ByMain(x) => ByMain(x)'
  BY <1>2, <1>3, <1>4 DEF ByMain
<1>10. InFile'
  <2>1. \A x \in acked \cap Here : x \in Written(t) \/ (t # Main /\ ByMain(x))
    BY <1>1 DEF InDocuments
  <2>2. t \in claim => TheKey(t) \in Written(t)
    BY <1>1 DEF InDocuments
  <2>3. file' # Torn
    BY <1>0, <1>1, StoreAssumption DEF TypeOK
  <2> QED BY <1>1, <1>3, <1>9, <2>1, <2>2, <2>3 DEF InFile
<1>11. InDocuments'
  <2> SUFFICES ASSUME NEW u \in Thread, at'[u] \in {"open", "flush"}
               PROVE  /\ \A x \in acked' \cap Here' :
                           x \in Written(u)' \/ (u # Main /\ ByMain(x)')
                      /\ \A w \in Thread :
                           /\ at'[w] = "flush" \/ w = u
                           /\ w \in claim' \/ (w = Main /\ TheKey(w)' \in acked' \cap Here')
                           => TheKey(w)' \in Written(u)'
    BY DEF InDocuments
  <2>1. u # t /\ at[u] \in {"open", "flush"} /\ Written(u)' = Written(u)
    BY <1>2, <1>3
  <2>2. t \in claim => TheKey(t) \in Written(u)
    BY <1>1, <2>1 DEF InDocuments
  <2>3. ASSUME NEW x \in acked' \cap Here'
        PROVE  x \in Written(u)' \/ (u # Main /\ ByMain(x)')
    <3>1. CASE x \notin acked
      BY <1>1, <2>1, <2>2, <2>3, <3>1
    <3>2. CASE x \in acked /\ x \notin Written(u)
      <4>1. x \in Here /\ u # Main /\ ByMain(x)
        BY <1>3, <2>1, <2>3, <3>2 DEF InDocuments
      <4>2. t # Main
        <5> SUFFICES ASSUME t = Main PROVE FALSE
          OBVIOUS
        <5>1. x = TheKey(Main) /\ x \in acked \cap Here
          BY <3>2, <4>1 DEF ByMain
        <5> QED BY <1>1, <2>1, <3>2, <5>1 DEF InDocuments
      <4> QED BY <1>9, <4>1, <4>2
    <3> QED BY <2>1, <3>1, <3>2
  <2>4. ASSUME NEW w \in Thread, at'[w] = "flush" \/ w = u,
               w \in claim' \/ (w = Main /\ TheKey(w)' \in acked' \cap Here')
        PROVE  TheKey(w)' \in Written(u)'
    <3>1. w = u
      BY <1>2, <2>4
    <3>2. TheKey(w)' = TheKey(w)
      BY <1>3, <2>1, <3>1
    <3>3. CASE w \in claim \/ (w = Main /\ TheKey(w) \in acked \cap Here)
      BY <2>1, <3>1, <3>2, <3>3 DEF InDocuments
    <3>4. CASE TheKey(w) = TheKey(t) /\ t \in claim
      BY <2>1, <2>2, <3>2, <3>4
    <3> QED BY <1>1, <1>3, <2>4, <3>2, <3>3, <3>4
  <2> QED BY <2>3, <2>4
<1> QED BY <1>6, <1>7, <1>8, <1>10, <1>11

(* init_scene, the end of load_config, and steps that change nothing:      *)
(* nobody works before the device is known.                                *)
LEMMA QuietKept ==
  ASSUME TypeOK, Kept, InitScene \/ Loaded \/ UNCHANGED vars
  PROVE  Kept'
<1> USE DEF Kept
<1>1. /\ UNCHANGED <<file, at, cmd, doc, found, mixed, todo, acked, claim>>
      /\ \/ UNCHANGED <<mem, stale>>
         \/ ~DeviceKnown
      /\ \/ phase = "boot" /\ phase' = "parse"
         \/ phase = "loading" /\ phase' = "running" /\ todo = <<>> /\ at[Main] = "idle"
         \/ UNCHANGED phase
  BY DEF InitScene, Loaded, vars, thread, ack, DeviceKnown
<1>2. /\ UNCHANGED <<Filed, Ahead>>
      /\ \A u : TheKey(u)' = TheKey(u) /\ Written(u)' = Written(u)
      /\ \A x : ByMain(x)' <=> ByMain(x)
      /\ DeviceKnown' = DeviceKnown
  BY <1>1 DEF Filed, Ahead, TheKey, Written, ByMain, DeviceKnown
<1>3. Main \in Thread /\ claim \subseteq Thread /\ \A u \in Client : u \in Thread
  BY DEF TypeOK, Thread
<1>4. Untouched' /\ Loader' /\ OneWriter'
  BY <1>1, <1>2 DEF Untouched, Loader, OneWriter
<1>5. CASE DeviceKnown
  <2>1. UNCHANGED <<mem, stale, Here>>
    BY <1>1, <1>5 DEF Here
  <2>2. FoundThere' /\ Claimed'
    BY <1>1, <1>2, <1>3, <2>1 DEF FoundThere, Claimed
  <2>3. InMemory'
    BY <1>1, <1>2, <1>3, <1>5, <2>1 DEF InMemory, DeviceKnown
  <2>4. InFile'
    BY <1>1, <1>2, <2>1 DEF InFile
  <2>5. InDocuments'
    BY <1>1, <1>2, <2>1 DEF InDocuments
  <2> QED BY <1>4, <2>2, <2>3, <2>4, <2>5
<1>6. CASE ~DeviceKnown
  <2>1. file # Torn /\ acked \subseteq Filed /\ \A u \in Thread : at[u] = "idle"
    BY <1>6 DEF Untouched
  <2>2. claim = {}
    BY <1>3, <2>1 DEF Claimed
  <2>3. phase' \notin {"loading", "running"} \/ UNCHANGED <<mem, phase>>
    BY <1>1, <1>6 DEF DeviceKnown, InitScene, Loaded, vars
  <2>4. UNCHANGED <<mem, phase>> => InMemory'
    <3> SUFFICES ASSUME UNCHANGED <<mem, phase>> PROVE InMemory'
      OBVIOUS
    <3>1. UNCHANGED Here
      BY DEF Here
    <3> QED BY <1>1, <1>2, <3>1 DEF InMemory
  <2>5. InMemory'
    BY <1>1, <1>3, <2>1, <2>3, <2>4 DEF InMemory
  <2>6. FoundThere' /\ Claimed' /\ InDocuments'
    BY <1>1, <2>1, <2>2 DEF FoundThere, Claimed, InDocuments
  <2>7. InFile'
    BY <1>1, <1>2, <2>1 DEF InFile
  <2> QED BY <1>4, <2>5, <2>6, <2>7
<1> QED BY <1>5, <1>6

(* What load_config finds in the file is all that is in it, the channels   *)
(* first.                                                                  *)
Parsed(c, s) == Tagged(c, "channel") \o Tagged(s, "scene")
Finds(w, k, l) == \A n \in Names(l) : \E i \in DOMAIN w : w[i].kind = k /\ w[i].name = n
InOrder(w) == \A i, j \in DOMAIN w : i < j /\ w[i].kind = "scene" => w[j].kind = "scene"

LEMMA ParsedFacts ==
  ASSUME NEW c \in Seq(Entry), NEW s \in Seq(Entry)
  PROVE  /\ Finds(Parsed(c, s), "channel", c) /\ Finds(Parsed(c, s), "scene", s)
         /\ InOrder(Parsed(c, s))
<1> DEFINE w == Parsed(c, s)
           a == Tagged(c, "channel")
           b == Tagged(s, "scene")
<1>1. "channel" \in Kind /\ "scene" \in Kind
  BY DEF Kind
<1>2. a \in Seq(SetCommand) /\ b \in Seq(SetCommand)
  BY <1>1, TaggedFacts
<1>3. /\ Len(c) \in Nat /\ DOMAIN c = 1..Len(c) /\ Len(s) \in Nat /\ DOMAIN s = 1..Len(s)
      /\ \A n \in Names(c) : \E i \in DOMAIN c : c[i].name = n
      /\ \A n \in Names(s) : \E i \in DOMAIN s : s[i].name = n
  BY NamesFacts
<1>4. /\ DOMAIN a = DOMAIN c /\ \A i \in DOMAIN c : a[i].kind = "channel" /\ a[i].name = c[i].name
      /\ DOMAIN b = DOMAIN s /\ \A i \in DOMAIN s : b[i].kind = "scene" /\ b[i].name = s[i].name
  BY DEF Tagged
<1>5. Len(a) = Len(c) /\ Len(b) = Len(s)
  BY <1>2, <1>3, <1>4, LenProperties
<1>5a. w = a \o b
  BY DEF Parsed
<1> HIDE DEF a, b, w
<1>6. /\ w \in Seq(SetCommand) /\ Len(w) = Len(a) + Len(b)
      /\ \A i \in 1..(Len(a) + Len(b)) : w[i] = IF i <= Len(a) THEN a[i] ELSE b[i - Len(a)]
  BY <1>2, <1>5a, ConcatProperties
<1>7. DOMAIN w = 1..(Len(c) + Len(s))
  BY <1>5, <1>6, LenProperties
<1>8. \A i \in DOMAIN c : i \in DOMAIN w /\ w[i].kind = "channel" /\ w[i].name = c[i].name
  BY <1>3, <1>4, <1>5, <1>6, <1>7
<1>9. ASSUME NEW i \in DOMAIN s
      PROVE  /\ i + Len(c) \in DOMAIN w
             /\ w[i + Len(c)].kind = "scene" /\ w[i + Len(c)].name = s[i].name
  <2>1. i + Len(c) \in 1..(Len(c) + Len(s)) /\ ~(i + Len(c) <= Len(c)) /\ (i + Len(c)) - Len(c) = i
    BY <1>3
  <2>2. w[i + Len(c)] = b[i]
    BY <1>5, <1>6, <2>1
  <2> QED BY <1>4, <1>7, <2>1, <2>2
<1>10. \A j \in DOMAIN w : ~(j <= Len(c)) => w[j].kind = "scene"
  <2> SUFFICES ASSUME NEW j \in DOMAIN w, ~(j <= Len(c)) PROVE w[j].kind = "scene"
    OBVIOUS
  <2>1. j - Len(c) \in DOMAIN s /\ (j - Len(c)) + Len(c) = j
    BY <1>3, <1>7
  <2> QED BY <1>9, <2>1
<1>11. \A i \in DOMAIN w : w[i].kind = "scene" => ~(i <= Len(c))
  BY <1>3, <1>7, <1>8
<1>12. \A i, j \in DOMAIN w : i < j /\ w[i].kind = "scene" => w[j].kind = "scene"
  BY <1>3, <1>7, <1>10, <1>11
<1>13. ASSUME NEW n \in Names(c)
       PROVE  \E i \in DOMAIN w : w[i].kind = "channel" /\ w[i].name = n
  <2>1. PICK i \in DOMAIN c : c[i].name = n
    BY <1>3
  <2> QED BY <1>8, <2>1
<1>14. ASSUME NEW n \in Names(s)
       PROVE  \E i \in DOMAIN w : w[i].kind = "scene" /\ w[i].name = n
  <2>1. PICK i \in DOMAIN s : s[i].name = n
    BY <1>3
  <2> QED BY <1>9, <2>1
<1> QED BY <1>12, <1>13, <1>14 DEF w, Finds, InOrder

(* load_config reads the file. *)
LEMMA ParseKept ==
  ASSUME TypeOK, Kept, Parse
  PROVE  Kept'
<1> USE DEF Kept
<1>1. /\ phase = "parse" /\ phase' = "loading"
      /\ UNCHANGED <<mem, file, at, cmd, doc, found, stale, mixed, acked, claim>>
  BY DEF Parse, thread, ack
<1>2. /\ ~DeviceKnown /\ file # Torn /\ acked \subseteq Filed
      /\ \A u \in Thread : at[u] = "idle"
  BY <1>1 DEF Untouched, DeviceKnown
<1>3. file \in Document /\ Main \in Thread /\ claim \subseteq Thread
      /\ acked \subseteq Kind \X Name /\ \A u \in Client : u \in Thread
  BY <1>2 DEF TypeOK, Thread
<1>4. file["channel"] \in Seq(Entry) /\ file["scene"] \in Seq(Entry)
  BY <1>3, DocFacts DEF Kind
<1>5. /\ \A n \in Names(file["channel"]) :
           \E i \in DOMAIN todo' : todo'[i].kind = "channel" /\ todo'[i].name = n
      /\ \A n \in Names(file["scene"]) :
           \E i \in DOMAIN todo' : todo'[i].kind = "scene" /\ todo'[i].name = n
      /\ \A i, j \in DOMAIN todo' : i < j /\ todo'[i].kind = "scene" => todo'[j].kind = "scene"
  <2>1. todo' = Tagged(file["channel"], "channel") \o Tagged(file["scene"], "scene")
    BY <1>2 DEF Parse
  <2>2. PICK c \in Seq(Entry), s \in Seq(Entry) : c = file["channel"] /\ s = file["scene"]
    BY <1>4
  <2>3. PICK w : w = todo'
    OBVIOUS
  <2>4. w = Parsed(c, s)
    BY <2>1, <2>2, <2>3 DEF Parsed
  <2>5. Finds(w, "channel", c) /\ Finds(w, "scene", s) /\ InOrder(w)
    BY <2>4, ParsedFacts
  <2> QED BY <2>2, <2>3, <2>5 DEF Finds, InOrder
<1>6. acked \subseteq Ahead'
  <2> SUFFICES ASSUME NEW x \in acked PROVE x \in Ahead'
    OBVIOUS
  <2>1. x = <<x[1], x[2]>> /\ x[1] \in {"channel", "scene"} /\ x[2] \in Names(file[x[1]])
    BY <1>2, <1>3 DEF Filed, Kind
  <2>2. \E i \in DOMAIN todo' : todo'[i].kind = x[1] /\ todo'[i].name = x[2]
    BY <1>5, <2>1
  <2> QED BY <2>1, <2>2 DEF Ahead
<1>7. claim = {}
  BY <1>2, <1>3 DEF Claimed
<1>8. Filed' = Filed
  BY <1>1 DEF Filed
<1>9. Untouched' /\ Loader' /\ OneWriter'
  BY <1>1, <1>2, <1>3, <1>5, <1>8 DEF Untouched, Loader, OneWriter
<1>10. FoundThere' /\ Claimed' /\ InDocuments'
  BY <1>1, <1>2, <1>7 DEF FoundThere, Claimed, InDocuments
<1>11. InMemory' /\ InFile'
  BY <1>1, <1>2, <1>3, <1>6, <1>8 DEF InMemory, InFile
<1> QED BY <1>9, <1>10, <1>11

(* What is still ahead when load_config has taken the next entry. *)
LEMMA AheadFacts ==
  ASSUME TypeOK, Loader, todo # <<>>, todo' = Tail(todo)
  PROVE  /\ Ahead \subseteq Ahead' \cup {<<Head(todo).kind, Head(todo).name>>}
         /\ \A i, j \in DOMAIN todo' : i < j /\ todo'[i].kind = "scene" => todo'[j].kind = "scene"
         /\ Head(todo).kind = "scene" => \A i \in DOMAIN todo : todo[i].kind # "channel"
<1>1. /\ todo \in Seq(SetCommand) /\ Head(todo) \in SetCommand
      /\ 1 \in DOMAIN todo /\ todo[1] = Head(todo)
      /\ \A i \in DOMAIN todo' : i + 1 \in DOMAIN todo /\ todo'[i] = todo[i + 1]
      /\ todo' \in Seq(SetCommand)
  BY HeadFacts DEF TypeOK
<1>2. /\ Len(todo) \in Nat /\ DOMAIN todo = 1..Len(todo)
      /\ Len(todo') = Len(todo) - 1 /\ DOMAIN todo' = 1..(Len(todo) - 1)
  BY <1>1, HeadTailProperties, LenProperties, EmptySeq
<1>3. \A i \in DOMAIN todo : i = 1 \/ (i - 1 \in DOMAIN todo' /\ todo'[i - 1] = todo[i])
  <2> SUFFICES ASSUME NEW i \in DOMAIN todo, i # 1
               PROVE  i - 1 \in DOMAIN todo' /\ todo'[i - 1] = todo[i]
    OBVIOUS
  <2>1. i - 1 \in DOMAIN todo' /\ (i - 1) + 1 = i
    BY <1>2
  <2> QED BY <1>1, <2>1
<1>4. Ahead \subseteq Ahead' \cup {<<Head(todo).kind, Head(todo).name>>}
  BY SMTT(30), <1>1, <1>3 DEF Ahead
<1>5. ASSUME NEW i \in DOMAIN todo', NEW j \in DOMAIN todo', i < j, todo'[i].kind = "scene"
      PROVE  todo'[j].kind = "scene"
  <2>1. /\ i + 1 \in DOMAIN todo /\ j + 1 \in DOMAIN todo /\ i + 1 < j + 1
        /\ todo[i + 1].kind = "scene"
    BY <1>1, <1>2, <1>5
  <2>2. todo[j + 1].kind = "scene"
    BY <2>1 DEF Loader
  <2> QED BY <1>1, <2>2
<1>6. ASSUME Head(todo).kind = "scene", NEW i \in DOMAIN todo
      PROVE  todo[i].kind # "channel"
  <2>1. i = 1 \/ 1 < i
    BY <1>2
  <2>2. todo[i].kind = "scene"
    BY <1>1, <1>6, <2>1 DEF Loader
  <2> QED BY <2>2
<1> QED BY <1>4, <1>5, <1>6

(* load_config takes a scene. *)
LEMMA LoadSceneKept ==
  ASSUME TypeOK, Kept, LoadScene
  PROVE  Kept'
<1> USE DEF Kept
<1> DEFINE c == Head(todo)
<1>1. /\ UNCHANGED <<mem, file, doc, mixed, phase, acked, claim>>
      /\ phase = "loading" /\ todo # <<>> /\ todo' = Tail(todo) /\ c.kind = "scene"
      /\ Main \in Thread /\ Main \notin Client /\ \A u \in Client : u \in Thread
  BY StoreAssumption DEF LoadScene, Search, Thread, ack
<1>2. c \in SetCommand
  BY <1>1, HeadFacts
<1>3. /\ at[Main] = "idle" /\ at'[Main] = "change" /\ cmd'[Main] = c
      /\ found'[Main] = (c.name \in Names(mem[c.kind]))
      /\ \A u \in Thread \ {Main} : /\ at'[u] = at[u] /\ cmd'[u] = cmd[u]
                                    /\ found'[u] = found[u] /\ stale'[u] = stale[u]
  BY <1>1 DEF LoadScene, Search, TypeOK
<1>4. /\ Ahead \subseteq Ahead' \cup {<<c.kind, c.name>>}
      /\ \A i, j \in DOMAIN todo' : i < j /\ todo'[i].kind = "scene" => todo'[j].kind = "scene"
      /\ \A i \in DOMAIN todo : todo[i].kind # "channel"
  BY <1>1, AheadFacts
<1>5. DeviceKnown'
  BY <1>1, <1>4, HeadFacts DEF DeviceKnown
<1>6. /\ UNCHANGED <<Here, Filed>> /\ \A u : Written(u)' = Written(u)
      /\ \A u \in Thread \ {Main} : TheKey(u)' = TheKey(u)
      /\ TheKey(Main)' = <<c.kind, c.name>>
  BY <1>1, <1>3 DEF Here, Filed, Written, TheKey
<1>7. claim \subseteq Client
  BY DEF TypeOK
<1>8. Untouched' /\ Loader' /\ OneWriter'
  BY <1>1, <1>2, <1>3, <1>4, <1>5 DEF Untouched, Loader, OneWriter, SetCommand
<1>9. FoundThere'
  <2>1. found'[Main] => TheKey(Main)' \in Here'
    BY <1>2, <1>3, <1>6 DEF Here, SetCommand
  <2> QED BY <1>3, <1>6, <2>1 DEF FoundThere
<1>10. Claimed'
  BY <1>1, <1>3, <1>6, <1>7 DEF Claimed
<1>11. InMemory'
  <2>1. acked' \subseteq Here' \cup Ahead' \cup {x \in {TheKey(Main)'} : at'[Main] = "change"}
    BY <1>1, <1>3, <1>4, <1>6 DEF InMemory
  <2>2. (\E u \in Client : at'[u] # "idle") => acked' \subseteq Here'
    BY <1>1, <1>3, <1>6 DEF InMemory
  <2> QED BY <2>1, <2>2 DEF InMemory
<1>12. \A x : ~ByMain(x)
  BY <1>3 DEF ByMain
<1>13. InFile'
  BY <1>1, <1>3, <1>6, <1>12 DEF InFile
<1>14. InDocuments'
  <2> SUFFICES ASSUME NEW u \in Thread, at'[u] \in {"open", "flush"}
               PROVE  /\ \A x \in acked' \cap Here' :
                           x \in Written(u)' \/ (u # Main /\ ByMain(x)')
                      /\ \A w \in Thread :
                           /\ at'[w] = "flush" \/ w = u
                           /\ w \in claim' \/ (w = Main /\ TheKey(w)' \in acked' \cap Here')
                           => TheKey(w)' \in Written(u)'
    BY DEF InDocuments
  <2>1. u # Main /\ at[u] \in {"open", "flush"}
    BY <1>3
  <2>2. \A x \in acked' \cap Here' : x \in Written(u)'
    BY <1>1, <1>6, <1>12, <2>1 DEF InDocuments
  <2>3. \A w \in Thread : at'[w] = "flush" \/ w = u => w # Main /\ (at[w] = "flush" \/ w = u)
    BY <1>3, <2>1
  <2> QED BY <1>1, <1>6, <2>1, <2>2, <2>3 DEF InDocuments
<1> QED BY <1>8, <1>9, <1>10, <1>11, <1>13, <1>14

(* load_config sets a channel. *)
LEMMA LoadChannelKept ==
  ASSUME TypeOK, Kept, LoadChannel
  PROVE  Kept'
<1> USE DEF Kept
<1> DEFINE n == Head(todo).name
           v == Head(todo).val
           l == mem["channel"]
<1>1. /\ UNCHANGED <<file, at, cmd, doc, found, stale, mixed, phase, acked, claim>>
      /\ phase = "loading" /\ todo # <<>> /\ todo' = Tail(todo)
      /\ Head(todo).kind = "channel" /\ mem' = [mem EXCEPT !["channel"] = Put(l, n, v)]
  BY DEF LoadChannel, thread, ack
<1>2. Head(todo) \in SetCommand /\ n \in Name /\ ~DeviceKnown
  BY <1>1, HeadFacts DEF SetCommand, DeviceKnown
<1>3. /\ file # Torn /\ acked \subseteq Filed /\ \A u \in Thread : at[u] = "idle"
      /\ Main \in Thread /\ \A u \in Client : u \in Thread
  BY <1>2 DEF Untouched, Thread
<1>4. Names(Put(l, n, v)) = Names(l) \cup {n}
  <2>1. l \in Seq(Entry)
    BY DocFacts DEF TypeOK, Kind
  <2>2. /\ Names(Add(l, n, v)) = Names(l) \cup {n}
        /\ n \in Names(l) => Names(Replace(l, n, v)) = Names(l)
    BY <2>1, NamesStay
  <2> QED BY <2>2 DEF Put
<1>5. Here \subseteq Here' /\ <<"channel", n>> \in Here'
  <2>1. \A k \in Kind : mem'[k] = IF k = "channel" THEN Put(l, n, v) ELSE mem[k]
    BY <1>1 DEF TypeOK, Document
  <2>2. \A k \in Kind : Names(mem[k]) \subseteq Names(mem'[k])
    BY <1>4, <2>1
  <2>3. Here \subseteq Here'
    BY <2>2 DEF Here
  <2>4. n \in Names(mem'["channel"])
    BY <1>4, <2>1 DEF Kind
  <2> QED BY <1>2, <2>3, <2>4 DEF Here, Kind
<1>6. /\ Ahead \subseteq Ahead' \cup {<<Head(todo).kind, Head(todo).name>>}
      /\ \A i, j \in DOMAIN todo' : i < j /\ todo'[i].kind = "scene" => todo'[j].kind = "scene"
  BY <1>1, AheadFacts
<1>7. Filed' = Filed /\ \A u : TheKey(u)' = TheKey(u)
  BY <1>1 DEF Filed, TheKey
<1>8. claim = {}
  BY <1>3 DEF Claimed, TypeOK
<1>9. Untouched' /\ Loader' /\ OneWriter'
  BY <1>1, <1>3, <1>6, <1>7 DEF Untouched, Loader, OneWriter
<1>10. FoundThere' /\ Claimed' /\ InDocuments'
  BY <1>1, <1>3, <1>8 DEF FoundThere, Claimed, InDocuments
<1>11. InMemory'
  <2>1. acked \subseteq Here \cup Ahead
    BY <1>1, <1>3 DEF InMemory
  <2>2. acked \subseteq Here' \cup Ahead'
    BY <1>1, <1>5, <1>6, <2>1
  <2> QED BY <1>1, <1>3, <2>2 DEF InMemory
<1>12. InFile'
  BY <1>1, <1>3, <1>7 DEF InFile
<1> QED BY <1>9, <1>10, <1>11, <1>12

(* The daemon is killed when no file is written and no file is loaded.     *)
LEMMA CrashKept ==
  ASSUME TypeOK, Kept, ~damaged', Crash
  PROVE  Kept'
<1> USE DEF Kept
<1>1. /\ UNCHANGED <<file, acked>> /\ claim' = {} /\ phase' = "boot" /\ todo' = <<>>
      /\ \A t \in Thread : at'[t] = "idle" /\ ~found'[t] /\ ~mixed'[t]
      /\ phase # "loading" /\ \A t \in Thread : at[t] # "flush"
  BY DEF Crash
<1>2. file # Torn /\ acked \subseteq Filed
  <2>1. CASE ~DeviceKnown
    BY <2>1 DEF Untouched
  <2>2. CASE DeviceKnown
    <3>1. phase = "running" /\ todo = <<>> /\ at[Main] = "idle"
      BY <1>1, <2>2 DEF DeviceKnown, Loader
    <3>2. Ahead = {}
      BY <3>1 DEF Ahead
    <3>3. acked \subseteq Here
      BY <3>1, <3>2 DEF InMemory
    <3> QED BY <1>1, <3>1, <3>3 DEF InFile, ByMain
  <2> QED BY <2>1, <2>2
<1>3. Filed' = Filed /\ DOMAIN todo' = {} /\ Main \in Thread /\ \A u \in Client : u \in Thread
  BY <1>1 DEF Filed, Thread
<1>4. Untouched' /\ OneWriter' /\ FoundThere' /\ Claimed'
  BY <1>1, <1>2, <1>3 DEF Untouched, OneWriter, FoundThere, Claimed
<1>5. Loader' /\ InMemory'
  BY <1>1, <1>3 DEF Loader, InMemory
<1>6. InFile' /\ InDocuments'
  BY <1>1, <1>2, <1>3 DEF InFile, InDocuments
<1> QED BY <1>4, <1>5, <1>6

(* Damage and undefined behaviour last. *)
LEMMA Undamaged ==
  ASSUME [Next]_vars, ~damaged', ~undefined'
  PROVE  ~damaged /\ ~undefined /\ ~(\E t \in Thread : UseStale(t))
<1>1. ~undefined /\ ~(\E t \in Thread : UseStale(t))
  BY DEF Next, vars, UseStale
<1>2. (\E t \in Client, c \in Command : SceneCommand(t, c) \/ ChannelCommand(t, c)) => ~damaged
  BY DEF SceneCommand, ChannelCommand
<1>3. /\ (\E t \in Thread, m \in SUBSET Thread : Change(t, m)) => ~damaged
      /\ (\E t \in Thread : Build(t) \/ Open(t) \/ Flush(t)) => ~damaged
  BY DEF Change, Build, Open, Flush
<1>4. InitScene \/ Parse \/ LoadScene \/ LoadChannel \/ Loaded \/ Crash => ~damaged
  BY DEF InitScene, Parse, LoadScene, LoadChannel, Loaded, Crash
<1>5. UNCHANGED vars => ~damaged
  BY DEF vars
<1> QED BY <1>1, <1>2, <1>3, <1>4, <1>5 DEF Next

LEMMA KeptStep == IInv /\ KeptInv /\ [Next]_vars => KeptInv'
<1> SUFFICES ASSUME IInv, KeptInv, [Next]_vars, ~damaged', ~undefined' PROVE Kept'
  BY DEF KeptInv
<1>1. ~damaged /\ ~undefined /\ ~(\E t \in Thread : UseStale(t))
  BY Undamaged
<1>2. Kept /\ TypeOK
  BY <1>1 DEF KeptInv, IInv
<1>3. CASE \E t \in Client, c \in Command : SceneCommand(t, c) \/ ChannelCommand(t, c)
  BY <1>2, <1>3, CommandKept
<1>4. CASE \E t \in Thread, m \in SUBSET Thread : Change(t, m)
  BY <1>2, <1>4, ChangeKept
<1>5. CASE \E t \in Thread : Build(t)
  BY <1>1, <1>2, <1>5, BuildKept
<1>6. CASE \E t \in Thread : Open(t)
  BY <1>2, <1>6, OpenKept
<1>7. CASE \E t \in Thread : Flush(t)
  BY <1>2, <1>7, FlushKept
<1>8. CASE InitScene \/ Loaded \/ UNCHANGED vars
  BY <1>2, <1>8, QuietKept
<1>9. CASE Parse
  BY <1>2, <1>9, ParseKept
<1>10. CASE LoadScene
  BY <1>2, <1>10, LoadSceneKept
<1>11. CASE LoadChannel
  BY <1>2, <1>11, LoadChannelKept
<1>12. CASE Crash
  BY <1>2, <1>12, CrashKept
<1> QED
  BY <1>1, <1>3, <1>4, <1>5, <1>6, <1>7, <1>8, <1>9, <1>10, <1>11, <1>12 DEF Next

-----------------------------------------------------------------------------
(* Why the file is current when nobody works.                              *)

(* Does a document say what the lists in memory say, with or without an    *)
(* overlap?                                                                *)
Describes(d, m, o) ==
  /\ \A k \in Kind : Names(d[k]) = Names(m[k])
  /\ ~o /\ Unique(d["channel"]) => d["channel"] = m["channel"]

(* Of the threads that save, the last one to take its document has the     *)
(* current one, or is about to take it; if nobody saves, the file is       *)
(* current.                                                                *)
Caught ==
  \/ \E t \in Thread : at[t] = "build"
  \/ \E t \in Thread : at[t] = "open" /\ Describes(doc[t], mem, overlap)
  \/ /\ \A t \in Thread : at[t] # "open"
     /\ \E t \in Thread : at[t] = "flush" /\ Describes(doc[t], mem, overlap)
  \/ /\ \A t \in Thread : at[t] \notin {"open", "flush"}
     /\ file # Torn /\ Describes(file, mem, overlap)

(* There is no scene yet, and load_config has one to add. *)
SceneAhead ==
  /\ phase = "loading" /\ Names(mem["scene"]) = {}
  /\ todo # <<>> \/ (at[Main] = "change" /\ ~found[Main])

(* The channels c of the file are those that are loaded, l, and after them *)
(* those that are still to be; ...                                         *)
StillToAdd(c, l, q) ==
  /\ \A n : n \in Names(c) <=>
              n \in Names(l) \/ \E i \in DOMAIN q : q[i].kind = "channel" /\ q[i].name = n
  /\ Unique(c) =>
       /\ \A i \in DOMAIN l : i \in DOMAIN c /\ l[i] = c[i]
       /\ \A i \in DOMAIN q : q[i].kind = "channel" =>
            /\ i + Len(l) \in DOMAIN c
            /\ c[i + Len(l)] = [name |-> q[i].name, val |-> q[i].val]
       /\ \A i \in DOMAIN c : i > Len(l) =>
            i - Len(l) \in DOMAIN q /\ q[i - Len(l)].kind = "channel"

(* ... no scene is loaded, but all are to be.                              *)
HalfLoaded(f, m, q) ==
  /\ Names(m["scene"]) = {}
  /\ Names(f["scene"]) # {} => \E i \in DOMAIN q : q[i].kind = "scene"
  /\ StillToAdd(f["channel"], m["channel"], q)

Stored ==
  /\ phase \in {"boot", "parse"} => mem = Empty
  /\ phase = "loading" /\ ~DeviceKnown => HalfLoaded(file, mem, todo)
  /\ DeviceKnown => Caught \/ SceneAhead
StoredInv == ~damaged /\ ~undefined => Stored

LEMMA StoredInit == Init => StoredInv
<1> SUFFICES ASSUME Init PROVE Stored
  BY DEF StoredInv
<1> QED BY DEF Init, Stored, DeviceKnown

(* A command begins. *)
LEMMA CommandStored ==
  ASSUME TypeOK, Kept, Stored, ~damaged', NEW t \in Client, NEW c \in Command,
         SceneCommand(t, c) \/ ChannelCommand(t, c)
  PROVE  Stored'
<1>1. /\ Search(t, c) /\ Accepted(t, c) /\ DeviceKnown
      /\ t \in Thread /\ Main \in Thread /\ t # Main
  BY StoreAssumption DEF SceneCommand, ChannelCommand, Thread
<1>2. UNCHANGED <<mem, file, doc, phase, todo>> /\ (overlap => overlap') /\ DeviceKnown'
  BY <1>1 DEF Search, Accepted, DeviceKnown
<1>3. /\ at[t] = "idle" /\ at'[t] = "change"
      /\ \A u \in Thread \ {t} : at'[u] = at[u] /\ found'[u] = found[u]
  BY <1>1 DEF Search, TypeOK
<1>4. \A d : Describes(d, mem, overlap) => Describes(d, mem', overlap')
  BY <1>2 DEF Describes
<1>5. Caught => Caught'
  BY <1>2, <1>3, <1>4 DEF Caught
<1>6. SceneAhead => SceneAhead'
  BY <1>1, <1>2, <1>3 DEF SceneAhead
<1> QED BY <1>1, <1>2, <1>5, <1>6 DEF Stored, DeviceKnown

(* A change that is not saved leaves the names, and the channels. *)
LEMMA UnsavedChange ==
  ASSUME TypeOK, Busy, FoundThere, NEW t \in Thread, NEW m \in SUBSET Thread, Change(t, m), ~Saves(t)
  PROVE  (\A k \in Kind : Names(mem'[k]) = Names(mem[k])) /\ mem'["channel"] = mem["channel"]
<1> DEFINE n == cmd[t].name
           v == cmd[t].val
           l == mem["scene"]
<1>1. cmd[t] \in Command /\ mem' = Edited(t) /\ ~(found[t] /\ stale[t]) /\ at[t] = "change"
  BY DEF Change, Busy
<1>2. cmd[t].kind \in Kind /\ cmd[t].op \in {"set", "del", "read"}
  BY <1>1 DEF Command, SetCommand
<1>3. cmd[t].op # "read" =>
        cmd[t].kind = "scene" /\ (cmd[t].op = "set" <=> found[t])
  BY <1>2 DEF Saves, Kind, TypeOK
<1>4. CASE cmd[t].op = "set"
  <2>1. cmd[t].kind = "scene" /\ found[t] /\ ~stale[t]
    BY <1>1, <1>3, <1>4
  <2>2. n \in Names(l)
    BY <1>1, <2>1 DEF FoundThere, TheKey, Here
  <2>3. mem' = [mem EXCEPT !["scene"] = Replace(l, n, v)]
    BY <1>1, <1>4, <2>1 DEF Edited
  <2>4. l \in Seq(Entry) /\ "scene" \in Kind /\ "channel" \in Kind
    BY DocFacts DEF TypeOK, Kind
  <2>5. Names(Replace(l, n, v)) = Names(l)
    BY <2>2, <2>4, NamesStay
  <2>6. mem'["scene"] = Replace(l, n, v) /\ \A k \in Kind : k # "scene" => mem'[k] = mem[k]
    BY <2>3, <2>4 DEF TypeOK, Document
  <2> QED BY <2>4, <2>5, <2>6
<1>5. CASE cmd[t].op # "set"
  <2>1. ~(cmd[t].op = "del" /\ found[t])
    BY <1>3, <1>5
  <2>2. mem' = mem
    BY <1>1, <1>5, <2>1 DEF Edited
  <2> QED BY <2>2
<1> QED BY <1>4, <1>5

(* The change in the list. *)
LEMMA ChangeStored ==
  ASSUME IInv, Kept, Stored, NEW t \in Thread, NEW m \in SUBSET Thread, Change(t, m)
  PROVE  Stored'
<1>0. TypeOK /\ Busy
  BY DEF IInv
<1>1. /\ at[t] = "change" /\ cmd[t] \in Command /\ ~(found[t] /\ stale[t])
      /\ UNCHANGED <<file, phase, todo>>
      /\ overlap => overlap'
  BY <1>0 DEF Change, Busy
<1>2. DeviceKnown /\ DeviceKnown'
  BY <1>1 DEF Kept, Untouched, DeviceKnown
<1>3. /\ \A u \in Thread \ {t} : at'[u] = at[u] /\ (found'[u] => found[u]) /\ doc'[u] = doc[u]
      /\ \/ at'[t] = "build" /\ Saves(t)
         \/ at'[t] = "idle" /\ ~Saves(t)
  <2>1. found' = [u \in Thread |-> found[u] /\ u # t /\ u \notin m]
    BY DEF Change
  <2>2. \A u \in Thread : found'[u] => found[u]
    BY <2>1
  <2>3. /\ \A u \in Thread \ {t} : at'[u] = at[u] /\ doc'[u] = doc[u]
        /\ \/ at'[t] = "build" /\ Saves(t)
           \/ at'[t] = "idle" /\ ~Saves(t)
    BY <1>0 DEF Change, Done, TypeOK
  <2> QED BY <2>2, <2>3
<1>4. CASE Saves(t)
  <2>1. at'[t] = "build"
    BY <1>3, <1>4
  <2> QED BY <1>1, <1>2, <2>1 DEF Stored, Caught, DeviceKnown
<1>5. CASE ~Saves(t)
  <2>1. at'[t] = "idle"
    BY <1>3, <1>5
  <2>2. (\A k \in Kind : Names(mem'[k]) = Names(mem[k])) /\ mem'["channel"] = mem["channel"]
    BY <1>0, <1>5, UnsavedChange DEF Kept
  <2>3. \A d : Describes(d, mem, overlap) => Describes(d, mem', overlap')
    BY <1>1, <2>2 DEF Describes
  <2>4. Caught => Caught'
    BY <1>1, <1>3, <2>1, <2>3 DEF Caught
  <2>5. SceneAhead => SceneAhead'
    <3> SUFFICES ASSUME SceneAhead PROVE SceneAhead'
      OBVIOUS
    <3>1. Names(mem'["scene"]) = {} /\ phase' = "loading"
      BY <1>1, <2>2 DEF SceneAhead, Kind
    <3>2. CASE todo # <<>>
      BY <1>1, <3>1, <3>2 DEF SceneAhead
    <3>3. CASE at[Main] = "change" /\ ~found[Main]
      <4>1. t # Main
        <5> SUFFICES ASSUME t = Main PROVE FALSE
          OBVIOUS
        <5>1. cmd[t].op = "set" /\ ~found[t] /\ cmd[t].kind \in Kind
          BY <1>1, <3>3 DEF Kept, Loader, Command, SetCommand
        <5> QED BY <1>5, <5>1 DEF Saves, Kind
      <4>2. Main \in Thread
        BY DEF Thread
      <4> QED BY <1>3, <3>1, <3>3, <4>1, <4>2 DEF SceneAhead
    <3> QED BY <3>2, <3>3 DEF SceneAhead
  <2> QED BY <1>1, <1>2, <2>4, <2>5 DEF Stored, DeviceKnown
<1> QED BY <1>4, <1>5

(* The document is put together, the file is opened, and written.          *)
LEMMA SaveStored ==
  ASSUME IInv, Kept, Stored, ~damaged, ~damaged',
         NEW t \in Thread, Build(t) \/ Open(t) \/ Flush(t)
  PROVE  Stored'
<1>0. TypeOK
  BY DEF IInv
<1>1. at[t] # "idle" /\ UNCHANGED <<mem, phase, todo, overlap, found>>
  BY DEF Build, Open, Flush
<1>2. DeviceKnown /\ DeviceKnown'
  BY <1>1 DEF Kept, Untouched, DeviceKnown
<1>3. \A d : Describes(d, mem, overlap) <=> Describes(d, mem', overlap')
  BY <1>1
<1>4. \A u \in Thread \ {t} : at'[u] = at[u] /\ doc'[u] = doc[u]
  BY <1>0 DEF Build, Open, Flush, Done, TypeOK
<1>5. SceneAhead => SceneAhead'
  <2>1. at[t] # "change" /\ Main \in Thread
    BY DEF Build, Open, Flush, Thread
  <2> QED BY <1>1, <1>4, <2>1 DEF SceneAhead
<1>6. Caught => Caught'
  <2>1. CASE Build(t)
    <3>1. at'[t] = "open" /\ doc'[t] = mem
      BY <1>0, <1>2, <2>1 DEF Build, Known, TypeOK
    <3>2. Describes(mem, mem, overlap)
      BY DEF Describes
    <3> QED BY <1>1, <3>1, <3>2 DEF Caught
  <2>2. CASE Open(t)
    <3>1. /\ at[t] = "open" /\ at'[t] = "flush" /\ doc' = doc
          /\ \A u \in Thread \ {t} : at[u] \notin {"open", "flush"}
      BY <1>0, <2>2 DEF Open, TypeOK
    <3>2. CASE \E u \in Thread : at[u] = "build"
      BY <1>4, <3>1, <3>2 DEF Caught
    <3>3. CASE Describes(doc[t], mem, overlap)
      BY <1>1, <1>4, <3>1, <3>3 DEF Caught
    <3> QED BY <3>1, <3>2, <3>3 DEF Caught
  <2>3. CASE Flush(t)
    <3>1. /\ at[t] = "flush" /\ at'[t] = "idle" /\ file' = doc[t]
          /\ \A u \in Thread \ {t} : at[u] # "flush"
      BY <1>0, <2>3 DEF Flush, Kept, OneWriter, TypeOK
    <3>2. file' # Torn
      BY <1>0, <3>1, StoreAssumption DEF TypeOK
    <3>3. CASE \E u \in Thread : at[u] = "build"
      BY <1>4, <3>1, <3>3 DEF Caught
    <3>4. CASE \E u \in Thread : at[u] = "open" /\ Describes(doc[u], mem, overlap)
      BY <1>1, <1>4, <3>1, <3>4 DEF Caught
    <3>5. CASE (\A u \in Thread : at[u] # "open") /\ Describes(doc[t], mem, overlap)
      BY <1>1, <1>4, <3>1, <3>2, <3>5 DEF Caught
    <3> QED BY <3>1, <3>3, <3>4, <3>5 DEF Caught
  <2> QED BY <2>1, <2>2, <2>3
<1> QED BY <1>1, <1>2, <1>5, <1>6 DEF Stored, DeviceKnown

(* init_scene, the end of load_config, and steps that change nothing. *)
LEMMA QuietStored ==
  ASSUME TypeOK, Kept, Stored, InitScene \/ Loaded \/ UNCHANGED vars
  PROVE  Stored'
<1>1. CASE InitScene
  <2>1. mem = Empty /\ phase' = "parse" /\ mem' = [mem EXCEPT !["scene"] = <<>>]
    BY <1>1 DEF InitScene, Stored
  <2>2. mem' = Empty
    BY <2>1 DEF Empty
  <2> QED BY <2>1, <2>2 DEF Stored, DeviceKnown
<1>2. CASE Loaded
  <2>1. /\ phase = "loading" /\ phase' = "running" /\ todo = <<>> /\ at[Main] = "idle"
        /\ UNCHANGED <<mem, file, at, doc, overlap, todo>>
    BY <1>2 DEF Loaded, thread
  <2>2. Caught
    BY <2>1 DEF Stored, SceneAhead, DeviceKnown
  <2>3. Caught'
    BY <2>1, <2>2 DEF Caught
  <2> QED BY <2>1, <2>3 DEF Stored
<1>3. CASE UNCHANGED vars
  <2>1. UNCHANGED <<mem, file, at, doc, found, overlap, todo, phase>>
    BY <1>3 DEF vars, thread
  <2> QED BY <2>1 DEF Stored, DeviceKnown, Caught, SceneAhead
<1> QED BY <1>1, <1>2, <1>3

(* What load_config finds in the file, entry by entry. *)
LEMMA ParsedParts ==
  ASSUME NEW c \in Seq(Entry), NEW s \in Seq(Entry)
  PROVE  LET w == Parsed(c, s) IN
         /\ DOMAIN c = 1..Len(c) /\ Len(c) \in Nat /\ DOMAIN w \subseteq Nat \ {0}
         /\ \A i \in DOMAIN c : /\ i \in DOMAIN w /\ w[i].kind = "channel"
                                /\ w[i].name = c[i].name /\ w[i].val = c[i].val
         /\ \A i \in DOMAIN w : w[i].kind = "channel" => i \in DOMAIN c
         /\ Names(s) # {} => \E i \in DOMAIN w : w[i].kind = "scene"
<1> DEFINE w == Parsed(c, s)
           a == Tagged(c, "channel")
           b == Tagged(s, "scene")
<1>1. a \in Seq(SetCommand) /\ b \in Seq(SetCommand)
  BY TaggedFacts DEF Kind
<1>2. Len(c) \in Nat /\ DOMAIN c = 1..Len(c) /\ Len(s) \in Nat /\ DOMAIN s = 1..Len(s)
  BY NamesFacts
<1>3. /\ DOMAIN a = DOMAIN c
      /\ \A i \in DOMAIN c : a[i].kind = "channel" /\ a[i].name = c[i].name /\ a[i].val = c[i].val
      /\ DOMAIN b = DOMAIN s /\ \A i \in DOMAIN s : b[i].kind = "scene"
  BY DEF Tagged
<1>4. Len(a) = Len(c) /\ Len(b) = Len(s)
  BY <1>1, <1>2, <1>3, LenProperties
<1>5. w = a \o b
  BY DEF Parsed
<1>6. Names(s) # {} => \E i \in DOMAIN w : w[i].kind = "scene"
  <2>1. Finds(w, "scene", s)
    BY ParsedFacts
  <2> QED BY <2>1 DEF Finds
<1> HIDE DEF a, b, w
<1>7. /\ w \in Seq(SetCommand) /\ Len(w) = Len(a) + Len(b)
      /\ \A i \in 1..(Len(a) + Len(b)) : w[i] = IF i <= Len(a) THEN a[i] ELSE b[i - Len(a)]
  BY <1>1, <1>5, ConcatProperties
<1>8. DOMAIN w = 1..(Len(c) + Len(s))
  BY <1>4, <1>7, LenProperties
<1>9. \A i \in DOMAIN c : /\ i \in DOMAIN w /\ w[i].kind = "channel"
                          /\ w[i].name = c[i].name /\ w[i].val = c[i].val
  BY <1>2, <1>3, <1>4, <1>7, <1>8
<1>10. ASSUME NEW i \in DOMAIN w, i \notin DOMAIN c
       PROVE  w[i].kind # "channel"
  <2>1. i \in 1..(Len(a) + Len(b)) /\ ~(i <= Len(a)) /\ i - Len(a) \in DOMAIN s
    BY <1>2, <1>4, <1>8, <1>10
  <2>2. w[i] = b[i - Len(a)]
    BY <1>7, <2>1
  <2> QED BY <1>3, <2>1, <2>2
<1>11. DOMAIN w \subseteq Nat \ {0}
  BY <1>2, <1>8
<1> QED BY <1>2, <1>6, <1>9, <1>10, <1>11 DEF w

(* load_config reads the file. *)
LEMMA HalfLoadedFirst ==
  ASSUME NEW f \in Document
  PROVE  HalfLoaded(f, Empty, Parsed(f["channel"], f["scene"]))
<1>1. PICK c \in Seq(Entry), s \in Seq(Entry) : c = f["channel"] /\ s = f["scene"]
  BY DocFacts DEF Kind
<1>2. PICK w : w = Parsed(c, s)
  OBVIOUS
<1>3. /\ DOMAIN c = 1..Len(c) /\ Len(c) \in Nat /\ DOMAIN w \subseteq Nat \ {0}
      /\ \A i \in DOMAIN c : /\ i \in DOMAIN w /\ w[i].kind = "channel"
                             /\ w[i].name = c[i].name /\ w[i].val = c[i].val
      /\ \A i \in DOMAIN w : w[i].kind = "channel" => i \in DOMAIN c
      /\ Names(s) # {} => \E i \in DOMAIN w : w[i].kind = "scene"
  BY <1>2, ParsedParts
<1>4. /\ Empty["scene"] = <<>> /\ Empty["channel"] = <<>> /\ Len(<<>>) = 0
      /\ DOMAIN <<>> = {} /\ Names(<<>>) = {}
  BY EmptySeq DEF Empty, Kind, Names
<1>5. \A i \in DOMAIN c : c[i] = [name |-> c[i].name, val |-> c[i].val]
  <2> SUFFICES ASSUME NEW i \in DOMAIN c
               PROVE  c[i] = [name |-> c[i].name, val |-> c[i].val]
    OBVIOUS
  <2>1. c[i] \in Entry
    BY NamesFacts
  <2> QED BY <2>1 DEF Entry
<1>6. \A n : n \in Names(c) <=> \E i \in DOMAIN w : w[i].kind = "channel" /\ w[i].name = n
  BY <1>3 DEF Names
<1>7. \A i \in DOMAIN w : i + 0 = i /\ i - 0 = i
  BY <1>3
<1>8. \A i \in DOMAIN w : w[i].kind = "channel" =>
        i + 0 \in DOMAIN c /\ c[i + 0] = [name |-> w[i].name, val |-> w[i].val]
  BY <1>3, <1>5, <1>7
<1>9. \A i \in DOMAIN c : i - 0 \in DOMAIN w /\ w[i - 0].kind = "channel"
  BY <1>3, <1>7
<1>10. StillToAdd(c, <<>>, w)
  BY <1>3, <1>4, <1>6, <1>8, <1>9 DEF StillToAdd
<1>11. HalfLoaded(f, Empty, w)
  BY <1>1, <1>3, <1>4, <1>10 DEF HalfLoaded
<1> QED BY <1>1, <1>2, <1>11

(* All of the file is loaded. *)
LEMMA HalfLoadedAll ==
  ASSUME NEW f \in Document, NEW m \in Document, HalfLoaded(f, m, <<>>), NEW o
  PROVE  Describes(f, m, o)
<1>1. PICK c \in Seq(Entry), l \in Seq(Entry) : c = f["channel"] /\ l = m["channel"]
  BY DocFacts DEF Kind
<1>2. /\ Len(c) \in Nat /\ DOMAIN c = 1..Len(c) /\ Len(l) \in Nat /\ DOMAIN l = 1..Len(l)
      /\ DOMAIN <<>> = {}
  BY NamesFacts
<1>3. Names(f["scene"]) = Names(m["scene"])
  BY <1>1, <1>2 DEF HalfLoaded, StillToAdd
<1>4. Names(c) = Names(l)
  <2>1. \A n : n \in Names(c) <=> n \in Names(l)
    BY <1>1, <1>2 DEF HalfLoaded, StillToAdd
  <2> QED BY <2>1
<1>5. ASSUME Unique(c)
      PROVE  c = l
  <2>1. /\ \A i \in DOMAIN l : i \in DOMAIN c /\ l[i] = c[i]
        /\ \A i \in DOMAIN c : ~(i > Len(l))
    BY <1>1, <1>2, <1>5 DEF HalfLoaded, StillToAdd
  <2>2. ~(Len(c) > Len(l))
    <3>1. Len(c) > Len(l) => Len(c) \in DOMAIN c
      BY <1>2
    <3> QED BY <2>1, <3>1
  <2>3. ~(Len(l) > Len(c))
    <3>1. Len(l) > Len(c) => Len(l) \in DOMAIN l /\ Len(l) \notin DOMAIN c
      BY <1>2
    <3> QED BY <2>1, <3>1
  <2>4. Len(c) \in Nat /\ Len(l) \in Nat
    BY <1>2
  <2>5. Len(c) = Len(l)
    BY <2>2, <2>3, <2>4
  <2> QED BY <1>2, <2>1, <2>5, SeqEqual
<1>6. \A k \in Kind : Names(f[k]) = Names(m[k])
  BY <1>1, <1>3, <1>4 DEF Kind
<1> QED BY <1>1, <1>5, <1>6 DEF Describes

(* The device is known when the last channel was taken. *)
LEMMA NowKnown ==
  ASSUME TypeOK', file' # Torn, \A t \in Thread : at'[t] = "idle", phase' = "loading",
         HalfLoaded(file', mem', todo')
  PROVE  Stored'
<1>1. CASE todo' # <<>>
  <2>1. SceneAhead'
    BY <1>1 DEF SceneAhead, HalfLoaded
  <2> QED BY <2>1 DEF Stored
<1>2. CASE todo' = <<>>
  <2>1. PICK f, m, o : f = file' /\ m = mem' /\ o = overlap'
    OBVIOUS
  <2>2. f \in Document /\ m \in Document /\ HalfLoaded(f, m, <<>>)
    BY <1>2, <2>1 DEF TypeOK
  <2>3. Describes(f, m, o)
    BY <2>2, HalfLoadedAll
  <2>4. Caught'
    BY <2>1, <2>3 DEF Caught
  <2> QED BY <2>4 DEF Stored
<1> QED BY <1>1, <1>2

(* load_config reads the file. *)
LEMMA ParseStored ==
  ASSUME TypeOK, TypeOK', Kept, Stored, Parse
  PROVE  Stored'
<1>1. /\ phase = "parse" /\ phase' = "loading" /\ mem = Empty
      /\ UNCHANGED <<mem, file, at>>
  BY DEF Parse, thread, Stored
<1>2. file # Torn /\ \A u \in Thread : at[u] = "idle"
  BY <1>1 DEF Kept, Untouched, DeviceKnown
<1>3. PICK f : f = file /\ f \in Document
  BY <1>2 DEF TypeOK
<1>4. todo' = Parsed(f["channel"], f["scene"])
  BY <1>2, <1>3 DEF Parse, Parsed
<1>5. HalfLoaded(file', mem', todo')
  BY <1>1, <1>3, <1>4, HalfLoadedFirst
<1> QED BY <1>1, <1>2, <1>5, NowKnown

(* load_config takes a scene. *)
LEMMA LoadSceneStored ==
  ASSUME TypeOK, Kept, Stored, LoadScene
  PROVE  Stored'
<1> DEFINE c == Head(todo)
<1>1. /\ UNCHANGED <<mem, file, doc, phase>> /\ (overlap => overlap')
      /\ phase = "loading" /\ todo # <<>> /\ todo' = Tail(todo) /\ c.kind = "scene"
      /\ Main \in Thread
  BY DEF LoadScene, Search, Thread
<1>2. /\ at[Main] = "idle" /\ at'[Main] = "change"
      /\ found'[Main] = (c.name \in Names(mem["scene"]))
      /\ \A u \in Thread \ {Main} : at'[u] = at[u]
  BY <1>1 DEF LoadScene, Search, TypeOK
<1>3. Loader
  BY DEF Kept
<1>4. \A i \in DOMAIN todo : todo[i].kind # "channel"
  BY <1>1, <1>3, AheadFacts
<1>5. DeviceKnown /\ DeviceKnown'
  BY <1>1, <1>4, HeadFacts DEF DeviceKnown
<1>6. \A d : Describes(d, mem, overlap) => Describes(d, mem', overlap')
  BY <1>1 DEF Describes
<1>7. Caught => Caught'
  BY <1>1, <1>2, <1>6 DEF Caught
<1>8. SceneAhead => SceneAhead'
  BY <1>1, <1>2 DEF SceneAhead
<1> QED BY <1>1, <1>5, <1>7, <1>8 DEF Stored

(* A list grows by the channel that load_config takes. *)
LEMMA HalfLoadedNext ==
  ASSUME NEW f \in Document, NEW m \in Document, NEW q \in Seq(SetCommand), q # <<>>,
         Head(q).kind = "channel", HalfLoaded(f, m, q),
         NEW r, r = [m EXCEPT !["channel"] = Put(@, Head(q).name, Head(q).val)],
         NEW w, w = Tail(q)
  PROVE  HalfLoaded(f, r, w)
<1>1. PICK c \in Seq(Entry), l \in Seq(Entry) : c = f["channel"] /\ l = m["channel"]
  BY DocFacts DEF Kind
<1>1a. PICK n, v, p : n = Head(q).name /\ v = Head(q).val /\ p = Put(l, n, v)
  OBVIOUS
<1>2. Len(c) \in Nat /\ DOMAIN c = 1..Len(c) /\ Len(l) \in Nat /\ DOMAIN l = 1..Len(l)
  BY NamesFacts
<1>3. /\ Len(q) \in Nat /\ Len(q) > 0 /\ DOMAIN q = 1..Len(q) /\ q[1] = Head(q)
      /\ Head(q) \in SetCommand
      /\ w \in Seq(SetCommand) /\ Len(w) = Len(q) - 1
      /\ \A i \in 1..Len(w) : w[i] = q[i + 1]
  BY HeadTailProperties, EmptySeq, LenProperties
<1>4. DOMAIN w = 1..(Len(q) - 1)
  BY <1>3, LenProperties
<1>5. /\ 1 \in DOMAIN q /\ q[1].name = n /\ q[1].val = v /\ q[1].kind = "channel"
      /\ \A i \in DOMAIN w : i + 1 \in DOMAIN q /\ w[i] = q[i + 1]
      /\ \A i \in DOMAIN q : i = 1 \/ (i - 1 \in DOMAIN w /\ w[i - 1] = q[i])
  <2>1. \A i \in DOMAIN w : i + 1 \in DOMAIN q /\ w[i] = q[i + 1]
    BY <1>3, <1>4
  <2>2. ASSUME NEW i \in DOMAIN q, i # 1
        PROVE  i - 1 \in DOMAIN w /\ w[i - 1] = q[i]
    <3>1. i - 1 \in DOMAIN w /\ (i - 1) + 1 = i
      BY <1>3, <1>4, <2>2
    <3> QED BY <2>1, <3>1
  <2> QED BY <1>1a, <1>3, <2>1, <2>2
<1>6. r["channel"] = p /\ r["scene"] = m["scene"]
  BY <1>1, <1>1a DEF Document, Kind
<1>7. /\ Names(m["scene"]) = {}
      /\ Names(f["scene"]) # {} => \E i \in DOMAIN q : q[i].kind = "scene"
      /\ \A x : x \in Names(c) <=>
                  x \in Names(l) \/ \E i \in DOMAIN q : q[i].kind = "channel" /\ q[i].name = x
      /\ Unique(c) =>
           /\ \A i \in DOMAIN l : i \in DOMAIN c /\ l[i] = c[i]
           /\ \A i \in DOMAIN q : q[i].kind = "channel" =>
                /\ i + Len(l) \in DOMAIN c
                /\ c[i + Len(l)] = [name |-> q[i].name, val |-> q[i].val]
           /\ \A i \in DOMAIN c : i > Len(l) =>
                i - Len(l) \in DOMAIN q /\ q[i - Len(l)].kind = "channel"
  BY <1>1 DEF HalfLoaded, StillToAdd
<1>8. Names(p) = Names(l) \cup {n}
  <2>1. /\ Names(Add(l, n, v)) = Names(l) \cup {n}
        /\ n \in Names(l) => Names(Replace(l, n, v)) = Names(l)
    BY NamesStay
  <2> QED BY <1>1a, <2>1 DEF Put
<1>9. Names(f["scene"]) # {} => \E i \in DOMAIN w : w[i].kind = "scene"
  <2> SUFFICES ASSUME NEW i \in DOMAIN q, q[i].kind = "scene"
               PROVE  \E j \in DOMAIN w : w[j].kind = "scene"
    BY <1>7
  <2>1. i # 1
    BY <1>5
  <2>2. i - 1 \in DOMAIN w /\ w[i - 1] = q[i]
    BY <1>5, <2>1
  <2> QED BY <2>2
<1>10. \A x : x \in Names(c) <=>
                x \in Names(p) \/ \E i \in DOMAIN w : w[i].kind = "channel" /\ w[i].name = x
  <2> SUFFICES ASSUME NEW x
               PROVE  x \in Names(c) <=>
                        x \in Names(p) \/ \E i \in DOMAIN w : w[i].kind = "channel" /\ w[i].name = x
    OBVIOUS
  <2>1. ASSUME NEW i \in DOMAIN q, q[i].kind = "channel", q[i].name = x, x # n
        PROVE  \E j \in DOMAIN w : w[j].kind = "channel" /\ w[j].name = x
    <3>1. i - 1 \in DOMAIN w /\ w[i - 1] = q[i]
      BY <1>5, <2>1
    <3> QED BY <2>1, <3>1
  <2>2. ASSUME NEW j \in DOMAIN w, w[j].kind = "channel", w[j].name = x
        PROVE  \E i \in DOMAIN q : q[i].kind = "channel" /\ q[i].name = x
    BY <1>5, <2>2
  <2>3. x = n => \E i \in DOMAIN q : q[i].kind = "channel" /\ q[i].name = x
    BY <1>5
  <2>4. (\E i \in DOMAIN q : q[i].kind = "channel" /\ q[i].name = x)
          <=> x = n \/ \E j \in DOMAIN w : w[j].kind = "channel" /\ w[j].name = x
    BY ZenonT(60), <2>1, <2>2, <2>3
  <2>5. x \in Names(c) <=>
          x \in Names(l) \/ \E i \in DOMAIN q : q[i].kind = "channel" /\ q[i].name = x
    BY <1>7
  <2>6. x \in Names(p) <=> x \in Names(l) \/ x = n
    BY <1>8
  <2> QED BY <2>4, <2>5, <2>6
<1>11. ASSUME Unique(c)
       PROVE  /\ \A i \in DOMAIN p : i \in DOMAIN c /\ p[i] = c[i]
              /\ \A i \in DOMAIN w : w[i].kind = "channel" =>
                   /\ i + Len(p) \in DOMAIN c
                   /\ c[i + Len(p)] = [name |-> w[i].name, val |-> w[i].val]
              /\ \A i \in DOMAIN c : i > Len(p) =>
                   i - Len(p) \in DOMAIN w /\ w[i - Len(p)].kind = "channel"
  <2> DEFINE e == [name |-> n, val |-> v]
  <2>1. 1 + Len(l) \in DOMAIN c /\ c[1 + Len(l)] = e
    BY <1>5, <1>7, <1>11
  <2>2. n \notin Names(l)
    <3> SUFFICES ASSUME NEW i \in DOMAIN l, l[i].name = n PROVE FALSE
      BY NamesFacts
    <3>1. i \in DOMAIN c /\ c[i].name = c[1 + Len(l)].name
      BY <1>7, <1>11, <2>1
    <3>2. i = 1 + Len(l)
      BY <1>11, <2>1, <3>1 DEF Unique
    <3> QED BY <1>2, <3>2
  <2>3. p = Append(l, e) /\ e \in Entry
    BY <1>1a, <1>3, <2>2 DEF Put, Add, SetCommand, Entry
  <2> HIDE DEF e
  <2>4. /\ p \in Seq(Entry) /\ Len(p) = Len(l) + 1 /\ DOMAIN p = 1..(Len(l) + 1)
        /\ p[Len(l) + 1] = e /\ \A i \in 1..Len(l) : p[i] = l[i]
    BY <2>3, AppendProperties, LenProperties
  <2>5. \A i \in DOMAIN p : i \in DOMAIN c /\ p[i] = c[i]
    <3>1. Len(l) + 1 = 1 + Len(l)
      BY <1>2
    <3>2. \A i \in DOMAIN p : i \in DOMAIN l \/ i = Len(l) + 1
      BY <1>2, <2>4
    <3> QED BY <1>2, <1>7, <1>11, <2>1, <2>4, <3>1, <3>2
  <2>6. ASSUME NEW i \in DOMAIN w, w[i].kind = "channel"
        PROVE  /\ i + Len(p) \in DOMAIN c
               /\ c[i + Len(p)] = [name |-> w[i].name, val |-> w[i].val]
    <3>1. i + 1 \in DOMAIN q /\ w[i] = q[i + 1] /\ i + Len(p) = (i + 1) + Len(l)
      BY <1>2, <1>4, <1>5, <2>4, <1>3
    <3> QED BY <1>7, <1>11, <2>6, <3>1
  <2>7. ASSUME NEW i \in DOMAIN c, i > Len(p)
        PROVE  i - Len(p) \in DOMAIN w /\ w[i - Len(p)].kind = "channel"
    <3>1. i > Len(l) /\ i - Len(l) # 1 /\ (i - Len(l)) - 1 = i - Len(p)
      BY <1>2, <2>4, <2>7
    <3>2. i - Len(l) \in DOMAIN q /\ q[i - Len(l)].kind = "channel"
      BY <1>7, <1>11, <3>1
    <3>3. (i - Len(l)) - 1 \in DOMAIN w /\ w[(i - Len(l)) - 1] = q[i - Len(l)]
      BY <1>5, <3>1, <3>2
    <3> QED BY <3>1, <3>2, <3>3
  <2> QED BY <2>5, <2>6, <2>7
<1>12. StillToAdd(c, p, w)
  BY <1>10, <1>11 DEF StillToAdd
<1> QED BY <1>1, <1>6, <1>7, <1>9, <1>12 DEF HalfLoaded

(* load_config sets a channel. *)
LEMMA LoadChannelStored ==
  ASSUME TypeOK, TypeOK', Kept, Stored, LoadChannel
  PROVE  Stored'
<1>1. /\ UNCHANGED <<file, at, phase>>
      /\ phase = "loading" /\ todo # <<>> /\ todo' = Tail(todo)
      /\ Head(todo).kind = "channel"
      /\ mem' = [mem EXCEPT !["channel"] = Put(@, Head(todo).name, Head(todo).val)]
  BY DEF LoadChannel, thread
<1>2. ~DeviceKnown
  BY <1>1, HeadFacts DEF DeviceKnown
<1>3. file # Torn /\ \A u \in Thread : at[u] = "idle"
  BY <1>2 DEF Kept, Untouched
<1>4. HalfLoaded(file, mem, todo)
  BY <1>1, <1>2 DEF Stored
<1>5. PICK f, m, q : f = file /\ m = mem /\ q = todo
  OBVIOUS
<1>6. PICK r, w : r = mem' /\ w = todo'
  OBVIOUS
<1>7. HalfLoaded(f, r, w)
  <2>1. f \in Document /\ m \in Document /\ q \in Seq(SetCommand) /\ q # <<>>
    BY <1>1, <1>3, <1>5 DEF TypeOK
  <2>2. /\ Head(q).kind = "channel" /\ HalfLoaded(f, m, q) /\ w = Tail(q)
        /\ r = [m EXCEPT !["channel"] = Put(@, Head(q).name, Head(q).val)]
    BY <1>1, <1>4, <1>5, <1>6
  <2> QED BY <2>1, <2>2, HalfLoadedNext
<1>8. HalfLoaded(file', mem', todo')
  BY <1>1, <1>5, <1>6, <1>7
<1> QED BY <1>1, <1>3, <1>8, NowKnown

LEMMA StoredStep == IInv /\ IInv' /\ KeptInv /\ StoredInv /\ [Next]_vars => StoredInv'
<1> SUFFICES ASSUME IInv, IInv', KeptInv, StoredInv, [Next]_vars, ~damaged', ~undefined'
             PROVE  Stored'
  BY DEF StoredInv
<1>1. ~damaged /\ ~undefined /\ ~(\E t \in Thread : UseStale(t))
  BY Undamaged
<1>2. Kept /\ Stored /\ TypeOK /\ TypeOK'
  BY <1>1 DEF KeptInv, StoredInv, IInv
<1>3. CASE \E t \in Client, c \in Command : SceneCommand(t, c) \/ ChannelCommand(t, c)
  BY <1>2, <1>3, CommandStored
<1>4. CASE \E t \in Thread, m \in SUBSET Thread : Change(t, m)
  BY <1>2, <1>4, ChangeStored
<1>5. CASE \E t \in Thread : Build(t) \/ Open(t) \/ Flush(t)
  BY <1>1, <1>2, <1>5, SaveStored
<1>6. CASE InitScene \/ Loaded \/ UNCHANGED vars
  BY <1>2, <1>6, QuietStored
<1>7. CASE Parse
  BY <1>2, <1>7, ParseStored
<1>8. CASE LoadScene
  BY <1>2, <1>8, LoadSceneStored
<1>9. CASE LoadChannel
  BY <1>2, <1>9, LoadChannelStored
<1>10. CASE Crash
  <2>1. phase' = "boot" /\ mem' = Empty
    BY <1>10 DEF Crash
  <2> QED BY <2>1 DEF Stored, DeviceKnown
<1> QED BY <1>1, <1>3, <1>4, <1>5, <1>6, <1>7, <1>8, <1>9, <1>10 DEF Next

-----------------------------------------------------------------------------
(* The lists, the file and the threads' commands keep their types through  *)
(* every command, save, load and crash, overlapping or not.                *)
THEOREM StoreTypes == Spec => []TypeOK
BY StoreInv, PTL DEF IInv

(* Although nothing locks the lists, set_channel, add_scene and            *)
(* load_config never put a name into a list twice, unless two threads are  *)
(* at once to set that name, or a deletion or a replacement in the list    *)
(* makes another thread's search pass by a name that is there.             *)
THEOREM StoreNamesUnique == Spec => []NamesUnique
BY StoreInv, PTL DEF IInv

(* Until then, what the clients do to the lists is what they would do to a *)
(* map: each command takes effect once, as a whole, on its own name and no *)
(* other.                                                                  *)
THEOREM StoreImplementsMap == Spec => ImplementsMap
<1>1. Init => Map!Init
  <2> SUFFICES ASSUME Init PROVE Map!Init
    OBVIOUS
  <2>1. \A n : Lookup(<<>>, n, NoVal) = NoVal
    BY DEF Lookup, Names
  <2>2. Pending = {}
    BY DEF Init, Pending, Asking
  <2> QED BY <2>1, <2>2 DEF Init, Empty, Map!Init, Map!Key, Pending
<1>2. IInv /\ [Next]_vars => [Map!Next]_<<Abs, Pending, overlap>>
  BY StepInv DEF Refines
<1> QED BY <1>1, <1>2, StoreInv, PTL DEF Spec, ImplementsMap, Map!Spec, Abs, Pending

(* A name that a client added, and was told so, is there after any number  *)
(* of restarts, for any number of clients and commands, if nothing         *)
(* endangered the file: no two saves overlapped, none passed by an entry   *)
(* as another thread deleted or replaced one, and the daemon was not       *)
(* killed, or given commands, while it read or wrote the file.             *)
THEOREM NamesSurvive == Spec => []KeptAcrossRestarts
<1>1. KeptInv => KeptAcrossRestarts
  <2> SUFFICES ASSUME KeptInv, ~damaged, ~undefined, phase = "running", NEW x \in acked
               PROVE  x[2] \in Names(mem[x[1]])
    BY DEF KeptAcrossRestarts
  <2>1. Kept /\ todo = <<>> /\ at[Main] = "idle"
    BY DEF KeptInv, Kept, Loader
  <2>2. Ahead = {}
    BY <2>1 DEF Ahead
  <2>3. x \in Here
    BY <2>1, <2>2 DEF Kept, InMemory
  <2> QED BY <2>3 DEF Here
<1> QED BY <1>1, KeptInit, KeptStep, StoreInv, PTL DEF Spec

(* When no command is under way, the file has the names that are in memory *)
(* and the channels with their numbers, for any number of clients, names,  *)
(* commands and restarts, if nothing endangered the file: save_config is   *)
(* called for whatever changes them, and never leaves an older state.      *)
THEOREM QuietIsStored == Spec => []StoredWhenQuiet
<1>1. KeptInv /\ StoredInv => StoredWhenQuiet
  <2> SUFFICES ASSUME KeptInv, StoredInv, ~damaged, ~undefined, phase = "running",
                      \A t \in Thread : at[t] = "idle"
               PROVE  /\ file # Torn
                      /\ \A k \in Kind : Names(file[k]) = Names(mem[k])
                      /\ ~overlap /\ Unique(file["channel"]) => file["channel"] = mem["channel"]
    BY DEF StoredWhenQuiet
  <2>1. Kept /\ Stored /\ todo = <<>>
    BY DEF KeptInv, StoredInv, Kept, Loader
  <2>2. DeviceKnown /\ ~SceneAhead
    BY <2>1 DEF DeviceKnown, SceneAhead
  <2>3. Caught
    BY <2>1, <2>2 DEF Stored
  <2>4. file # Torn /\ Describes(file, mem, overlap)
    BY <2>3 DEF Caught
  <2> QED BY <2>4 DEF Describes
<1>2. IInv /\ [Next]_vars => IInv'
  BY StepInv
<1>3. IInv /\ IInv' /\ KeptInv /\ StoredInv /\ [Next]_vars => StoredInv' /\ KeptInv'
  BY KeptStep, StoredStep
<1> QED BY <1>1, <1>2, <1>3, InitInv, KeptInit, StoredInit, PTL DEF Spec
=============================================================================
