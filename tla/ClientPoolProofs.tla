-------------------------- MODULE ClientPoolProofs --------------------------
(***************************************************************************)
(* Proofs about ClientPool, for any number of contexts, pool threads,      *)
(* connections, devices, requests and events, and any socket size.         *)
(***************************************************************************)
EXTENDS ClientPool, QueueFacts

-----------------------------------------------------------------------------
(* Types and contexts. *)

Resp == [to : Client \cup {Everybody}, n : Nat]
Task == [at : {"idle", "sleep", "check", "push", "send"}, slot : Slot, resp : Resp,
         left : Nat]
Request == [slot : Slot, resp : Resp]

PoolTypes ==
  /\ client \in [Client -> {"new", "open", "closed"}]
  /\ sent \in [Client -> Nat]
  /\ now \in [Client -> SUBSET Nat]
  /\ using \in [Slot -> BOOLEAN]
  /\ conn \in [Slot -> Client \cup {NoConn}]
  /\ queue \in [Slot -> Seq(Resp)]
  /\ notes \in [Slot -> Nat]
  /\ handler \in [Slot -> {"none", "queued", "select", "lookup", "reply", "drain", "write"}]
  /\ hand \in [Slot -> Resp]
  /\ waiting \in Seq(Slot)
  /\ asyncq \in Seq(Request)
  /\ sender \in [Threads -> Task]
  /\ got \in [Client -> SUBSET Resp]

LEMMA ThreadNames ==
  /\ Async \in Threads /\ Driver \in Threads /\ Listener \in Threads
  /\ Async # Driver /\ Async # Listener /\ Driver # Listener
  /\ \A s \in Slot : s \in Threads /\ s \notin {Async, Driver, Listener}
BY DEF Threads, Async, Driver, Listener, Slot

LEMMA IdleProps ==
  /\ Idle \in Task /\ Idle.at = "idle" /\ Idle.resp \in Resp
  /\ Idle.resp.to = Everybody /\ Idle.resp.n = 0
  /\ ToEverybody \in Task /\ ToEverybody.at = "check"
  /\ ToEverybody.resp = Idle.resp /\ ToEverybody.slot = 1 /\ ToEverybody.left = NSlot
<1>1. 1 \in Slot /\ NSlot \in Nat
  BY PoolAssumption DEF Slot
<1>2. /\ Idle \in Task /\ Idle.at = "idle" /\ Idle.resp \in Resp
      /\ Idle.resp.to = Everybody /\ Idle.resp.n = 0 /\ Idle.slot = 1
  BY <1>1 DEF Idle, Task, Resp, Everybody
<1>3. ToEverybody = [Idle EXCEPT !.at = "check", !.left = NSlot]
  BY DEF ToEverybody
<1>4. /\ ToEverybody \in Task /\ ToEverybody.at = "check" /\ ToEverybody.left = NSlot
      /\ ToEverybody.resp = Idle.resp /\ ToEverybody.slot = Idle.slot
  BY <1>1, <1>2, <1>3 DEF Task
<1> QED BY <1>2, <1>4

(* An answer is reported once; an event to the contexts up to the last; a  *)
(* device to the connection that the listening thread waited for.          *)
LapOf(k) ==
  k.at # "idle" /\ k.resp.to = Everybody => k.left >= 1 /\ k.slot + k.left = NSlot + 1

Laps ==
  /\ sender[Async].at # "idle" => sender[Async].left = 1
  /\ sender[Listener].at # "idle" => sender[Listener].resp.to # Everybody
  /\ \A t \in Threads \ {Async} : LapOf(sender[t])

(* A context in use has a connection that was accepted, which has no other *)
(* context, and a handler, which the pool has or will have.                *)
Contexts ==
  /\ \A s \in Slot : using[s] <=> conn[s] # NoConn
  /\ \A s \in Slot : using[s] <=> handler[s] # "none"
  /\ \A s \in Slot : using[s] => client[conn[s]] # "new"
  /\ \A s, t \in Slot : using[s] /\ using[t] /\ conn[s] = conn[t] => s = t
  /\ \A i \in DOMAIN waiting : handler[waiting[i]] = "queued"
  /\ IsInjective(waiting)
  /\ \A c \in Client : client[c] = "new" => sent[c] = 0

PoolInv == PoolTypes /\ Laps /\ Contexts

(* What a thread does next after it has served one context. *)
LEMMA AfterProps ==
  ASSUME PoolInv, NEW t \in Threads, sender[t].at # "idle"
  PROVE  /\ After(sender[t]) \in Task
         /\ t = Async => After(sender[t]) = Idle
         /\ t # Async => LapOf(After(sender[t]))
         /\ After(sender[t]).at # "idle" =>
              /\ After(sender[t]).at = "check"
              /\ After(sender[t]).resp = sender[t].resp
              /\ sender[t].resp.to # Everybody => After(sender[t]).slot = sender[t].slot
<1> PICK r : r = sender[t]
  OBVIOUS
<1>1. r \in Task /\ r.slot \in 1..NSlot /\ r.left \in Nat /\ NSlot \in Nat \ {0}
  BY PoolAssumption DEF PoolInv, PoolTypes, Task, Slot
<1>3. CASE r.left <= 1
  BY <1>3, IdleProps DEF After, LapOf
<1>4. CASE ~(r.left <= 1)
  <2>0. t # Async
    BY <1>4 DEF PoolInv, Laps
  <2>1. r.resp.to = Everybody => r.slot + r.left = NSlot + 1
    BY <2>0 DEF PoolInv, Laps, LapOf
  <2>2. r.left - 1 \in Nat /\ r.left - 1 >= 1
    BY <1>1, <1>4
  <2>3. r.resp.to = Everybody
          => r.slot + 1 \in Slot /\ (r.slot + 1) + (r.left - 1) = NSlot + 1
    BY <1>1, <2>1, <2>2 DEF Slot
  <2>4. After(r) = [r EXCEPT !.at = "check", !.left = r.left - 1,
                      !.slot = IF r.resp.to = Everybody THEN r.slot + 1 ELSE r.slot]
    BY <1>4 DEF After
  <2>5. /\ After(r) \in Task /\ After(r).at = "check"
        /\ After(r).left = r.left - 1 /\ After(r).resp = r.resp
        /\ After(r).slot = IF r.resp.to = Everybody THEN r.slot + 1 ELSE r.slot
    BY <1>1, <2>2, <2>3, <2>4 DEF Task, Slot
  <2> QED BY <2>0, <2>2, <2>3, <2>5 DEF LapOf
<1> QED BY <1>3, <1>4

(* A thread that calls notify_resp changes nothing but its own place. *)
LEMMA NotifyStepProps ==
  ASSUME PoolInv, NEW t \in Threads, NotifyStep(t)
  PROVE  /\ sender' \in [Threads -> Task] /\ Laps'
         /\ \A u \in Threads \ {t} : sender'[u] = sender[u]
         /\ sender[t].at # "idle"
         /\ sender'[t].at # "idle" =>
              /\ sender'[t].resp = sender[t].resp
              /\ sender[t].resp.to # Everybody => sender'[t].slot = sender[t].slot
<1>0. sender \in [Threads -> Task] /\ sender[t] \in Task
  BY DEF PoolInv, PoolTypes
<1>1. PICK r \in Task : /\ sender' = [sender EXCEPT ![t] = r]
                        /\ \/ r = After(sender[t])
                           \/ r = [sender[t] EXCEPT !.at = "push"]
                           \/ r = [sender[t] EXCEPT !.at = "send"]
  <2>1. ASSUME sender[t].at # "idle" PROVE After(sender[t]) \in Task
    BY <2>1, AfterProps
  <2>2. \A a \in {"push", "send"} : [sender[t] EXCEPT !.at = a] \in Task
    BY <1>0 DEF Task
  <2> QED BY <2>1, <2>2, <1>0 DEF NotifyStep, Check, Push, Send
<1>2. sender[t].at # "idle"
  BY DEF NotifyStep, Check, Push, Send
<1>3. sender' \in [Threads -> Task] /\ sender'[t] = r
      /\ \A u \in Threads \ {t} : sender'[u] = sender[u]
  BY <1>0, <1>1
<1>4. /\ r.at # "idle" => /\ r.resp = sender[t].resp
                          /\ sender[t].resp.to # Everybody => r.slot = sender[t].slot
      /\ t = Async /\ r.at # "idle" => r.left = sender[t].left
      /\ t # Async => LapOf(r)
  <2>1. CASE r = After(sender[t])
    BY <1>2, <2>1, AfterProps, IdleProps
  <2>2. CASE \E a \in {"push", "send"} : r = [sender[t] EXCEPT !.at = a]
    <3>1. r.left = sender[t].left /\ r.slot = sender[t].slot /\ r.resp = sender[t].resp
      BY <1>0, <2>2 DEF Task
    <3> QED BY <1>2, <3>1 DEF PoolInv, Laps, LapOf
  <2> QED BY <1>1, <2>1, <2>2
<1>5. Laps'
  <2>1. sender'[Async].at # "idle" => sender'[Async].left = 1
    BY <1>2, <1>3, <1>4, ThreadNames DEF PoolInv, Laps
  <2>2. sender'[Listener].at # "idle" => sender'[Listener].resp.to # Everybody
    BY <1>2, <1>3, <1>4, ThreadNames DEF PoolInv, Laps
  <2>3. \A u \in Threads \ {Async} : LapOf(sender'[u])
    BY <1>3, <1>4 DEF PoolInv, Laps
  <2> QED BY <2>1, <2>2, <2>3 DEF Laps
<1> QED BY <1>2, <1>3, <1>4, <1>5

LEMMA AcceptPool ==
  ASSUME PoolInv, NEW c \in Client, Accept(c)
  PROVE  PoolInv'
<1> USE DEF PoolInv
<1>1. PICK s \in Slot :
        /\ ~using[s]
        /\ using' = [using EXCEPT ![s] = TRUE]
        /\ conn' = [conn EXCEPT ![s] = c]
        /\ notes' = [notes EXCEPT ![s] = 0]
        /\ handler' = [handler EXCEPT ![s] = "queued"]
        /\ waiting' = Append(waiting, s)
        /\ sender' = [sender EXCEPT ![Listener].at = "sleep",
                                     ![Listener].slot = s,
                                     ![Listener].resp.to = c]
  BY DEF Accept
<1>2. /\ client[c] = "new" /\ client' = [client EXCEPT ![c] = "open"]
      /\ UNCHANGED <<sent, now, got, queue, hand, asyncq>>
  BY DEF Accept
<1>3. c # NoConn
  BY PoolAssumption DEF NoConn
<1>4. s \notin ToSet(waiting)
  BY <1>1, ToSetProps DEF PoolTypes, Contexts, ToSet
<1>5. /\ waiting' \in Seq(Slot) /\ IsInjective(waiting')
      /\ ToSet(waiting') = ToSet(waiting) \cup {s}
  BY <1>1, <1>4, PushTail DEF PoolTypes, Contexts
<1>6. \A i \in DOMAIN waiting' : handler'[waiting'[i]] = "queued"
  <2>1. \A x \in ToSet(waiting') : handler'[x] = "queued"
    <3>1. ToSet(waiting) \in SUBSET Slot
      BY ToSetProps DEF PoolTypes
    <3>2. \A x \in ToSet(waiting) : handler[x] = "queued"
      BY DEF Contexts, ToSet
    <3> QED BY <1>1, <1>5, <3>1, <3>2 DEF PoolTypes
  <2> QED BY <2>1 DEF ToSet
<1>7. sender' \in [Threads -> Task] /\ Laps'
  <2>1. sender[Listener] \in Task /\ c # Everybody
    BY ThreadNames, PoolAssumption DEF PoolTypes, Everybody
  <2>2. PICK k : k = [sender[Listener] EXCEPT !.at = "sleep", !.slot = s, !.resp.to = c]
    OBVIOUS
  <2>3. k \in Task /\ k.resp.to = c
    BY <2>1, <2>2 DEF Task, Resp
  <2>4. sender' = [sender EXCEPT ![Listener] = k]
    BY <1>1, <2>2
  <2>5. /\ sender' \in [Threads -> Task] /\ sender'[Listener] = k
        /\ \A t \in Threads \ {Listener} : sender'[t] = sender[t]
    BY <2>3, <2>4, ThreadNames DEF PoolTypes
  <2> QED BY <2>1, <2>3, <2>5, ThreadNames DEF Laps, LapOf
<1>8. PoolTypes'
  BY <1>1, <1>2, <1>5, <1>7 DEF PoolTypes
<1>9. Contexts'
  <2> USE DEF PoolTypes, Contexts
  <2>1. \A x \in Slot : using'[x] <=> conn'[x] # NoConn
    BY <1>1, <1>3
  <2>2. \A x \in Slot : using'[x] <=> handler'[x] # "none"
    BY <1>1
  <2>3. \A x \in Slot : using[x] => conn[x] \in Client
    OBVIOUS
  <2>4. \A x \in Slot : using'[x] => client'[conn'[x]] # "new"
    BY <1>1, <1>2, <2>3
  <2>5. \A x, y \in Slot : using'[x] /\ using'[y] /\ conn'[x] = conn'[y] => x = y
    BY <1>1, <1>2, <2>3
  <2>6. \A d \in Client : client'[d] = "new" => sent'[d] = 0
    BY <1>2
  <2> QED BY <1>5, <1>6, <2>1, <2>2, <2>4, <2>5, <2>6
<1> QED BY <1>7, <1>8, <1>9

(* The connection of a context ends, and with it the handler. *)
LEMMA ExitPool ==
  ASSUME PoolInv, NEW s \in Slot, HandlerExit(s)
  PROVE  PoolInv'
<1> USE DEF PoolInv
<1>1. /\ handler[s] = "select" /\ client[conn[s]] = "closed"
      /\ handler' = [handler EXCEPT ![s] = "none"]
      /\ using' = [using EXCEPT ![s] = FALSE]
      /\ conn' = [conn EXCEPT ![s] = NoConn]
      /\ notes' = [notes EXCEPT ![s] = 0]
      /\ UNCHANGED <<client, sent, now, got, hand, waiting, queue, asyncq, sender>>
  BY DEF HandlerExit, clientv
<1>2. PoolTypes' /\ Laps'
  BY <1>1 DEF PoolTypes, Laps
<1>3. Contexts'
  <2> USE DEF PoolTypes, Contexts
  <2>1. ASSUME NEW x \in Slot
        PROVE  /\ using'[x] <=> conn'[x] # NoConn
               /\ using'[x] <=> handler'[x] # "none"
               /\ using'[x] => client'[conn'[x]] # "new"
    <3>1. CASE x = s
      BY <1>1, <3>1
    <3>2. CASE x # s
      BY <1>1, <3>2
    <3> QED BY <3>1, <3>2
  <2>2. \A x, y \in Slot : using'[x] /\ using'[y] /\ conn'[x] = conn'[y] => x = y
    BY <1>1
  <2>3. \A i \in DOMAIN waiting' : handler'[waiting'[i]] = "queued"
    BY <1>1, ToSetProps
  <2> QED BY <1>1, <2>1, <2>2, <2>3
<1> QED BY <1>2, <1>3

(* The handler of a context that the pool serves goes on to something else.*)
LEMMA HandlerMoves ==
  ASSUME PoolInv, NEW s \in Slot,
         NEW h \in {"select", "lookup", "reply", "drain", "write"},
         handler[s] \in {"select", "lookup", "reply", "drain", "write"},
         handler' = [handler EXCEPT ![s] = h],
         UNCHANGED <<client, using, conn, waiting>>,
         \A c \in Client : client[c] = "new" => sent'[c] = sent[c]
  PROVE  Contexts'
<1> USE DEF PoolInv, PoolTypes, Contexts
<1>1. \A x \in Slot : handler'[x] = IF x = s THEN h ELSE handler[x]
  OBVIOUS
<1>2. \A i \in DOMAIN waiting' : handler'[waiting'[i]] = "queued"
  <2>1. \A i \in DOMAIN waiting : waiting[i] \in Slot
    BY ToSetProps
  <2> QED BY <1>1, <2>1
<1>3. \A x \in Slot : using'[x] <=> handler'[x] # "none"
  BY <1>1
<1> QED BY <1>2, <1>3

LEMMA PoolStartPool ==
  ASSUME PoolInv, PoolStart
  PROVE  PoolInv'
<1> USE DEF PoolInv
<1> DEFINE s == Head(waiting)
<1>1. /\ waiting # <<>> /\ waiting' = Tail(waiting)
      /\ handler' = [handler EXCEPT ![s] = "select"]
      /\ UNCHANGED <<client, sent, now, got, using, conn, hand, queue, notes, asyncq, sender>>
  BY DEF PoolStart, clientv
<1>2. /\ s \in Slot /\ s = waiting[1] /\ waiting' \in Seq(Slot)
      /\ Len(waiting) \in Nat \ {0}
      /\ ToSet(waiting) = {s} \cup ToSet(waiting')
      /\ IsInjective(waiting') /\ s \notin ToSet(waiting')
  BY <1>1, PopHead DEF PoolTypes, Contexts
<1>3. \A x \in ToSet(waiting) : handler[x] = "queued"
  BY DEF Contexts, ToSet
<1> HIDE DEF s
<1>4. PoolTypes' /\ Laps'
  BY <1>1, <1>2 DEF PoolTypes, Laps
<1>5. Contexts'
  <2> USE DEF PoolTypes, Contexts
  <2>1. \A x \in ToSet(waiting') : handler'[x] = "queued"
    <3>1. ToSet(waiting') \in SUBSET Slot
      BY <1>2, ToSetProps
    <3> QED BY <1>1, <1>2, <1>3, <3>1
  <2>2. \A i \in DOMAIN waiting' : handler'[waiting'[i]] = "queued"
    BY <2>1 DEF ToSet
  <2>3. \A x \in Slot : using'[x] <=> handler'[x] # "none"
    BY <1>1, <1>2, <1>3
  <2> QED BY <1>1, <1>2, <2>2, <2>3
<1> QED BY <1>4, <1>5

LEMMA PoolInvInit == Init => PoolInv
<1> SUFFICES ASSUME Init PROVE PoolInv
  OBVIOUS
<1>1. Idle \in Task /\ Idle.resp \in Resp /\ Idle.at = "idle"
  BY IdleProps
<1>2. \A S : <<>> \in Seq(S)
  OBVIOUS
<1>3. DOMAIN waiting = {}
  BY DEF Init
<1>4. Laps
  BY <1>1, ThreadNames DEF Init, Laps, LapOf
<1> QED BY <1>1, <1>2, <1>3, <1>4
        DEF Init, PoolInv, PoolTypes, Contexts, IsInjective

LEMMA PoolInvNext == PoolInv /\ [Next]_vars => PoolInv'
<1> SUFFICES ASSUME PoolInv, [Next]_vars PROVE PoolInv'
  OBVIOUS
<1> USE DEF PoolInv, clientv, slotv, loss
<1>1. CASE UNCHANGED vars
  BY <1>1 DEF vars, PoolTypes, Laps, Contexts
<1>2. ASSUME NEW c \in Client, Accept(c) PROVE PoolInv'
  BY <1>2, AcceptPool
<1>3. ASSUME NEW c \in Client, Refuse(c) \/ ClientClose(c) PROVE PoolInv'
  <2>1. /\ client[c] \in {"new", "open"}
        /\ client' = [client EXCEPT ![c] = "closed"]
        /\ UNCHANGED <<sent, now, using, conn, queue, notes, handler, hand, waiting,
                       asyncq, sender, got>>
    BY <1>3 DEF Refuse, ClientClose
  <2>2. PoolTypes' /\ Laps'
    BY <2>1 DEF PoolTypes, Laps
  <2>3. \A d \in Client : client'[d] = "new" => client[d] = "new"
    BY <2>1 DEF PoolTypes
  <2>4. \A s \in Slot : using[s] => conn[s] \in Client
    BY DEF PoolTypes, Contexts
  <2> QED BY <2>1, <2>2, <2>3, <2>4 DEF Contexts
<1>4. CASE Report
  <2>1. sender[Listener] \in Task
    BY ThreadNames DEF PoolTypes
  <2>2. PICK k : /\ sender' = [sender EXCEPT ![Listener] = k]
                 /\ \/ k = Idle
                    \/ k = [sender[Listener] EXCEPT !.at = "check", !.left = Devs]
    BY <1>4 DEF Report
  <2>3. k \in Task /\ (k.at # "idle" => k.resp = sender[Listener].resp)
    BY <2>1, <2>2, IdleProps, PoolAssumption DEF Task
  <2>4. /\ sender' \in [Threads -> Task] /\ sender'[Listener] = k
        /\ \A t \in Threads \ {Listener} : sender'[t] = sender[t]
        /\ sender[Listener].at # "idle"
    BY <1>4, <2>2, <2>3, ThreadNames DEF PoolTypes, Report
  <2>5. Laps'
    BY <2>3, <2>4, ThreadNames DEF Laps, LapOf
  <2> QED BY <1>4, <2>4, <2>5 DEF Report, PoolTypes, Contexts
<1>5. CASE PoolStart
  BY <1>5, PoolStartPool
<1>6. ASSUME NEW s \in Slot, ReadRequest(s) PROVE PoolInv'
  <2> DEFINE c == conn[s]
             r == [slot |-> s, resp |-> [to |-> c, n |-> sent[c] + 1]]
  <2>1. handler[s] = "select" /\ client[c] = "open"
    BY <1>6 DEF ReadRequest
  <2>2. c \in Client
    BY <2>1 DEF PoolTypes, Contexts
  <2>3. r \in Request
    BY <2>2 DEF Request, Resp, PoolTypes
  <2>4. asyncq' \in Seq(Request)
    <3>1. asyncq' = Append(asyncq, r)
      BY <1>6 DEF ReadRequest
    <3> HIDE DEF r
    <3> QED BY <2>3, <3>1, PushTail DEF PoolTypes
  <2>5. /\ sent' = [sent EXCEPT ![c] = sent[c] + 1] /\ now' = now
        /\ UNCHANGED <<client, using, conn, queue, notes, handler, hand, waiting,
                       sender, got>>
    BY <1>6 DEF ReadRequest
  <2>6. PoolTypes' /\ Laps'
    BY <2>2, <2>4, <2>5 DEF PoolTypes, Laps
  <2>7. \A d \in Client : client'[d] = "new" => sent'[d] = 0
    BY <2>1, <2>5 DEF PoolTypes, Contexts
  <2> QED BY <2>5, <2>6, <2>7 DEF Contexts
<1>7. ASSUME NEW s \in Slot, Drained(s) PROVE PoolInv'
  <2>1. Contexts'
    BY <1>7, HandlerMoves DEF Drained
  <2>2. PoolTypes' /\ Laps'
    BY <1>7 DEF Drained, PoolTypes, Laps
  <2> QED BY <2>1, <2>2
<1>8. ASSUME NEW s \in Slot, Notified(s) PROVE PoolInv'
  <2>1. Contexts'
    BY <1>8, HandlerMoves DEF Notified
  <2>2. PoolTypes' /\ Laps'
    BY <1>8 DEF Notified, PoolTypes, Laps
  <2> QED BY <2>1, <2>2
<1>9. ASSUME NEW s \in Slot, Pop(s) PROVE PoolInv'
  <2>1. Contexts'
    BY <1>9, HandlerMoves DEF Pop
  <2>2. Head(queue[s]) \in Resp /\ Tail(queue[s]) \in Seq(Resp)
    BY <1>9, PopHead DEF Pop, PoolTypes
  <2>3. PoolTypes' /\ Laps'
    BY <1>9, <2>2 DEF Pop, PoolTypes, Laps
  <2> QED BY <2>1, <2>3
<1>10. ASSUME NEW s \in Slot, Write(s) PROVE PoolInv'
  <2>1. Contexts'
    BY <1>10, HandlerMoves DEF Write
  <2>2. Idle.resp \in Resp
    BY IdleProps
  <2>3. PoolTypes' /\ Laps'
    <3>1. got' \in [Client -> SUBSET Resp]
      <4>0. got[conn[s]] \cup ({hand[s]} \ {Idle.resp}) \in SUBSET Resp
        BY <1>10 DEF Write, PoolTypes, Contexts
      <4>1. [got EXCEPT ![conn[s]] = got[conn[s]] \cup ({hand[s]} \ {Idle.resp})]
              \in [Client -> SUBSET Resp]
        BY <4>0 DEF PoolTypes
      <4> QED BY <1>10, <4>1 DEF Write, PoolTypes
    <3>2. \E h \in {"drain", "select"} : handler' = [handler EXCEPT ![s] = h]
      BY <1>10 DEF Write
    <3> QED BY <1>10, <2>2, <3>1, <3>2 DEF Write, PoolTypes, Laps
  <2> QED BY <2>1, <2>3
<1>11. ASSUME NEW s \in Slot, HandlerExit(s) PROVE PoolInv'
  BY <1>11, ExitPool
<1>12. CASE Answer
  <2>1. Head(asyncq) \in Request /\ Tail(asyncq) \in Seq(Request)
    BY <1>12, PopHead DEF Answer, PoolTypes
  <2>2. PICK k : k = [at |-> "check", slot |-> Head(asyncq).slot,
                      resp |-> Head(asyncq).resp, left |-> 1]
    OBVIOUS
  <2>3. k \in Task /\ k.left = 1
    BY <2>1, <2>2 DEF Request, Task
  <2>4. sender' = [sender EXCEPT ![Async] = k]
    BY <1>12, <2>2 DEF Answer
  <2>5. /\ sender' \in [Threads -> Task] /\ sender'[Async] = k
        /\ \A t \in Threads \ {Async} : sender'[t] = sender[t]
    BY <2>3, <2>4, ThreadNames DEF PoolTypes
  <2>6. Laps'
    BY <2>3, <2>5, ThreadNames DEF Laps
  <2> QED BY <1>12, <2>1, <2>5, <2>6 DEF Answer, PoolTypes, Contexts
<1>13. ASSUME NEW t \in Threads \ {Async, Listener},
              sender' = [sender EXCEPT ![t] = ToEverybody]
       PROVE  sender' \in [Threads -> Task] /\ Laps'
  <2>1. /\ sender' \in [Threads -> Task] /\ sender'[t] = ToEverybody
        /\ \A u \in Threads \ {t} : sender'[u] = sender[u]
    BY <1>13, IdleProps DEF PoolTypes
  <2>2. LapOf(ToEverybody)
    BY IdleProps, PoolAssumption DEF LapOf
  <2> QED BY <2>1, <2>2, ThreadNames DEF Laps
<1>15. CASE Event
  <2>1. sender' \in [Threads -> Task] /\ Laps'
    BY <1>13, <1>15, ThreadNames DEF Event
  <2> QED BY <1>15, <2>1 DEF Event, PoolTypes, Contexts
<1>16. ASSUME NEW s \in Slot, ReadNow(s) PROVE PoolInv'
  <2> DEFINE c == conn[s]
  <2>1. handler[s] = "select" /\ client[c] = "open"
    BY <1>16 DEF ReadNow
  <2>2. c \in Client
    BY <2>1 DEF PoolTypes, Contexts
  <2>3. /\ sent' = [sent EXCEPT ![c] = sent[c] + 1]
        /\ now' = [now EXCEPT ![c] = now[c] \cup {sent[c] + 1}]
        /\ hand' = [hand EXCEPT ![s] = [to |-> c, n |-> sent[c] + 1]]
        /\ \E h \in {"lookup", "reply"} : handler' = [handler EXCEPT ![s] = h]
        /\ UNCHANGED <<client, using, conn, queue, notes, waiting, asyncq, sender, got>>
    BY <1>16 DEF ReadNow
  <2>4. Contexts'
    BY <2>1, <2>3, HandlerMoves DEF PoolTypes
  <2>5. [to |-> c, n |-> sent[c] + 1] \in Resp /\ now[c] \cup {sent[c] + 1} \in SUBSET Nat
    BY <2>2 DEF Resp, PoolTypes
  <2> HIDE DEF c
  <2>6. sent' \in [Client -> Nat] /\ now' \in [Client -> SUBSET Nat]
    BY <2>2, <2>3, <2>5 DEF PoolTypes
  <2>7. /\ hand' \in [Slot -> Resp]
        /\ handler' \in [Slot -> {"none", "queued", "select", "lookup", "reply", "drain",
                                   "write"}]
    BY <2>3, <2>5 DEF PoolTypes
  <2> QED BY <2>3, <2>4, <2>6, <2>7 DEF PoolTypes, Laps
<1>17. ASSUME NEW s \in Slot, Lookup(s) PROVE PoolInv'
  <2>1. Contexts'
    BY <1>17, HandlerMoves DEF Lookup
  <2>2. sender' \in [Threads -> Task] /\ Laps'
    <3>1. CASE sender' = sender
      BY <3>1 DEF PoolTypes, Laps
    <3>2. CASE sender' = [sender EXCEPT ![s] = ToEverybody]
      BY <1>13, <3>2, ThreadNames
    <3> QED BY <1>17, <3>1, <3>2 DEF Lookup
  <2> QED BY <1>17, <2>1, <2>2 DEF Lookup, PoolTypes
<1>18. ASSUME NEW s \in Slot, Reply(s) PROVE PoolInv'
  <2>1. Contexts'
    BY <1>18, HandlerMoves DEF Reply
  <2>2. Idle.resp \in Resp
    BY IdleProps
  <2>3. got' \in [Client -> SUBSET Resp]
    <3>1. got[conn[s]] \cup {hand[s]} \in SUBSET Resp
      BY <1>18 DEF Reply, PoolTypes, Contexts
    <3>2. got' = got \/ got' = [got EXCEPT ![conn[s]] = got[conn[s]] \cup {hand[s]}]
      BY <1>18 DEF Reply
    <3>3. [got EXCEPT ![conn[s]] = got[conn[s]] \cup {hand[s]}] \in [Client -> SUBSET Resp]
      BY <3>1 DEF PoolTypes
    <3> QED BY <3>2, <3>3 DEF PoolTypes
  <2> QED BY <1>18, <2>1, <2>2, <2>3 DEF Reply, PoolTypes, Laps
<1>14. ASSUME NEW t \in Threads, NotifyStep(t) PROVE PoolInv'
  <2>1. sender' \in [Threads -> Task] /\ Laps'
    BY <1>14, NotifyStepProps
  <2>2. sender[t].resp \in Resp
    BY DEF PoolTypes, Task
  <2> DEFINE s == sender[t].slot
  <2>3. s \in Slot /\ Append(queue[s], sender[t].resp) \in Seq(Resp)
    <3>1. s \in Slot
      BY DEF PoolTypes, Task
    <3> HIDE DEF s
    <3> QED BY <3>1, <2>2, PushTail DEF PoolTypes
  <2>4. queue' \in [Slot -> Seq(Resp)] /\ notes' \in [Slot -> Nat]
    <3>1. CASE Check(t)
      BY <3>1 DEF Check, PoolTypes
    <3>2. CASE Push(t)
      <4>1. \/ queue' = [queue EXCEPT ![s] = Append(queue[s], sender[t].resp)]
            \/ queue' = queue
        BY <3>2 DEF Push
      <4>2. notes' = notes
        BY <3>2 DEF Push
      <4> HIDE DEF s
      <4> QED BY <2>3, <4>1, <4>2 DEF PoolTypes
    <3>3. CASE Send(t)
      <4>1. notes' = notes \/ notes' = [notes EXCEPT ![s] = notes[s] + 1]
        BY <3>3 DEF Send
      <4>2. queue' = queue
        BY <3>3 DEF Send
      <4> HIDE DEF s
      <4>3. queue' \in [Slot -> Seq(Resp)]
        BY <4>2 DEF PoolTypes
      <4>4. notes[s] + 1 \in Nat
        BY <2>3 DEF PoolTypes
      <4>5. notes' \in [Slot -> Nat]
        BY <4>1, <4>4 DEF PoolTypes
      <4> QED BY <4>3, <4>5
    <3> QED BY <1>14, <3>1, <3>2, <3>3 DEF NotifyStep
  <2>5. UNCHANGED <<client, sent, now, using, conn, handler, hand, waiting, asyncq, got>>
    BY <1>14 DEF NotifyStep, Check, Push, Send
  <2>6. PoolTypes'
    BY <2>1, <2>4, <2>5 DEF PoolTypes
  <2>7. Contexts'
    BY <2>5 DEF Contexts
  <2> QED BY <2>1, <2>6, <2>7
<1> QED BY <1>1, <1>2, <1>3, <1>4, <1>5, <1>6, <1>7, <1>8, <1>9, <1>10, <1>11, <1>12,
           <1>14, <1>15, <1>16, <1>17, <1>18 DEF Next, HandlerStep

-----------------------------------------------------------------------------
(* Replies given at once. *)

(* A handler notifies only before it replies; what it replies with answers *)
(* the last request of its connection, which is one that is answered at    *)
(* once.                                                                   *)
ReplyOf(s, h, r, cn, m, w) ==
  h[s] \in {"lookup", "reply"} =>
    r[s].to = cn[s] /\ r[s].n = m[cn[s]] /\ r[s].n \in w[cn[s]]

Replies ==
  /\ \A s \in Slot : sender[s].at # "idle" => handler[s] = "reply"
  /\ \A s \in Slot : ReplyOf(s, handler, hand, conn, sent, now)
  /\ \A c \in Client : now[c] \subseteq 1..sent[c]

LEMMA RepliesNext ==
  ASSUME PoolInv, Replies, [Next]_vars
  PROVE  Replies'
<1> USE DEF clientv, slotv, loss
<1>0. PoolTypes /\ Contexts
  BY DEF PoolInv
<1>1. ASSUME UNCHANGED <<sent, now>>,
             \A s \in Slot : sender'[s].at # "idle" => sender[s].at # "idle",
             \A s \in Slot : handler'[s] = handler[s] /\ hand'[s] = hand[s] /\ conn'[s] = conn[s]
      PROVE  Replies'
  BY <1>1 DEF Replies, ReplyOf
<1>2. ASSUME UNCHANGED <<sent, now>>, NEW x \in Slot,
             \A s \in Slot : sender'[s].at # "idle" => sender[s].at # "idle",
             handler[x] # "reply" \/ sender[x].at = "idle",
             handler'[x] \notin {"lookup", "reply"},
             \A s \in Slot \ {x} :
               handler'[s] = handler[s] /\ hand'[s] = hand[s] /\ conn'[s] = conn[s]
      PROVE  Replies'
  BY <1>2 DEF Replies, ReplyOf
<1>3. CASE UNCHANGED vars
  BY <1>1, <1>3 DEF vars
<1>4. ASSUME NEW c \in Client, Accept(c) PROVE Replies'
  <2>1. PICK x \in Slot :
          /\ ~using[x] /\ conn' = [conn EXCEPT ![x] = c]
          /\ handler' = [handler EXCEPT ![x] = "queued"]
          /\ \E k : sender' = [sender EXCEPT ![Listener] = k]
    BY <1>4 DEF Accept
  <2>2. UNCHANGED <<sent, now, hand>>
    BY <1>4 DEF Accept
  <2>3. \A s \in Slot : sender'[s] = sender[s]
    BY <2>1, <1>0, ThreadNames DEF PoolTypes
  <2>4. handler[x] = "none"
    BY <2>1, <1>0 DEF Contexts
  <2>5. /\ handler'[x] = "queued"
        /\ \A s \in Slot \ {x} : handler'[s] = handler[s] /\ conn'[s] = conn[s]
    BY <2>1, <1>0 DEF PoolTypes
  <2> QED BY <2>2, <2>3, <2>4, <2>5, <1>2
<1>5. ASSUME NEW c \in Client, Refuse(c) \/ ClientClose(c) PROVE Replies'
  BY <1>5, <1>1 DEF Refuse, ClientClose
<1>6. CASE Report \/ Event \/ Answer
  <2>1. /\ \E k : \E t \in {Async, Driver, Listener} : sender' = [sender EXCEPT ![t] = k]
        /\ UNCHANGED <<sent, now, handler, hand, conn>>
    BY <1>6 DEF Report, Event, Answer
  <2>2. \A s \in Slot : sender'[s] = sender[s]
    BY <2>1, <1>0, ThreadNames DEF PoolTypes
  <2> QED BY <2>1, <2>2, <1>1
<1>7. CASE PoolStart
  <2>1. /\ waiting # <<>> /\ handler' = [handler EXCEPT ![Head(waiting)] = "select"]
        /\ UNCHANGED <<sent, now, hand, conn, sender>>
    BY <1>7 DEF PoolStart
  <2>2. Head(waiting) = waiting[1] /\ 1 \in DOMAIN waiting /\ Head(waiting) \in Slot
    BY <2>1, <1>0, PopHead, LenProperties DEF PoolTypes
  <2>3. handler[Head(waiting)] = "queued"
    BY <2>2, <1>0 DEF Contexts
  <2> PICK x : x = Head(waiting)
    OBVIOUS
  <2>4. /\ x \in Slot /\ handler[x] = "queued" /\ handler'[x] = "select"
        /\ \A s \in Slot \ {x} : handler'[s] = handler[s]
    BY <2>1, <2>2, <2>3, <1>0 DEF PoolTypes
  <2> QED BY <2>1, <2>4, <1>2
<1>8. ASSUME NEW x \in Slot, handler[x] = "select", conn[x] \in Client, conn' = conn,
             sent' = [sent EXCEPT ![conn[x]] = sent[conn[x]] + 1],
             now' = now \/ now' = [now EXCEPT ![conn[x]] = now[conn[x]] \cup {sent[conn[x]] + 1}]
      PROVE  /\ \A c \in Client : now'[c] \subseteq 1..sent'[c]
             /\ \A s \in Slot \ {x} : handler[s] \in {"lookup", "reply"} =>
                  sent'[conn[s]] = sent[conn[s]] /\ now'[conn[s]] = now[conn[s]]
  <2>1. ASSUME NEW c \in Client PROVE now'[c] \subseteq 1..sent'[c]
    <3>1. now[c] \subseteq 1..sent[c] /\ sent[c] \in Nat
      BY <1>0 DEF Replies, PoolTypes
    <3>2. CASE c = conn[x]
      <4>1. sent'[c] = sent[c] + 1
        BY <3>2, <1>0, <1>8 DEF PoolTypes
      <4>2. now'[c] \subseteq now[c] \cup {sent[c] + 1}
        BY <3>2, <1>0, <1>8 DEF PoolTypes
      <4> QED BY <3>1, <4>1, <4>2
    <3>3. CASE c # conn[x]
      BY <3>1, <3>3, <1>0, <1>8 DEF PoolTypes
    <3> QED BY <3>2, <3>3
  <2>2. ASSUME NEW s \in Slot \ {x}, handler[s] \in {"lookup", "reply"}
        PROVE  sent'[conn[s]] = sent[conn[s]] /\ now'[conn[s]] = now[conn[s]]
    <3>1. using[s] /\ using[x]
      BY <2>2, <1>8, <1>0 DEF Contexts
    <3>2. conn[s] # conn[x] /\ conn[s] \in Client
      BY <2>2, <3>1, <1>0 DEF PoolTypes, Contexts
    <3> QED BY <3>2, <1>0, <1>8 DEF PoolTypes
  <2> QED BY <2>1, <2>2
<1>9. ASSUME NEW x \in Slot, ReadRequest(x) PROVE Replies'
  <2>1. /\ handler[x] = "select" /\ client[conn[x]] = "open" /\ conn' = conn /\ now' = now
        /\ sent' = [sent EXCEPT ![conn[x]] = sent[conn[x]] + 1]
        /\ UNCHANGED <<handler, hand, sender>>
    BY <1>9 DEF ReadRequest
  <2>2. conn[x] \in Client
    BY <2>1, <1>0 DEF PoolTypes, Contexts
  <2> QED BY <2>1, <2>2, <1>8 DEF Replies, ReplyOf
<1>10. ASSUME NEW x \in Slot, ReadNow(x) PROVE Replies'
  <2>1. /\ handler[x] = "select" /\ client[conn[x]] = "open" /\ conn' = conn
        /\ sent' = [sent EXCEPT ![conn[x]] = sent[conn[x]] + 1]
        /\ now' = [now EXCEPT ![conn[x]] = now[conn[x]] \cup {sent[conn[x]] + 1}]
        /\ hand' = [hand EXCEPT ![x] = [to |-> conn[x], n |-> sent[conn[x]] + 1]]
        /\ \E h : handler' = [handler EXCEPT ![x] = h]
        /\ sender' = sender
    BY <1>10 DEF ReadNow
  <2>2. conn[x] \in Client
    BY <2>1, <1>0 DEF PoolTypes, Contexts
  <2>3. /\ \A c \in Client : now'[c] \subseteq 1..sent'[c]
        /\ \A s \in Slot \ {x} : handler[s] \in {"lookup", "reply"} =>
             sent'[conn[s]] = sent[conn[s]] /\ now'[conn[s]] = now[conn[s]]
    BY <2>1, <2>2, <1>8
  <2>4. \A s \in Slot \ {x} : handler'[s] = handler[s] /\ hand'[s] = hand[s]
    BY <2>1, <1>0 DEF PoolTypes
  <2>5. hand'[x].to = conn[x] /\ hand'[x].n = sent'[conn[x]] /\ hand'[x].n \in now'[conn[x]]
    <3>1. hand'[x] = [to |-> conn[x], n |-> sent[conn[x]] + 1]
      BY <2>1, <1>0 DEF PoolTypes
    <3>2. sent'[conn[x]] = sent[conn[x]] + 1 /\ sent[conn[x]] + 1 \in now'[conn[x]]
      BY <2>1, <2>2, <1>0 DEF PoolTypes
    <3> QED BY <3>1, <3>2
  <2>6. \A s \in Slot : sender[s].at # "idle" => s # x
    BY <2>1 DEF Replies
  <2> QED BY <2>1, <2>3, <2>4, <2>5, <2>6 DEF Replies, ReplyOf
<1>11. ASSUME NEW x \in Slot, Lookup(x) PROVE Replies'
  <2>1. /\ handler[x] = "lookup" /\ handler' = [handler EXCEPT ![x] = "reply"]
        /\ sender' = sender \/ sender' = [sender EXCEPT ![x] = ToEverybody]
        /\ UNCHANGED <<sent, now, hand, conn>>
    BY <1>11 DEF Lookup
  <2>2. /\ handler'[x] = "reply"
        /\ \A s \in Slot \ {x} : handler'[s] = handler[s] /\ sender'[s] = sender[s]
    BY <2>1, <1>0, ThreadNames DEF PoolTypes
  <2> QED BY <2>1, <2>2 DEF Replies, ReplyOf
<1>12. ASSUME NEW x \in Slot,
              Reply(x) \/ Notified(x) \/ Pop(x) \/ Write(x) \/ Drained(x) \/ HandlerExit(x)
       PROVE  Replies'
  <2>1. /\ handler[x] # "reply" \/ sender[x].at = "idle"
        /\ \E h \in {"select", "drain", "write", "none"} : handler' = [handler EXCEPT ![x] = h]
        /\ hand' = hand \/ \E r : hand' = [hand EXCEPT ![x] = r]
        /\ conn' = conn \/ conn' = [conn EXCEPT ![x] = NoConn]
        /\ UNCHANGED <<sent, now, sender>>
    BY <1>12 DEF Reply, Notified, Pop, Write, Drained, HandlerExit
  <2>2. /\ handler'[x] \notin {"lookup", "reply"}
        /\ \A s \in Slot \ {x} :
             handler'[s] = handler[s] /\ hand'[s] = hand[s] /\ conn'[s] = conn[s]
    BY <2>1, <1>0 DEF PoolTypes
  <2> QED BY <2>1, <2>2, <1>2
<1>13. ASSUME NEW t \in Threads, NotifyStep(t) PROVE Replies'
  <2>1. /\ \A u \in Threads \ {t} : sender'[u] = sender[u]
        /\ sender[t].at # "idle"
    BY <1>13, NotifyStepProps
  <2>2. UNCHANGED <<sent, now, handler, hand, conn>>
    BY <1>13 DEF NotifyStep, Check, Push, Send
  <2>3. \A s \in Slot : sender'[s].at # "idle" => sender[s].at # "idle"
    BY <2>1, ThreadNames
  <2> QED BY <2>2, <2>3, <1>1
<1> QED BY <1>3, <1>4, <1>5, <1>6, <1>7, <1>9, <1>10, <1>11, <1>12, <1>13
        DEF Next, HandlerStep

-----------------------------------------------------------------------------
(* Whom a response is for. *)

(* Response r may be in context s: it is for everybody, for the connection *)
(* that has the context, or for one that is gone.                          *)
Addressed(cn, cl, s, r) ==
  \/ r.to = Everybody
  \/ r.to \in Client /\ (cn[s] = r.to \/ cl[r.to] = "closed")

Mail ==
  /\ \A s \in Slot : \A r \in ToSet(queue[s]) : Addressed(conn, client, s, r)
  /\ \A s \in Slot : handler[s] \in {"write", "lookup", "reply"} =>
       Addressed(conn, client, s, hand[s])
  /\ \A t \in Threads :
       sender[t].at # "idle" => Addressed(conn, client, sender[t].slot, sender[t].resp)
  /\ \A x \in ToSet(asyncq) : Addressed(conn, client, x.slot, x.resp)

MailInv == PoolInv /\ Replies /\ Mail

(* A context changes hands only when its connection is gone. *)
LEMMA AddressedKept ==
  ASSUME PoolInv, [Next]_vars, NEW s \in Slot, NEW r, Addressed(conn, client, s, r)
  PROVE  Addressed(conn', client', s, r)
<1> USE DEF PoolInv, PoolTypes
<1>1. ASSUME r.to \in Client, client[r.to] = "closed"
      PROVE  client'[r.to] = "closed"
  <2>1. ASSUME NEW c \in Client, Accept(c) \/ Refuse(c) \/ ClientClose(c)
        PROVE  client'[r.to] = "closed"
    <3>1. client[c] # "closed"
      BY <2>1 DEF Accept, Refuse, ClientClose
    <3>2. \E x \in {"open", "closed"} : client' = [client EXCEPT ![c] = x]
      BY <2>1 DEF Accept, Refuse, ClientClose
    <3> QED BY <3>1, <3>2, <1>1
  <2>2. CASE client' = client
    BY <1>1, <2>2
  <2> QED BY <2>1, <2>2
          DEF Next, vars, clientv, Report, PoolStart, ReadRequest, ReadNow,
              HandlerStep, Lookup, Reply, Notified, Pop, Write, Drained, HandlerExit, Answer,
              Event, NotifyStep, Check, Push, Send
<1>2. ASSUME r.to \in Client, conn[s] = r.to, client[r.to] # "closed"
      PROVE  conn'[s] = r.to
  <2>1. ASSUME NEW c \in Client, Accept(c)
        PROVE  conn'[s] = r.to
    <3>1. PICK x \in Slot : ~using[x] /\ conn' = [conn EXCEPT ![x] = c]
      BY <2>1 DEF Accept
    <3>2. s # x
      BY <1>2, <3>1, PoolAssumption DEF Contexts, NoConn
    <3> QED BY <1>2, <3>1, <3>2
  <2>2. ASSUME NEW x \in Slot, HandlerExit(x)
        PROVE  conn'[s] = r.to
    BY <1>2, <2>2 DEF HandlerExit
  <2>3. CASE conn' = conn
    BY <1>2, <2>3
  <2> QED BY <2>1, <2>2, <2>3
          DEF Next, vars, slotv, Refuse, ClientClose, Report, PoolStart, ReadRequest,
              ReadNow, HandlerStep, Lookup, Reply, Notified, Pop, Write, Drained, Answer,
              Event, NotifyStep, Check, Push, Send
<1> QED BY <1>1, <1>2 DEF Addressed

LEMMA MailInvInit == Init => MailInv
<1> SUFFICES ASSUME Init PROVE MailInv
  OBVIOUS
<1>1. ToSet(<<>>) = {}
  BY DEF ToSet
<1>2. /\ \A s \in Slot : queue[s] = <<>> /\ handler[s] = "none"
      /\ asyncq = <<>> /\ \A t \in Threads : sender[t].at = "idle"
  BY DEF Init, Idle
<1>3. Replies
  BY ThreadNames, IdleProps DEF Init, Replies, ReplyOf
<1> QED BY <1>1, <1>2, <1>3, PoolInvInit DEF MailInv, Mail

LEMMA MailInvNext == MailInv /\ [Next]_vars => MailInv'
<1> SUFFICES ASSUME MailInv, [Next]_vars PROVE Mail'
  BY PoolInvNext, RepliesNext DEF MailInv
<1> USE DEF MailInv
<1>0. PoolInv /\ PoolTypes /\ PoolInv'
  BY PoolInvNext DEF PoolInv
<1>1. \A s \in Slot : \A r :
        Addressed(conn, client, s, r) => Addressed(conn', client', s, r)
  BY <1>0, AddressedKept
<1>2. ASSUME \A s \in Slot : \A r \in ToSet(queue'[s]) :
               r \in ToSet(queue[s]) \/ Addressed(conn', client', s, r)
      PROVE  \A s \in Slot : \A r \in ToSet(queue'[s]) : Addressed(conn', client', s, r)
  BY <1>1, <1>2 DEF Mail
<1>3. ASSUME \A s \in Slot : handler'[s] \in {"write", "lookup", "reply"} =>
               \/ handler[s] \in {"write", "lookup", "reply"} /\ hand'[s] = hand[s]
               \/ Addressed(conn', client', s, hand'[s])
      PROVE  \A s \in Slot : handler'[s] \in {"write", "lookup", "reply"} =>
               Addressed(conn', client', s, hand'[s])
  BY <1>1, <1>3 DEF Mail
<1>4. ASSUME \A t \in Threads : sender'[t].at # "idle" =>
               \/ /\ sender[t].at # "idle" /\ sender'[t].resp = sender[t].resp
                  /\ sender'[t].slot = sender[t].slot
               \/ Addressed(conn', client', sender'[t].slot, sender'[t].resp)
      PROVE  \A t \in Threads :
               sender'[t].at # "idle" =>
                 Addressed(conn', client', sender'[t].slot, sender'[t].resp)
  <2>1. \A t \in Threads : sender[t].slot \in Slot
    BY <1>0 DEF PoolTypes, Task
  <2> QED BY <1>1, <1>4, <2>1 DEF Mail
<1>5. ASSUME \A x \in ToSet(asyncq') :
               x \in ToSet(asyncq) \/ Addressed(conn', client', x.slot, x.resp)
      PROVE  \A x \in ToSet(asyncq') : Addressed(conn', client', x.slot, x.resp)
  <2>1. \A x \in ToSet(asyncq) : x.slot \in Slot
    <3>1. ToSet(asyncq) \in SUBSET Request
      BY <1>0, ToSetProps DEF PoolTypes
    <3> QED BY <3>1 DEF Request
  <2> QED BY <1>1, <1>5, <2>1 DEF Mail
<1>6. ASSUME UNCHANGED <<queue, hand, asyncq, sender>>,
             \A s \in Slot : handler'[s] \in {"write", "lookup", "reply"} =>
               handler[s] \in {"write", "lookup", "reply"}
      PROVE  Mail'
  BY <1>2, <1>3, <1>4, <1>5, <1>6 DEF Mail
<1>7. ASSUME UNCHANGED <<queue, hand, asyncq, handler>>,
             \A t \in Threads : sender'[t].at # "idle" =>
               \/ /\ sender[t].at # "idle" /\ sender'[t].resp = sender[t].resp
                  /\ sender'[t].slot = sender[t].slot
               \/ Addressed(conn', client', sender'[t].slot, sender'[t].resp)
      PROVE  Mail'
  BY <1>2, <1>3, <1>4, <1>5, <1>7 DEF Mail
<1> USE DEF clientv, slotv, loss
<1>8. ASSUME NEW c \in Client, Accept(c) PROVE Mail'
  <2>1. PICK s \in Slot :
          /\ conn' = [conn EXCEPT ![s] = c]
          /\ handler' = [handler EXCEPT ![s] = "queued"]
          /\ sender' = [sender EXCEPT ![Listener].at = "sleep",
                                      ![Listener].slot = s,
                                      ![Listener].resp.to = c]
    BY <1>8 DEF Accept
  <2>2. UNCHANGED <<queue, hand, asyncq>>
    BY <1>8 DEF Accept
  <2>3. /\ sender'[Listener].slot = s /\ sender'[Listener].resp.to = c
        /\ \A t \in Threads \ {Listener} : sender'[t] = sender[t]
    <3>1. sender[Listener] \in Task
      BY <1>0, ThreadNames DEF PoolTypes
    <3>2. PICK k : k = [sender[Listener] EXCEPT !.at = "sleep", !.slot = s, !.resp.to = c]
      OBVIOUS
    <3>3. k.slot = s /\ k.resp.to = c
      BY <3>1, <3>2 DEF Task, Resp
    <3>4. sender' = [sender EXCEPT ![Listener] = k]
      BY <2>1, <3>2
    <3> QED BY <3>3, <3>4, <1>0, ThreadNames DEF PoolTypes
  <2>4. Addressed(conn', client', sender'[Listener].slot, sender'[Listener].resp)
    BY <2>1, <2>3, <1>0 DEF Addressed, PoolTypes
  <2>5. \A x \in Slot : handler'[x] \in {"write", "lookup", "reply"} =>
          handler[x] \in {"write", "lookup", "reply"}
    BY <2>1, <1>0 DEF PoolTypes
  <2> QED BY <2>2, <2>3, <2>4, <2>5, <1>2, <1>3, <1>4, <1>5 DEF Mail
<1>9. CASE Report
  <2>1. \/ sender' = [sender EXCEPT ![Listener] = Idle]
        \/ sender' = [sender EXCEPT ![Listener] =
                        [sender[Listener] EXCEPT !.at = "check", !.left = Devs]]
    BY <1>9 DEF Report
  <2>2. sender[Listener] \in Task /\ Listener \in Threads
    BY <1>0, ThreadNames DEF PoolTypes
  <2>3. /\ sender'[Listener].at # "idle" =>
             /\ sender'[Listener].resp = sender[Listener].resp
             /\ sender'[Listener].slot = sender[Listener].slot
        /\ \A t \in Threads \ {Listener} : sender'[t] = sender[t]
    <3>1. CASE sender' = [sender EXCEPT ![Listener] = Idle]
      BY <3>1, <2>2, <1>0, IdleProps DEF PoolTypes
    <3>2. CASE sender' = [sender EXCEPT ![Listener] =
                            [sender[Listener] EXCEPT !.at = "check", !.left = Devs]]
      <4>1. /\ sender'[Listener]
                 = [sender[Listener] EXCEPT !.at = "check", !.left = Devs]
            /\ \A t \in Threads \ {Listener} : sender'[t] = sender[t]
        BY <3>2, <2>2, <1>0 DEF PoolTypes
      <4> QED BY <4>1, <2>2 DEF Task
    <3> QED BY <2>1, <3>1, <3>2
  <2>4. UNCHANGED <<queue, hand, asyncq, handler>> /\ sender[Listener].at # "idle"
    BY <1>9 DEF Report
  <2> QED BY <2>3, <2>4, <1>7
<1>10. CASE PoolStart
  BY <1>10, <1>6, <1>0 DEF PoolStart, PoolTypes
<1>11. ASSUME NEW s \in Slot, ReadRequest(s) PROVE Mail'
  <2> DEFINE r == [slot |-> s, resp |-> [to |-> conn[s], n |-> sent[conn[s]] + 1]]
  <2>1. handler[s] = "select" /\ conn[s] \in Client /\ conn' = conn
    BY ZenonT(60), <1>11, <1>0 DEF ReadRequest, PoolInv, PoolTypes, Contexts
  <2>2. r \in Request /\ r.slot = s /\ r.resp.to = conn[s]
    BY <2>1, <1>0 DEF Request, Resp, PoolTypes
  <2>3. asyncq' = Append(asyncq, r)
    BY <1>11 DEF ReadRequest
  <2> HIDE DEF r
  <2>4. ToSet(asyncq') = ToSet(asyncq) \cup {r}
    BY <2>2, <2>3, <1>0, PushTail DEF PoolTypes
  <2>5. Addressed(conn', client', r.slot, r.resp)
    BY <2>1, <2>2 DEF Addressed
  <2>6. UNCHANGED <<queue, handler, hand, sender>>
    BY <1>11 DEF ReadRequest
  <2> QED BY <2>4, <2>5, <2>6, <1>2, <1>3, <1>4, <1>5 DEF Mail
<1>12. ASSUME NEW s \in Slot, Drained(s) \/ Notified(s) \/ HandlerExit(s)
       PROVE  Mail'
  BY <1>12, <1>6, <1>0 DEF Drained, Notified, HandlerExit, PoolTypes
<1>20. ASSUME NEW s \in Slot, ReadNow(s) PROVE Mail'
  <2>1. /\ handler[s] = "select" /\ conn' = conn
        /\ hand' = [hand EXCEPT ![s] = [to |-> conn[s], n |-> sent[conn[s]] + 1]]
        /\ \E h : handler' = [handler EXCEPT ![s] = h]
        /\ UNCHANGED <<queue, sender, asyncq>>
    BY <1>20 DEF ReadNow
  <2>2. conn[s] \in Client
    BY <2>1, <1>0 DEF PoolInv, PoolTypes, Contexts
  <2>3. hand'[s].to = conn'[s]
    BY <2>1, <1>0 DEF PoolTypes
  <2>4. Addressed(conn', client', s, hand'[s])
    BY <2>1, <2>2, <2>3 DEF Addressed
  <2>5. \A x \in Slot : x # s => hand'[x] = hand[x] /\ handler'[x] = handler[x]
    BY <2>1, <1>0 DEF PoolTypes
  <2> QED BY <2>1, <2>4, <2>5, <1>2, <1>3, <1>4, <1>5 DEF Mail
<1>21. ASSUME NEW s \in Slot, Lookup(s) PROVE Mail'
  <2>1. \A x \in Slot : handler'[x] \in {"write", "lookup", "reply"} =>
          handler[x] \in {"write", "lookup", "reply"}
    BY <1>21, <1>0 DEF Lookup, PoolTypes
  <2>2. \A t \in Threads : sender'[t] = sender[t] \/ sender'[t] = ToEverybody
    BY <1>21, <1>0 DEF Lookup, PoolTypes
  <2>3. ToEverybody.resp.to = Everybody
    BY IdleProps
  <2>4. UNCHANGED <<queue, hand, asyncq>>
    BY <1>21 DEF Lookup
  <2> QED BY <2>1, <2>2, <2>3, <2>4, <1>2, <1>3, <1>4, <1>5 DEF Mail, Addressed
<1>22. ASSUME NEW s \in Slot, Reply(s) PROVE Mail'
  <2>1. /\ handler' = [handler EXCEPT ![s] = "select"]
        /\ hand' = [hand EXCEPT ![s] = Idle.resp] /\ UNCHANGED <<queue, sender, asyncq>>
    BY <1>22 DEF Reply
  <2>2. \A x \in Slot : handler'[x] \in {"write", "lookup", "reply"} =>
          handler[x] \in {"write", "lookup", "reply"} /\ hand'[x] = hand[x]
    BY <2>1, <1>0 DEF PoolTypes
  <2> QED BY <2>1, <2>2, <1>2, <1>3, <1>4, <1>5 DEF Mail
<1>13. ASSUME NEW s \in Slot, Pop(s) PROVE Mail'
  <2>1. /\ ToSet(queue[s]) = {Head(queue[s])} \cup ToSet(Tail(queue[s]))
    BY <1>13, <1>0, PopHead DEF Pop, PoolTypes
  <2>2. /\ queue' = [queue EXCEPT ![s] = Tail(queue[s])]
        /\ hand' = [hand EXCEPT ![s] = Head(queue[s])]
        /\ handler' = [handler EXCEPT ![s] = "write"]
        /\ UNCHANGED <<sender, asyncq>>
    BY <1>13 DEF Pop
  <2>3. Addressed(conn', client', s, Head(queue[s]))
    BY <2>1, <1>1 DEF Mail
  <2>4. \A x \in Slot : x # s =>
          queue'[x] = queue[x] /\ hand'[x] = hand[x] /\ handler'[x] = handler[x]
    BY <2>2, <1>0 DEF PoolTypes
  <2>5. queue'[s] = Tail(queue[s]) /\ hand'[s] = Head(queue[s])
    BY <2>2, <1>0 DEF PoolTypes
  <2> QED BY <2>1, <2>2, <2>3, <2>4, <2>5, <1>2, <1>3, <1>4, <1>5 DEF Mail
<1>14. ASSUME NEW s \in Slot, Write(s) PROVE Mail'
  <2>1. \E h \in {"drain", "select"} : handler' = [handler EXCEPT ![s] = h]
    BY <1>14 DEF Write
  <2>2. hand' = [hand EXCEPT ![s] = Idle.resp] /\ UNCHANGED <<queue, sender, asyncq>>
    BY <1>14 DEF Write
  <2>3. \A x \in Slot : handler'[x] \in {"write", "lookup", "reply"} =>
          handler[x] \in {"write", "lookup", "reply"} /\ hand'[x] = hand[x]
    BY <2>1, <2>2, <1>0 DEF PoolTypes
  <2> QED BY <2>2, <2>3, <1>2, <1>3, <1>4, <1>5 DEF Mail
<1>15. CASE Answer
  <2>1. /\ Head(asyncq) \in ToSet(asyncq)
        /\ ToSet(Tail(asyncq)) \subseteq ToSet(asyncq)
        /\ Head(asyncq) \in Request
    BY <1>15, <1>0, PopHead DEF Answer, PoolTypes
  <2> DEFINE a == [at |-> "check", slot |-> Head(asyncq).slot,
                   resp |-> Head(asyncq).resp, left |-> 1]
  <2>2. /\ sender' = [sender EXCEPT ![Async] = a]
        /\ asyncq' = Tail(asyncq) /\ UNCHANGED <<queue, handler, hand>>
    BY <1>15 DEF Answer
  <2>3. Addressed(conn', client', a.slot, a.resp)
    BY <2>1, <1>1 DEF Mail, Request
  <2>4. \A t \in Threads : sender'[t] = IF t = Async THEN a ELSE sender[t]
    BY <2>2, <1>0 DEF PoolTypes
  <2> HIDE DEF a
  <2> QED BY <2>1, <2>2, <2>3, <2>4, <1>2, <1>3, <1>4, <1>5 DEF Mail
<1>16. CASE Event
  <2>1. sender' = [sender EXCEPT ![Driver] = ToEverybody]
    BY <1>16 DEF Event
  <2>2. /\ sender'[Driver].resp.to = Everybody
        /\ \A t \in Threads \ {Driver} : sender'[t] = sender[t]
    BY <2>1, <1>0, ThreadNames, IdleProps DEF PoolTypes
  <2> QED BY <1>16, <2>2, <1>7 DEF Event, Addressed
<1>17. ASSUME NEW t \in Threads, NotifyStep(t) PROVE Mail'
  <2>1. /\ \A u \in Threads \ {t} : sender'[u] = sender[u]
        /\ sender[t].at # "idle"
        /\ sender'[t].at # "idle" =>
             /\ sender'[t].resp = sender[t].resp
             /\ sender[t].resp.to # Everybody => sender'[t].slot = sender[t].slot
    BY <1>17, <1>0, NotifyStepProps
  <2>2. UNCHANGED <<handler, hand, asyncq>>
    BY <1>17 DEF NotifyStep, Check, Push, Send
  <2>3. sender'[t].at # "idle" /\ sender[t].resp.to = Everybody =>
          Addressed(conn', client', sender'[t].slot, sender'[t].resp)
    BY <2>1 DEF Addressed
  <2>4. \A s \in Slot : \A r \in ToSet(queue'[s]) :
          \/ r \in ToSet(queue[s])
          \/ s = sender[t].slot /\ r = sender[t].resp
    <3>1. sender[t].slot \in Slot /\ sender[t].resp \in Resp
      BY <1>0 DEF PoolTypes, Task
    <3>2. \A s \in Slot : ToSet(Append(queue[s], sender[t].resp))
                            = ToSet(queue[s]) \cup {sender[t].resp}
      BY <3>1, <1>0, PushTail DEF PoolTypes
    <3>3. \/ queue' = queue
          \/ queue' = [queue EXCEPT ![sender[t].slot] =
                          Append(queue[sender[t].slot], sender[t].resp)]
      BY <1>17 DEF NotifyStep, Check, Push, Send
    <3> DEFINE d == sender[t].slot
               a == Append(queue[d], sender[t].resp)
    <3>4. queue' = queue \/ queue' = [queue EXCEPT ![d] = a]
      BY <3>3
    <3>5. d \in Slot /\ ToSet(a) = ToSet(queue[d]) \cup {sender[t].resp}
      BY <3>1, <3>2
    <3> HIDE DEF d, a
    <3>6. \A s \in Slot : queue'[s] = queue[s] \/ (s = d /\ queue'[s] = a)
      BY <3>4, <3>5, <1>0 DEF PoolTypes
    <3> QED BY <3>5, <3>6 DEF d
  <2>5. sender[t].slot \in Slot /\ Addressed(conn, client, sender[t].slot, sender[t].resp)
    BY <2>1, <1>0 DEF Mail, PoolTypes, Task
  <2>6. \A s \in Slot : \A r \in ToSet(queue'[s]) : Addressed(conn', client', s, r)
    BY <2>4, <2>5, <1>1, <1>2
  <2> QED BY <2>1, <2>2, <2>3, <2>6, <1>3, <1>4, <1>5 DEF Mail
<1>18. ASSUME NEW c \in Client, Refuse(c) \/ ClientClose(c) PROVE Mail'
  BY <1>18, <1>6 DEF Refuse, ClientClose
<1>19. CASE UNCHANGED vars
  BY <1>19, <1>6 DEF vars
<1> QED BY <1>8, <1>9, <1>10, <1>11, <1>12, <1>13, <1>14, <1>15, <1>16, <1>17, <1>18,
           <1>19, <1>20, <1>21, <1>22 DEF Next, HandlerStep

(* A client receives what is meant for another connection only if that one *)
(* is gone: contexts are reused with what is left in their queues.         *)
THEOREM StrangersAreGone == Spec => OthersOnlyFromTheGone
<1>1. ASSUME MailInv, NEW c \in Client, NEW r \in got'[c] \ got[c], Next,
             r.to \notin {c, Everybody}
      PROVE  client[r.to] = "closed"
  <2>1. PICK s \in Slot : Write(s) \/ Reply(s)
    BY <1>1 DEF Next, clientv, Accept, Refuse, ClientClose, Report, PoolStart,
                ReadRequest, ReadNow, HandlerStep, Lookup, Notified, Pop, Drained,
                HandlerExit, Answer, Event, NotifyStep, Check, Push, Send
  <2>2. /\ handler[s] \in {"write", "reply"}
        /\ \/ got' = [got EXCEPT ![conn[s]] = got[conn[s]] \cup {hand[s]}]
           \/ got' = [got EXCEPT ![conn[s]] = got[conn[s]] \cup ({hand[s]} \ {Idle.resp})]
           \/ got' = got
    BY <2>1 DEF Write, Reply
  <2>3. r = hand[s] /\ c = conn[s]
    BY <1>1, <2>2 DEF MailInv, PoolInv, PoolTypes
  <2>4. Addressed(conn, client, s, r)
    BY <1>1, <2>2, <2>3 DEF MailInv, Mail
  <2> QED BY <1>1, <2>3, <2>4 DEF Addressed
<1>2. MailInv /\ [Next]_vars
        => [\A c \in Client : \A r \in got'[c] \ got[c] :
              r.to \notin {c, Everybody} => client[r.to] = "closed"]_vars
  BY <1>1
<1> QED BY <1>2, MailInvInit, MailInvNext, PTL DEF Spec, OthersOnlyFromTheGone

-----------------------------------------------------------------------------
(* A handler does not sleep on an answer. *)

(* The handler of context s has, or will first have, to look at its socket *)
(* to find what is queued for its client.                                  *)
Due(s) ==
  /\ handler[s] \in {"queued", "select", "lookup", "reply"}
  /\ client[conn[s]] = "open"
  /\ \E r \in ToSet(queue[s]) : r.to = conn[s]

Told(s) ==
  notes[s] > 0 \/ \E t \in Threads : sender[t].at = "send" /\ sender[t].slot = s

AwakeInv == MailInv /\ \A s \in Slot : Due(s) => Told(s)

LEMMA AwakeInvNext == AwakeInv /\ [Next]_vars => AwakeInv'
<1> SUFFICES ASSUME AwakeInv, [Next]_vars, NEW s \in Slot, Due(s)' PROVE Told(s)'
  BY MailInvNext DEF AwakeInv
<1> USE DEF AwakeInv, clientv, slotv, loss
<1>0. PoolInv /\ PoolTypes /\ Contexts /\ Mail /\ Replies
  BY DEF MailInv, PoolInv
<1>1. ASSUME Due(s), UNCHANGED notes,
             \A t \in Threads : sender[t].at = "send" => sender'[t] = sender[t]
      PROVE  Told(s)'
  BY <1>1 DEF Told
<1>2. ASSUME UNCHANGED <<queue, conn, notes, sender>>, client'[conn[s]] = client[conn[s]],
             handler[s] \in {"queued", "select", "lookup", "reply"}
      PROVE  Told(s)'
  BY <1>1, <1>2 DEF Due
<1>3. CASE UNCHANGED vars
  BY <1>3, <1>2 DEF vars, Due
<1>4. ASSUME NEW c \in Client, Accept(c) PROVE Told(s)'
  <2>1. PICK x \in Slot :
          /\ ~using[x] /\ client[c] = "new"
          /\ conn' = [conn EXCEPT ![x] = c]
          /\ notes' = [notes EXCEPT ![x] = 0]
          /\ handler' = [handler EXCEPT ![x] = "queued"]
          /\ sender[Listener].at = "idle"
          /\ sender' = [sender EXCEPT ![Listener].at = "sleep",
                                      ![Listener].slot = x,
                                      ![Listener].resp.to = c]
          /\ client' = [client EXCEPT ![c] = "open"] /\ queue' = queue
    BY <1>4 DEF Accept
  <2>2. CASE s = x
    <3>1. PICK r \in ToSet(queue[s]) : r.to = c
      BY <2>1, <2>2, <1>0 DEF Due, PoolTypes
    <3>2. Addressed(conn, client, s, r) /\ conn[s] = NoConn
      BY <2>1, <2>2, <1>0 DEF Mail, Contexts
    <3> QED BY <3>1, <3>2, <2>1, PoolAssumption DEF Addressed, Everybody, NoConn
  <2>3. CASE s # x
    <3>1. conn'[s] = conn[s] /\ notes'[s] = notes[s] /\ handler'[s] = handler[s]
      BY <2>1, <2>3, <1>0 DEF PoolTypes
    <3>2. using[s] /\ conn[s] \in Client
      BY <3>1, <1>0 DEF Due, PoolTypes, Contexts
    <3>3. client[conn[s]] = "open"
      BY <2>1, <3>1, <3>2, <1>0 DEF Due, PoolTypes, Contexts
    <3>4. Told(s)
      BY <2>1, <3>1, <3>3 DEF Due
    <3>5. \A t \in Threads : sender[t].at = "send" => sender'[t] = sender[t]
      BY <2>1, <1>0 DEF PoolTypes
    <3> QED BY <3>1, <3>4, <3>5 DEF Told
  <2> QED BY <2>2, <2>3
<1>5. ASSUME NEW c \in Client, Refuse(c) \/ ClientClose(c) PROVE Told(s)'
  <2>1. /\ UNCHANGED <<queue, conn, notes, sender, handler>>
        /\ client' = [client EXCEPT ![c] = "closed"]
    BY <1>5 DEF Refuse, ClientClose
  <2>2. using[s] /\ conn[s] \in Client
    BY <2>1, <1>0 DEF Due, PoolTypes, Contexts
  <2>3. client'[conn[s]] = client[conn[s]]
    BY <2>1, <2>2, <1>0 DEF Due, PoolTypes
  <2> QED BY <2>1, <2>3, <1>2 DEF Due
<1>6. CASE Report
  <2>1. /\ sender[Listener].at = "sleep"
        /\ \E x : sender' = [sender EXCEPT ![Listener] = x]
        /\ UNCHANGED <<client, conn, queue, notes, handler>>
    BY <1>6 DEF Report
  <2>2. \A t \in Threads : sender[t].at = "send" => sender'[t] = sender[t]
    BY <2>1, <1>0 DEF PoolTypes
  <2> QED BY <2>1, <2>2, <1>1 DEF Due
<1>7. CASE PoolStart
  <2>1. /\ waiting # <<>> /\ handler' = [handler EXCEPT ![Head(waiting)] = "select"]
        /\ UNCHANGED <<client, conn, queue, notes, sender>>
    BY <1>7 DEF PoolStart
  <2>2. Head(waiting) = waiting[1] /\ 1 \in DOMAIN waiting
    BY <2>1, <1>0, PopHead, LenProperties DEF PoolTypes
  <2>3. handler[Head(waiting)] = "queued"
    BY <2>2, <1>0 DEF Contexts
  <2>4. handler[s] \in {"queued", "select", "lookup", "reply"}
    BY <2>1, <2>3, <1>0 DEF Due, PoolTypes
  <2> QED BY <2>1, <2>4, <1>2
<1>8. ASSUME NEW x \in Slot, ReadRequest(x) \/ ReadNow(x) \/ Reply(x)
      PROVE  Told(s)'
  <2>1. handler[s] \in {"queued", "select", "lookup", "reply"}
    BY <1>8, <1>0 DEF ReadRequest, ReadNow, Reply, Due, PoolTypes
  <2> QED BY <1>8, <2>1, <1>2 DEF ReadRequest, ReadNow, Reply
<1>12. ASSUME NEW x \in Slot, Lookup(x) PROVE Told(s)'
  <2>1. /\ handler[x] = "lookup" /\ handler' = [handler EXCEPT ![x] = "reply"]
        /\ sender' = sender \/ sender' = [sender EXCEPT ![x] = ToEverybody]
        /\ UNCHANGED <<client, conn, queue, notes>>
    BY <1>12 DEF Lookup
  <2>2. Due(s)
    BY <2>1, <1>0 DEF Due, PoolTypes
  <2>3. \A t \in Threads : sender[t].at = "send" => sender'[t] = sender[t]
    BY <2>1, <1>0 DEF Replies, PoolTypes
  <2> QED BY <2>1, <2>2, <2>3, <1>1
<1>9. ASSUME NEW x \in Slot,
             Notified(x) \/ Pop(x) \/ Write(x) \/ Drained(x) \/ HandlerExit(x)
      PROVE  Told(s)'
  <2>1. s # x
    <3>1. CASE Notified(x) \/ Pop(x) \/ HandlerExit(x)
      BY <3>1, <1>0 DEF Notified, Pop, HandlerExit, Due, PoolTypes
    <3>2. CASE Write(x)
      BY <3>2, <1>0 DEF Write, Due, PoolTypes
    <3>3. CASE Drained(x)
      <4>1. queue'[x] = <<>> /\ ToSet(<<>>) = {}
        BY <3>3 DEF Drained, ToSet
      <4> QED BY <4>1 DEF Due
    <3> QED BY <1>9, <3>1, <3>2, <3>3
  <2>2. /\ handler'[s] = handler[s] /\ conn'[s] = conn[s] /\ queue'[s] = queue[s]
        /\ notes'[s] = notes[s] /\ UNCHANGED <<client, sender>>
    BY <1>9, <2>1, <1>0
       DEF Notified, Pop, Write, Drained, HandlerExit, PoolTypes
  <2> QED BY <2>2 DEF Due, Told
<1>10. CASE Answer \/ Event
  <2>1. /\ UNCHANGED <<client, conn, queue, notes, handler>>
        /\ \E t \in {Async, Driver} : \E x :
             sender[t].at = "idle" /\ sender' = [sender EXCEPT ![t] = x]
    BY <1>10 DEF Answer, Event
  <2>2. \A t \in Threads : sender[t].at = "send" => sender'[t] = sender[t]
    BY <2>1, <1>0 DEF PoolTypes
  <2> QED BY <2>1, <2>2, <1>1 DEF Due
<1>11. ASSUME NEW t \in Threads, NotifyStep(t) PROVE Told(s)'
  <2>0. /\ sender[t] \in Task /\ \A u \in Threads \ {t} : sender'[u] = sender[u]
        /\ UNCHANGED <<client, conn, handler>>
    BY <1>11, <1>0, NotifyStepProps DEF NotifyStep, Check, Push, Send, PoolTypes
  <2>1. CASE Check(t)
    BY <2>0, <2>1, <1>1 DEF Check, Due
  <2>2. CASE Push(t)
    <3>1. sender'[t] = [sender[t] EXCEPT !.at = "send"] /\ sender[t].at = "push"
      BY <2>2, <1>0 DEF Push, PoolTypes
    <3>2. sender'[t].at = "send" /\ sender'[t].slot = sender[t].slot
      BY <2>0, <3>1 DEF Task
    <3>3. CASE s = sender[t].slot
      BY <3>2, <3>3 DEF Told
    <3>4. CASE s # sender[t].slot
      <4>1. queue'[s] = queue[s] /\ notes' = notes
        BY <2>2, <3>4, <1>0 DEF Push, PoolTypes
      <4> QED BY <4>1, <3>1, <2>0, <1>1 DEF Due
    <3> QED BY <3>3, <3>4
  <2>3. CASE Send(t)
    <3>1. CASE s = sender[t].slot
      <4>1. using[s]
        BY <2>0, <1>0 DEF Due, Contexts
      <4>2. notes'[s] = notes[s] + 1 /\ notes[s] \in Nat
        BY <2>3, <3>1, <4>1, <1>0 DEF Send, PoolTypes
      <4> QED BY <4>2 DEF Told
    <3>2. CASE s # sender[t].slot
      <4>1. notes'[s] = notes[s] /\ queue' = queue
        BY <2>3, <3>2, <1>0 DEF Send, PoolTypes
      <4>2. Told(s)
        BY <2>0, <4>1 DEF Due
      <4> QED BY <2>0, <3>2, <4>1, <4>2 DEF Told
    <3> QED BY <3>1, <3>2
  <2> QED BY <1>11, <2>1, <2>2, <2>3 DEF NotifyStep
<1> QED BY <1>3, <1>4, <1>5, <1>6, <1>7, <1>8, <1>9, <1>10, <1>11, <1>12
        DEF Next, HandlerStep

(* A handler that looks for work finds a datagram, or will, if an answer   *)
(* for its client is queued.                                               *)
THEOREM WakeupsArrive == Spec => []NoLostWakeup
<1>1. Init => AwakeInv
  BY MailInvInit DEF Init, AwakeInv, Due
<1>2. AwakeInv => NoLostWakeup
  BY DEF AwakeInv, Due, Told, NoLostWakeup
<1> QED BY <1>1, <1>2, AwakeInvNext, PTL DEF Spec

-----------------------------------------------------------------------------
(* No answer is lost. *)

(* A handler has a response in hand. *)
Holding == {"write", "lookup", "reply"}

(* OnItsWay, by elements. *)
InFlight(c, r) ==
  \/ \E x \in ToSet(asyncq) : x.resp = r
  \/ sender[Async].at \in {"check", "push"} /\ sender[Async].resp = r
  \/ \E s \in Slot : conn[s] = c /\ r \in ToSet(queue[s])
  \/ \E s \in Slot : conn[s] = c /\ handler[s] \in Holding /\ hand[s] = r

Answered(c, r) == r \in got[c] \cup lost \/ InFlight(c, r)

AnswerTo(c, n) == [to |-> c, n |-> n]

LostInv ==
  /\ MailInv
  /\ \A c \in Client : client[c] = "open" =>
       \A n \in 1..sent[c] : Answered(c, AnswerTo(c, n))

LEMMA LostInvNext == LostInv /\ [Next]_vars => LostInv'
<1> SUFFICES ASSUME LostInv, [Next]_vars, NEW c \in Client, client'[c] = "open",
                    NEW n \in 1..sent'[c]
             PROVE  Answered(c, AnswerTo(c, n))'
  BY MailInvNext DEF LostInv, AnswerTo
<1> DEFINE r == AnswerTo(c, n)
<1> USE DEF clientv, slotv, loss
<1>16. /\ n \in Nat \ {0} /\ r # Idle.resp
  <2>1. sent'[c] \in Nat
    BY MailInvNext DEF LostInv, MailInv, PoolInv, PoolTypes
  <2> QED BY <2>1, IdleProps, PoolAssumption DEF AnswerTo, Everybody
<1>0. /\ PoolInv /\ PoolTypes /\ Contexts /\ Mail /\ Laps
      /\ r.to = c /\ r.n = n /\ c # Everybody /\ c # NoConn
  BY PoolAssumption DEF LostInv, MailInv, PoolInv, AnswerTo, Everybody, NoConn
<1>1. client[c] = "open" /\ n \in 1..sent[c] => Answered(c, r)
  BY DEF LostInv
<1> SUFFICES Answered(c, r)'
  BY DEF AnswerTo
<1> HIDE DEF r
<1>2. ASSUME NEW t \in Threads \ {Async},
             \A u \in Threads \ {t} : sender'[u] = sender[u]
      PROVE  sender'[Async] = sender[Async]
  BY <1>2, ThreadNames
<1>3. ASSUME client[c] = "open", sent' = sent,
             UNCHANGED <<got, lost, asyncq, queue, hand>>,
             sender'[Async] = sender[Async],
             \A s \in Slot : conn[s] = c =>
               conn'[s] = c /\ (handler[s] \in Holding => handler'[s] \in Holding)
      PROVE  Answered(c, r)'
  <2>1. Answered(c, r)
    BY <1>1, <1>3
  <2>2. CASE r \in got[c] \cup lost
    BY <1>3, <2>2 DEF Answered
  <2>3. ASSUME InFlight(c, r) PROVE InFlight(c, r)'
    <3>1. CASE \E x \in ToSet(asyncq) : x.resp = r
      BY <1>3, <3>1 DEF InFlight
    <3>2. CASE sender[Async].at \in {"check", "push"} /\ sender[Async].resp = r
      BY <1>3, <3>2 DEF InFlight
    <3>3. CASE \E s \in Slot : conn[s] = c /\ r \in ToSet(queue[s])
      BY <1>3, <3>3 DEF InFlight
    <3>4. CASE \E s \in Slot : conn[s] = c /\ handler[s] \in Holding /\ hand[s] = r
      BY <1>3, <3>4 DEF InFlight
    <3> QED BY <2>3, <3>1, <3>2, <3>3, <3>4 DEF InFlight
  <2> QED BY <2>1, <2>2, <2>3 DEF Answered
<1>4. CASE UNCHANGED vars
  BY <1>3, <1>4 DEF vars
<1>5. ASSUME NEW d \in Client, Accept(d) PROVE Answered(c, r)'
  <2>1. PICK x \in Slot :
          /\ ~using[x] /\ client[d] = "new" /\ sent' = sent
          /\ conn' = [conn EXCEPT ![x] = d]
          /\ handler' = [handler EXCEPT ![x] = "queued"]
          /\ sender' = [sender EXCEPT ![Listener].at = "sleep",
                                      ![Listener].slot = x,
                                      ![Listener].resp.to = d]
          /\ client' = [client EXCEPT ![d] = "open"]
          /\ UNCHANGED <<got, lost, asyncq, queue, hand>>
    BY <1>5 DEF Accept
  <2>2. c # d
    <3>1. ASSUME c = d PROVE FALSE
      <4>1. sent'[c] = 0
        BY <2>1, <3>1, <1>0 DEF Contexts
      <4> QED BY <4>1
    <3> QED BY <3>1
  <2>3. client[c] = "open" /\ sender'[Async] = sender[Async]
    BY <2>1, <2>2, <1>0, ThreadNames DEF PoolTypes
  <2>4. \A s \in Slot : conn[s] = c => s # x
    BY <2>1, <1>0 DEF Contexts
  <2> QED BY <2>1, <2>3, <2>4, <1>0, <1>3 DEF PoolTypes, Holding
<1>6. ASSUME NEW d \in Client, Refuse(d) \/ ClientClose(d) PROVE Answered(c, r)'
  <2>1. client[c] = "open"
    BY <1>6, <1>0 DEF Refuse, ClientClose, PoolTypes
  <2> QED BY <1>6, <2>1, <1>3 DEF Refuse, ClientClose
<1>7. CASE Report \/ Event
  <2>1. sender'[Async] = sender[Async]
    BY <1>7, <1>0, ThreadNames DEF Report, Event, PoolTypes
  <2> QED BY <1>7, <2>1, <1>3 DEF Report, Event
<1>8. CASE PoolStart
  <2>1. /\ waiting # <<>> /\ handler' = [handler EXCEPT ![Head(waiting)] = "select"]
        /\ UNCHANGED <<client, sent, now, got, lost, asyncq, queue, hand, sender, conn>>
    BY <1>8 DEF PoolStart
  <2>2. Head(waiting) = waiting[1] /\ 1 \in DOMAIN waiting
    BY <2>1, <1>0, PopHead, LenProperties DEF PoolTypes
  <2>3. handler[Head(waiting)] = "queued"
    BY <2>2, <1>0 DEF Contexts
  <2>4. \A s \in Slot : handler[s] \in Holding => handler'[s] \in Holding
    BY <2>1, <2>3, <1>0 DEF PoolTypes, Holding
  <2> QED BY <2>1, <2>4, <1>3
<1>9. ASSUME NEW x \in Slot, ReadRequest(x) PROVE Answered(c, r)'
  <2> DEFINE a == [slot |-> x, resp |-> [to |-> conn[x], n |-> sent[conn[x]] + 1]]
  <2>1. /\ handler[x] = "select" /\ asyncq' = Append(asyncq, a)
        /\ sent' = [sent EXCEPT ![conn[x]] = sent[conn[x]] + 1]
        /\ UNCHANGED <<client, got, lost, queue, hand, handler, conn, sender>>
    BY <1>9 DEF ReadRequest
  <2>2. conn[x] \in Client
    BY <2>1, <1>0 DEF PoolTypes, Contexts
  <2>3. a \in Request
    BY <2>2, <1>0 DEF Request, Resp, PoolTypes
  <2>4. ToSet(asyncq') = ToSet(asyncq) \cup {a}
    <3> HIDE DEF a
    <3> QED BY <2>1, <2>3, <1>0, PushTail DEF PoolTypes
  <2>5. CASE n \in 1..sent[c]
    BY <2>1, <2>4, <2>5, <1>1 DEF Answered, InFlight
  <2>6. CASE n \notin 1..sent[c]
    <3>1. conn[x] = c /\ n = sent[c] + 1
      BY <2>1, <2>2, <2>6, <1>0 DEF PoolTypes
    <3>2. a.resp = r
      BY <3>1 DEF r, AnswerTo
    <3> QED BY <2>4, <3>2 DEF Answered, InFlight
  <2> QED BY <2>5, <2>6
<1>10. ASSUME NEW x \in Slot, Lookup(x) \/ Notified(x) \/ Drained(x)
       PROVE  Answered(c, r)'
  <2>1. /\ UNCHANGED <<client, sent, now, got, lost, asyncq, queue, hand, conn>>
        /\ sender' = sender \/ sender' = [sender EXCEPT ![x] = ToEverybody]
        /\ \/ handler[x] \notin Holding /\ \E h : handler' = [handler EXCEPT ![x] = h]
           \/ handler' = [handler EXCEPT ![x] = "reply"]
    BY <1>10 DEF Lookup, Notified, Drained, Holding
  <2>2. \A s \in Slot : handler[s] \in Holding => handler'[s] \in Holding
    BY <2>1, <1>0 DEF PoolTypes, Holding
  <2>3. sender'[Async] = sender[Async]
    BY <2>1, <1>0, ThreadNames DEF PoolTypes
  <2> QED BY <2>1, <2>2, <2>3, <1>3
<1>17. ASSUME NEW x \in Slot, ReadNow(x) PROVE Answered(c, r)'
  <2> DEFINE a == [to |-> conn[x], n |-> sent[conn[x]] + 1]
  <2>1. /\ handler[x] = "select" /\ hand' = [hand EXCEPT ![x] = a]
        /\ \E h \in {"lookup", "reply"} : handler' = [handler EXCEPT ![x] = h]
        /\ sent' = [sent EXCEPT ![conn[x]] = sent[conn[x]] + 1]
        /\ UNCHANGED <<client, got, lost, queue, asyncq, conn, sender>>
    BY <1>17 DEF ReadNow
  <2>2. conn[x] \in Client
    BY <2>1, <1>0 DEF PoolTypes, Contexts
  <2>3. /\ hand'[x] = a /\ handler'[x] \in Holding
        /\ \A s \in Slot \ {x} : hand'[s] = hand[s] /\ handler'[s] = handler[s]
    BY <2>1, <1>0 DEF PoolTypes, Holding
  <2>5. CASE n \in 1..sent[c]
    BY <2>1, <2>3, <2>5, <1>1 DEF Answered, InFlight, Holding
  <2>6. CASE n \notin 1..sent[c]
    <3>1. conn[x] = c /\ n = sent[c] + 1
      BY <2>1, <2>2, <2>6, <1>0 DEF PoolTypes
    <3>2. a = r
      BY <3>1 DEF r, AnswerTo
    <3> QED BY <2>1, <2>3, <3>1, <3>2 DEF Answered, InFlight
  <2> QED BY <2>5, <2>6
<1>18. ASSUME NEW x \in Slot, Reply(x) PROVE Answered(c, r)'
  <2>1. /\ handler[x] = "reply"
        /\ \/ client[conn[x]] = "closed" /\ UNCHANGED <<got, lost>>
           \/ got' = [got EXCEPT ![conn[x]] = got[conn[x]] \cup {hand[x]}] /\ lost' = lost
           \/ lost' = lost \cup {hand[x]} /\ got' = got
        /\ hand' = [hand EXCEPT ![x] = Idle.resp]
        /\ handler' = [handler EXCEPT ![x] = "select"]
        /\ UNCHANGED <<client, sent, asyncq, conn, queue, sender>>
    BY <1>18 DEF Reply
  <2>2. \A s \in Slot \ {x} : hand'[s] = hand[s] /\ handler'[s] = handler[s]
    BY <2>1, <1>0 DEF PoolTypes
  <2>3. got[c] \subseteq got'[c] /\ lost \subseteq lost'
    BY <2>1, <1>0 DEF PoolTypes
  <2>4. conn[x] = c => hand[x] \in got'[c] \cup lost'
    BY <2>1, <1>0 DEF PoolTypes
  <2> QED BY <2>1, <2>2, <2>3, <2>4, <1>1 DEF Answered, InFlight
<1>11. ASSUME NEW x \in Slot, HandlerExit(x) PROVE Answered(c, r)'
  <2>1. /\ client[conn[x]] = "closed" /\ handler[x] = "select" /\ client' = client
        /\ conn' = [conn EXCEPT ![x] = NoConn]
        /\ handler' = [handler EXCEPT ![x] = "none"]
        /\ UNCHANGED <<sent, now, got, lost, asyncq, queue, hand, sender>>
    BY <1>11 DEF HandlerExit
  <2>2. \A s \in Slot : conn[s] = c =>
          conn'[s] = c /\ (handler[s] \in Holding => handler'[s] \in Holding)
    BY <2>1, <1>0 DEF PoolTypes, Holding
  <2> QED BY <2>1, <2>2, <1>3
<1>12. ASSUME NEW x \in Slot, Pop(x) PROVE Answered(c, r)'
  <2>1. /\ handler[x] = "drain" /\ queue[x] # <<>>
        /\ queue' = [queue EXCEPT ![x] = Tail(queue[x])]
        /\ hand' = [hand EXCEPT ![x] = Head(queue[x])]
        /\ handler' = [handler EXCEPT ![x] = "write"]
        /\ UNCHANGED <<client, sent, now, got, lost, asyncq, conn, sender>>
    BY <1>12 DEF Pop
  <2>2. ToSet(queue[x]) = {Head(queue[x])} \cup ToSet(Tail(queue[x]))
    BY <2>1, <1>0, PopHead DEF PoolTypes
  <2>3. /\ queue'[x] = Tail(queue[x]) /\ hand'[x] = Head(queue[x])
        /\ handler'[x] = "write"
        /\ \A s \in Slot \ {x} :
             queue'[s] = queue[s] /\ hand'[s] = hand[s] /\ handler'[s] = handler[s]
    BY <2>1, <1>0 DEF PoolTypes
  <2> QED BY <2>1, <2>2, <2>3, <1>1 DEF Answered, InFlight, Holding
<1>13. ASSUME NEW x \in Slot, Write(x) PROVE Answered(c, r)'
  <2>1. /\ handler[x] = "write"
        /\ \/ /\ client[conn[x]] = "open"
              /\ got' = [got EXCEPT ![conn[x]] = got[conn[x]] \cup ({hand[x]} \ {Idle.resp})]
           \/ client[conn[x]] = "closed" /\ got' = got
        /\ hand' = [hand EXCEPT ![x] = Idle.resp]
        /\ \E h \in {"drain", "select"} : handler' = [handler EXCEPT ![x] = h]
        /\ UNCHANGED <<client, sent, now, lost, asyncq, conn, queue, sender>>
    BY <1>13 DEF Write
  <2>2. \A s \in Slot \ {x} : hand'[s] = hand[s] /\ handler'[s] = handler[s]
    BY <2>1, <1>0 DEF PoolTypes
  <2>3. got[c] \subseteq got'[c]
    <3>1. CASE conn[x] = c /\ got' # got
      BY <2>1, <3>1, <1>0 DEF PoolTypes
    <3>2. CASE conn[x] # c \/ got' = got
      <4>1. got'[c] = got[c]
        BY <2>1, <3>2, <1>0 DEF PoolTypes
      <4> QED BY <4>1
    <3> QED BY <3>1, <3>2
  <2>4. conn[x] = c /\ hand[x] = r => r \in got'[c]
    BY <2>1, <1>0, <1>16 DEF PoolTypes
  <2> QED BY <2>1, <2>2, <2>3, <2>4, <1>1 DEF Answered, InFlight
<1>14. CASE Answer
  <2>1. ToSet(asyncq) = {Head(asyncq)} \cup ToSet(Tail(asyncq))
    BY <1>14, <1>0, PopHead DEF Answer, PoolTypes
  <2>2. /\ sender'[Async].at = "check" /\ sender'[Async].resp = Head(asyncq).resp
        /\ sender[Async].at = "idle" /\ asyncq' = Tail(asyncq)
    BY <1>14, <1>0, ThreadNames DEF Answer, PoolTypes
  <2>3. UNCHANGED <<client, sent, now, got, lost, queue, hand, handler, conn>>
    BY <1>14 DEF Answer
  <2> QED BY <2>1, <2>2, <2>3, <1>1 DEF Answered, InFlight
<1>15. ASSUME NEW t \in Threads, NotifyStep(t) PROVE Answered(c, r)'
  <2> DEFINE d == sender[t].slot
             y == sender[t].resp
  <2>1. /\ UNCHANGED <<client, sent, now, got, hand, handler, conn, asyncq>>
        /\ \A u \in Threads \ {t} : sender'[u] = sender[u]
        /\ d \in Slot /\ y \in Resp /\ sender[t] \in Task
    BY <1>15, <1>0, NotifyStepProps
       DEF NotifyStep, Check, Push, Send, PoolTypes, Task
  <2>2. Answered(c, r)
    BY <2>1, <1>1
  <2>3. t # Async => sender'[Async] = sender[Async]
    BY <2>1, <1>2
  <2>4. CASE Check(t)
    <3>1. UNCHANGED <<lost, queue>>
      BY <2>4 DEF Check
    <3>2. ASSUME t = Async, y = r, sender[t].at = "check"
          PROVE  sender'[t].at = "push" /\ sender'[t].resp = r
      <4>1. conn[d] = c
        BY <3>2, <2>1, <1>0 DEF Mail, Addressed
      <4>2. using[d]
        BY <4>1, <2>1, <1>0 DEF Contexts
      <4>3. sender'[t] = [sender[t] EXCEPT !.at = "push"]
        BY <4>2, <2>4, <1>0 DEF Check, PoolTypes
      <4> QED BY <4>3, <3>2, <2>1 DEF Task
    <3>3. sender[t].at = "check"
      BY <2>4 DEF Check
    <3> QED BY <2>1, <2>2, <2>3, <3>1, <3>2, <3>3 DEF Answered, InFlight
  <2>5. CASE Push(t)
    <3>1. \/ queue' = [queue EXCEPT ![d] = Append(queue[d], y)] /\ UNCHANGED lost
          \/ UNCHANGED queue /\ lost' = IF y.n > 0 THEN lost \cup {y} ELSE lost
      BY <2>5 DEF Push
    <3>2. ToSet(Append(queue[d], y)) = ToSet(queue[d]) \cup {y}
      <4> HIDE DEF d, y
      <4> QED BY <2>1, <1>0, PushTail DEF PoolTypes
    <3>3. \A s \in Slot : ToSet(queue[s]) \subseteq ToSet(queue'[s])
      <4> HIDE DEF d, y
      <4> QED BY <2>1, <3>1, <3>2, <1>0 DEF PoolTypes
    <3>4. y = r => y \in lost' \/ y \in ToSet(queue'[d])
      <4> HIDE DEF d, y
      <4>1. y = r => y.n > 0
        BY <1>0, <1>16
      <4>2. CASE queue' = [queue EXCEPT ![d] = Append(queue[d], y)]
        <5>1. queue'[d] = Append(queue[d], y)
          BY <2>1, <4>2, <1>0 DEF PoolTypes
        <5> QED BY <3>2, <5>1
      <4> QED BY <3>1, <4>1, <4>2
    <3>5. t = Async /\ y = r => conn[d] = c
      BY <2>1, <2>5, <1>0 DEF Mail, Addressed, Push
    <3>6. lost \subseteq lost' /\ sender[t].at = "push"
      BY <2>5, <3>1 DEF Push
    <3>7. CASE t = Async /\ y = r
      <4> HIDE DEF d, y
      <4>1. y = r /\ conn'[d] = c
        BY <2>1, <3>5, <3>7
      <4> QED BY <2>1, <3>4, <4>1 DEF Answered, InFlight
    <3>8. CASE r \in got[c] \cup lost
      BY <2>1, <3>6, <3>8 DEF Answered
    <3>9. CASE InFlight(c, r) /\ ~(t = Async /\ y = r)
      <4>1. CASE \E x \in ToSet(asyncq) : x.resp = r
        BY <2>1, <4>1 DEF Answered, InFlight
      <4>2. CASE sender[Async].at \in {"check", "push"} /\ sender[Async].resp = r
        BY <2>3, <3>9, <4>2 DEF Answered, InFlight
      <4>3. CASE \E s \in Slot : conn[s] = c /\ r \in ToSet(queue[s])
        BY <2>1, <3>3, <4>3 DEF Answered, InFlight
      <4>4. CASE \E s \in Slot : conn[s] = c /\ handler[s] \in Holding /\ hand[s] = r
        BY <2>1, <4>4 DEF Answered, InFlight
      <4> QED BY <3>9, <4>1, <4>2, <4>3, <4>4 DEF InFlight
    <3> QED BY <2>2, <3>7, <3>8, <3>9 DEF Answered
  <2>6. CASE Send(t)
    <3>1. UNCHANGED <<lost, queue>> /\ sender[t].at = "send"
      BY <2>6 DEF Send
    <3> QED BY <2>1, <2>2, <2>3, <3>1 DEF Answered, InFlight
  <2> QED BY <1>15, <2>4, <2>5, <2>6 DEF NotifyStep
<1> QED BY <1>4, <1>5, <1>6, <1>7, <1>8, <1>9, <1>10, <1>11, <1>12, <1>13, <1>14, <1>15,
           <1>17, <1>18 DEF Next, HandlerStep

(* The answer to a request of a client that is still there has arrived or  *)
(* is on its way, unless the unlocked pop lost it or the client did not    *)
(* read for a second.                                                      *)
THEOREM AnswersAreKept == Spec => []NoAnswerLost
<1>1. Init => LostInv
  <2> SUFFICES ASSUME Init PROVE LostInv
    OBVIOUS
  <2>1. \A c \in Client : client[c] = "new"
    BY DEF Init
  <2> QED BY <2>1, MailInvInit DEF LostInv
<1>2. LostInv => NoAnswerLost
  BY DEF LostInv, Answered, InFlight, Holding, AnswerTo, NoAnswerLost, OnItsWay, ToSet
<1> QED BY <1>1, <1>2, LostInvNext, PTL DEF Spec

-----------------------------------------------------------------------------
(* The answers arrive in order. *)

(* Response r may reach connection c after q: they are not both answers to *)
(* it, or r answers a later request, or q was given at once (N holds the   *)
(* numbers of those requests) and r was not.                               *)
Follows(c, N, q, r) ==
  q.to = c /\ r.to = c /\ r.n > 0 =>
    q.n < r.n \/ (q.n > r.n /\ q.n \in N /\ r.n \notin N)

Before(c, N, A, B) == \A q \in A, r \in B : Follows(c, N, q, r)

Sorted(c, N, q) == \A i, j \in DOMAIN q : i < j => Follows(c, N, q[i], q[j])

Asked(a) == {x.resp : x \in ToSet(a)}

(* The line in which the responses for connection c stand: those received  *)
(* (G), the one its handler holds (H), its context's queue (q), the one    *)
(* the async thread holds (T) and the requests that wait for it (a); m     *)
(* requests have been made. What is answered at once never stands in it.   *)
Line(c, N, G, H, q, T, a, m) ==
  /\ Before(c, N, G, H) /\ Before(c, N, G, ToSet(q)) /\ Before(c, N, G, T)
  /\ Before(c, N, G, Asked(a))
  /\ Before(c, N, H, ToSet(q)) /\ Before(c, N, H, T) /\ Before(c, N, H, Asked(a))
  /\ Before(c, N, ToSet(q), T) /\ Before(c, N, ToSet(q), Asked(a))
  /\ Before(c, N, T, Asked(a))
  /\ Sorted(c, N, q)
  /\ \A i, j \in DOMAIN a : i < j => Follows(c, N, a[i].resp, a[j].resp)
  /\ \A r \in G \cup H \cup ToSet(q) \cup T \cup Asked(a) : r.to = c => r.n <= m
  /\ \A r \in H \cup ToSet(q) \cup T \cup Asked(a) : r.to = c /\ r.n > 0 => r.n \notin N

(* Every move in the line keeps its order. *)
LEMMA LineShrinks ==
  ASSUME NEW c, NEW N, NEW G, NEW H, NEW q, NEW T, NEW a, NEW m,
         NEW I \in SUBSET H, NEW U \in SUBSET T, Line(c, N, G, H, q, T, a, m)
  PROVE  Line(c, N, G, I, q, U, a, m)
BY DEF Line, Before

LEMMA LineAsks ==
  ASSUME NEW c, NEW N, NEW G \in SUBSET Resp, NEW H \in SUBSET Resp, NEW q \in Seq(Resp),
         NEW T \in SUBSET Resp, NEW a \in Seq(Request), NEW m \in Nat,
         NEW k \in Nat, NEW x \in Request, Line(c, N, G, H, q, T, a, m),
         \/ x.resp.to # c /\ k = m
         \/ x.resp.n = m + 1 /\ k = m + 1 /\ m + 1 \notin N
  PROVE  Line(c, N, G, H, q, T, Append(a, x), k)
<1>1. /\ ToSet(Append(a, x)) = ToSet(a) \cup {x}
      /\ DOMAIN a = 1..Len(a) /\ Len(a) \in Nat
      /\ \A i \in 1..Len(a) : a[i] \in ToSet(a)
      /\ ToSet(a) \in SUBSET Request
  BY PushTail, ToSetProps
<1>2. Asked(Append(a, x)) = Asked(a) \cup {x.resp}
  BY <1>1 DEF Asked
<1>3. ToSet(q) \in SUBSET Resp /\ Asked(a) \in SUBSET Resp
  BY <1>1, ToSetProps DEF Asked, Request
<1>4. \A r \in G \cup H \cup ToSet(q) \cup T \cup Asked(a) :
        Follows(c, N, r, x.resp) /\ (r.to = c => r.n <= k)
  <2> SUFFICES ASSUME NEW r \in G \cup H \cup ToSet(q) \cup T \cup Asked(a), r.to = c
               PROVE  Follows(c, N, r, x.resp) /\ r.n <= k
    BY DEF Follows
  <2>1. r.n <= m /\ r.n \in Nat
    BY <1>3 DEF Line, Resp
  <2> QED BY <2>1 DEF Follows
<1>5. /\ DOMAIN Append(a, x) = 1..(Len(a) + 1)
      /\ \A i \in 1..Len(a) : Append(a, x)[i] = a[i]
      /\ Append(a, x)[Len(a) + 1] = x
  BY <1>1, AppendProperties, LenProperties
<1>6. \A i, j \in DOMAIN Append(a, x) :
        i < j => Follows(c, N, Append(a, x)[i].resp, Append(a, x)[j].resp)
  <2> SUFFICES ASSUME NEW i \in 1..(Len(a) + 1), NEW j \in 1..(Len(a) + 1), i < j
               PROVE  Follows(c, N, Append(a, x)[i].resp, Append(a, x)[j].resp)
    BY <1>5
  <2>1. i \in 1..Len(a) /\ Append(a, x)[i] = a[i] /\ a[i].resp \in Asked(a)
    BY <1>1, <1>5 DEF Asked
  <2>2. CASE j \in 1..Len(a)
    BY <2>1, <2>2, <1>1, <1>5 DEF Line
  <2>3. CASE j = Len(a) + 1
    BY <2>1, <2>3, <1>4, <1>5
  <2> QED BY <2>2, <2>3, <1>1
<1>7. x.resp.to = c => x.resp.n <= k
  BY DEF Request, Resp
<1> QED BY <1>2, <1>4, <1>6, <1>7 DEF Line, Before

LEMMA LineAnswers ==
  ASSUME NEW c, NEW N, NEW G, NEW H, NEW q, NEW a \in Seq(Request), NEW m, a # <<>>,
         Line(c, N, G, H, q, {}, a, m)
  PROVE  Line(c, N, G, H, q, {Head(a).resp}, Tail(a), m)
<1>1. /\ Head(a) = a[1] /\ Tail(a) \in Seq(Request)
      /\ Len(a) \in Nat \ {0} /\ Len(Tail(a)) = Len(a) - 1
      /\ \A i \in 1..(Len(a) - 1) : Tail(a)[i] = a[i + 1]
      /\ ToSet(a) = {Head(a)} \cup ToSet(Tail(a))
  BY PopHead
<1>2. /\ DOMAIN a = 1..Len(a) /\ DOMAIN Tail(a) = 1..(Len(a) - 1)
  BY <1>1, LenProperties
<1>3. Asked(a) = {Head(a).resp} \cup Asked(Tail(a))
  BY <1>1 DEF Asked
<1>4. \A i, j \in DOMAIN Tail(a) :
        i < j => Follows(c, N, Tail(a)[i].resp, Tail(a)[j].resp)
  <2> SUFFICES ASSUME NEW i \in 1..(Len(a) - 1), NEW j \in 1..(Len(a) - 1), i < j
               PROVE  Follows(c, N, Tail(a)[i].resp, Tail(a)[j].resp)
    BY <1>2
  <2>1. i + 1 \in DOMAIN a /\ j + 1 \in DOMAIN a /\ i + 1 < j + 1
    BY <1>1, <1>2
  <2> QED BY <2>1, <1>1 DEF Line
<1>5. Before(c, N, {Head(a).resp}, Asked(Tail(a)))
  <2> SUFFICES ASSUME NEW x \in ToSet(Tail(a))
               PROVE  Follows(c, N, Head(a).resp, x.resp)
    BY DEF Before, Asked
  <2>1. PICK j \in 1..(Len(a) - 1) : x = Tail(a)[j]
    BY <1>2 DEF ToSet
  <2>2. 1 \in DOMAIN a /\ j + 1 \in DOMAIN a /\ 1 < j + 1 /\ x = a[j + 1]
    BY <2>1, <1>1, <1>2
  <2> QED BY <2>2, <1>1 DEF Line
<1> QED BY <1>3, <1>4, <1>5 DEF Line, Before

LEMMA LinePushes ==
  ASSUME NEW c, NEW N, NEW G \in SUBSET Resp, NEW H \in SUBSET Resp, NEW q \in Seq(Resp),
         NEW T \in SUBSET Resp, NEW a, NEW m \in Nat, NEW y \in Resp,
         NEW U \in SUBSET T, Line(c, N, G, H, q, T, a, m), y.n = 0 \/ (T = {y} /\ U = {})
  PROVE  Line(c, N, G, H, Append(q, y), U, a, m)
<1>1. /\ ToSet(Append(q, y)) = ToSet(q) \cup {y} /\ ToSet(q) \in SUBSET Resp
      /\ DOMAIN q = 1..Len(q) /\ Len(q) \in Nat
      /\ \A i \in 1..Len(q) : q[i] \in ToSet(q)
  BY PushTail, ToSetProps
<1>2. /\ DOMAIN Append(q, y) = 1..(Len(q) + 1)
      /\ \A i \in 1..Len(q) : Append(q, y)[i] = q[i]
      /\ Append(q, y)[Len(q) + 1] = y
  BY <1>1, AppendProperties, LenProperties
<1>3. \A r \in G \cup H \cup ToSet(q) : Follows(c, N, r, y)
  BY DEF Line, Before, Follows
<1>4. \A r \in U \cup Asked(a) : Follows(c, N, y, r)
  BY DEF Line, Before, Follows
<1>5. y.to = c => y.n <= m
  BY DEF Line
<1>6. Sorted(c, N, Append(q, y))
  <2> SUFFICES ASSUME NEW i \in 1..(Len(q) + 1), NEW j \in 1..(Len(q) + 1), i < j
               PROVE  Follows(c, N, Append(q, y)[i], Append(q, y)[j])
    BY <1>2 DEF Sorted
  <2>1. i \in 1..Len(q) /\ Append(q, y)[i] = q[i] /\ q[i] \in ToSet(q)
    BY <1>1, <1>2
  <2>2. CASE j \in 1..Len(q)
    BY <2>1, <2>2, <1>1, <1>2 DEF Line, Sorted
  <2>3. CASE j = Len(q) + 1
    BY <2>1, <2>3, <1>2, <1>3
  <2> QED BY <2>2, <2>3, <1>1
<1> QED BY <1>1, <1>3, <1>4, <1>5, <1>6 DEF Line, Before

LEMMA LinePops ==
  ASSUME NEW c, NEW N, NEW G, NEW q \in Seq(Resp), NEW T, NEW a, NEW m, q # <<>>,
         Line(c, N, G, {}, q, T, a, m)
  PROVE  Line(c, N, G, {Head(q)}, Tail(q), T, a, m)
<1>1. /\ Head(q) = q[1] /\ Tail(q) \in Seq(Resp)
      /\ Len(q) \in Nat \ {0} /\ Len(Tail(q)) = Len(q) - 1
      /\ \A i \in 1..(Len(q) - 1) : Tail(q)[i] = q[i + 1]
      /\ ToSet(q) = {Head(q)} \cup ToSet(Tail(q))
  BY PopHead
<1>2. /\ DOMAIN q = 1..Len(q) /\ DOMAIN Tail(q) = 1..(Len(q) - 1)
  BY <1>1, LenProperties
<1>3. Sorted(c, N, Tail(q))
  <2> SUFFICES ASSUME NEW i \in 1..(Len(q) - 1), NEW j \in 1..(Len(q) - 1), i < j
               PROVE  Follows(c, N, Tail(q)[i], Tail(q)[j])
    BY <1>2 DEF Sorted
  <2>1. i + 1 \in DOMAIN q /\ j + 1 \in DOMAIN q /\ i + 1 < j + 1
    BY <1>1, <1>2
  <2> QED BY <2>1, <1>1 DEF Line, Sorted
<1>4. Before(c, N, {Head(q)}, ToSet(Tail(q)))
  <2> SUFFICES ASSUME NEW r \in ToSet(Tail(q)) PROVE Follows(c, N, Head(q), r)
    BY DEF Before
  <2>1. PICK j \in 1..(Len(q) - 1) : r = Tail(q)[j]
    BY <1>2 DEF ToSet
  <2>2. 1 \in DOMAIN q /\ j + 1 \in DOMAIN q /\ 1 < j + 1 /\ r = q[j + 1]
    BY <2>1, <1>1, <1>2
  <2> QED BY <2>2, <1>1 DEF Line, Sorted
<1> QED BY <1>1, <1>3, <1>4 DEF Line, Before

LEMMA LineWrites ==
  ASSUME NEW c, NEW N, NEW G, NEW H, NEW q, NEW T, NEW a, NEW m, Line(c, N, G, H, q, T, a, m)
  PROVE  Line(c, N, G \cup H, {}, q, T, a, m)
BY DEF Line, Before

(* A request is counted that is answered at once. *)
LEMMA LineCounts ==
  ASSUME NEW c, NEW N, NEW G \in SUBSET Resp, NEW H \in SUBSET Resp, NEW q \in Seq(Resp),
         NEW T \in SUBSET Resp, NEW a \in Seq(Request), NEW m \in Nat,
         Line(c, N, G, H, q, T, a, m)
  PROVE  Line(c, N \cup {m + 1}, G, H, q, T, a, m + 1)
<1> PICK A : A = G \cup H \cup ToSet(q) \cup T \cup Asked(a)
  OBVIOUS
<1>1. ToSet(q) \in SUBSET Resp /\ ToSet(a) \in SUBSET Request
  BY ToSetProps
<1>2. Asked(a) \in SUBSET Resp
  BY <1>1 DEF Asked, Request
<1>3. \A r \in A : r.n \in Nat /\ (r.to = c => r.n <= m)
  BY <1>1, <1>2 DEF Line, Resp
<1>4. \A x, y \in A : Follows(c, N, x, y) => Follows(c, N \cup {m + 1}, x, y)
  BY <1>3 DEF Follows
<1>5. \A r \in A : r.to = c => r.n <= m + 1 /\ (r.n \notin N => r.n \notin N \cup {m + 1})
  BY <1>3
<1>6. /\ \A i \in DOMAIN q : q[i] \in A
      /\ \A i \in DOMAIN a : a[i].resp \in A
  BY DEF ToSet, Asked
<1> QED BY <1>4, <1>5, <1>6 DEF Line, Before, Sorted

(* The reply to the last request is written, past the line. *)
LEMMA LineReplies ==
  ASSUME NEW c, NEW N, NEW G, NEW q \in Seq(Resp), NEW T \in SUBSET Resp,
         NEW a \in Seq(Request), NEW m \in Nat, NEW r,
         Line(c, N, G, {}, q, T, a, m), r.to = c, r.n = m, m \in N
  PROVE  Line(c, N, G \cup {r}, {}, q, T, a, m)
<1>1. ToSet(q) \in SUBSET Resp /\ ToSet(a) \in SUBSET Request
  BY ToSetProps
<1>2. Asked(a) \in SUBSET Resp
  BY <1>1 DEF Asked, Request
<1>3. \A x \in ToSet(q) \cup T \cup Asked(a) :
        x.n \in Nat /\ (x.to = c /\ x.n > 0 => x.n <= m /\ x.n \notin N)
  BY <1>1, <1>2 DEF Line, Resp
<1>4. \A x \in ToSet(q) \cup T \cup Asked(a) : Follows(c, N, r, x)
  BY <1>3 DEF Follows
<1> QED BY <1>4 DEF Line, Before

(* Nobody has anything for c yet. *)
LEMMA LineStarts ==
  ASSUME NEW c, NEW N, NEW H, NEW q \in Seq(Resp), NEW T, NEW a \in Seq(Request), NEW m,
         \A r \in H \cup ToSet(q) \cup T \cup Asked(a) : r.to # c
  PROVE  Line(c, N, {}, H, q, T, a, m)
<1>1. /\ \A i \in DOMAIN q : q[i] \in ToSet(q)
      /\ \A i \in DOMAIN a : a[i].resp \in Asked(a)
  BY DEF ToSet, Asked
<1> QED BY <1>1 DEF Line, Before, Sorted, Follows

Held(h, r) == IF h = "write" THEN {r} ELSE {}
Carried(k) == IF k.at \in {"check", "push"} THEN {k.resp} ELSE {}

LineOf(s, c) == Line(c, now[c], got[c], Held(handler[s], hand[s]), queue[s],
                     Carried(sender[Async]), asyncq, sent[c])

(* The responses for the connection of a context stand in line; what the   *)
(* other threads send are events.                                          *)
OrderInv ==
  /\ MailInv
  /\ \A t \in Threads \ {Async} : sender[t].resp.n = 0
  /\ \A c \in Client : client[c] = "new" => got[c] = {}
  /\ \A s \in Slot, c \in Client : conn[s] = c => LineOf(s, c)

LEMMA OrderInvInit == Init => OrderInv
<1> SUFFICES ASSUME Init PROVE OrderInv
  OBVIOUS
<1>1. /\ \A t \in Threads : sender[t].resp.n = 0
      /\ \A c \in Client : got[c] = {}
      /\ \A s \in Slot : conn[s] = NoConn
  BY IdleProps DEF Init
<1> QED BY <1>1, MailInvInit, PoolAssumption DEF OrderInv, NoConn

(* The threads that report events keep doing so. *)
LEMMA EventsOnly ==
  ASSUME OrderInv, [Next]_vars
  PROVE  \A t \in Threads \ {Async} : sender'[t].resp.n = 0
<1> USE DEF clientv, slotv, loss
<1>0. PoolInv /\ sender \in [Threads -> Task]
      /\ \A t \in Threads \ {Async} : sender[t].resp.n = 0
  BY DEF OrderInv, MailInv, PoolInv, PoolTypes
<1>1. ASSUME NEW c \in Client, Accept(c)
      PROVE  \A t \in Threads \ {Async} : sender'[t].resp.n = 0
  <2>1. PICK s \in Slot :
          sender' = [sender EXCEPT ![Listener].at = "sleep",
                                    ![Listener].slot = s,
                                    ![Listener].resp.to = c]
    BY <1>1 DEF Accept
  <2>2. sender[Listener] \in Task /\ sender[Listener].resp \in Resp
    BY <1>0, ThreadNames DEF Task
  <2>3. sender'[Listener].resp.n = sender[Listener].resp.n
    BY <2>1, <2>2, <1>0, ThreadNames DEF Task, Resp
  <2>4. \A t \in Threads \ {Listener} : sender'[t] = sender[t]
    BY <2>1, <1>0
  <2> QED BY <2>3, <2>4, <1>0
<1>2. CASE Report
  <2>1. PICK x : /\ sender' = [sender EXCEPT ![Listener] = x]
                 /\ \/ x = Idle
                    \/ x = [sender[Listener] EXCEPT !.at = "check", !.left = Devs]
    BY <1>2 DEF Report
  <2>2. x.resp.n = 0
    <3>1. sender[Listener] \in Task
      BY <1>0, ThreadNames
    <3>2. Idle.resp.n = 0
      BY IdleProps
    <3>3. [sender[Listener] EXCEPT !.at = "check", !.left = Devs].resp
             = sender[Listener].resp
      BY <3>1 DEF Task
    <3> QED BY <2>1, <3>2, <3>3, <1>0, ThreadNames
  <2> QED BY <2>1, <2>2, <1>0
<1>3. CASE Answer
  BY <1>3, <1>0 DEF Answer
<1>4. CASE Event
  BY <1>4, <1>0, IdleProps DEF Event
<1>7. ASSUME NEW x \in Slot, Lookup(x)
      PROVE  \A t \in Threads \ {Async} : sender'[t].resp.n = 0
  BY <1>7, <1>0, IdleProps DEF Lookup
<1>5. ASSUME NEW t \in Threads, NotifyStep(t)
      PROVE  \A u \in Threads \ {Async} : sender'[u].resp.n = 0
  <2>1. CASE sender'[t].at # "idle"
    BY <1>5, <2>1, <1>0, NotifyStepProps
  <2>2. CASE sender'[t].at = "idle"
    <3>1. sender'[t] = Idle
      <4>1. \/ sender'[t] = After(sender[t])
            \/ sender'[t] = [sender[t] EXCEPT !.at = "push"]
            \/ sender'[t] = [sender[t] EXCEPT !.at = "send"]
        BY <1>5, <1>0 DEF NotifyStep, Check, Push, Send
      <4>2. sender[t] \in Task
        BY <1>0
      <4>3. sender'[t] = After(sender[t])
        BY <4>1, <4>2, <2>2 DEF Task
      <4>4. After(sender[t]) = Idle \/ After(sender[t]).at = "check"
        BY <4>2 DEF After, Task
      <4> QED BY <4>3, <4>4, <2>2
    <3>2. Idle.resp.n = 0
      BY IdleProps
    <3> QED BY <1>5, <3>1, <3>2, <1>0, NotifyStepProps
  <2> QED BY <2>1, <2>2
<1>6. CASE UNCHANGED sender
  BY <1>6, <1>0
<1> QED BY <1>1, <1>2, <1>3, <1>4, <1>5, <1>6, <1>7
        DEF Next, vars, Refuse, ClientClose, PoolStart, ReadRequest, ReadNow,
            HandlerStep, Reply, Notified, Pop, Write, Drained, HandlerExit

(* A connection that nobody has heard of finds nothing in its context. *)
LEMMA FreshLine ==
  ASSUME OrderInv, NEW c \in Client, client[c] = "new", NEW s \in Slot
  PROVE  /\ \A x \in ToSet(queue[s]) : x.to # c
         /\ handler[s] = "write" => hand[s].to # c
         /\ sender[Async].at # "idle" => sender[Async].resp.to # c
         /\ \A x \in Asked(asyncq) : x.to # c
         /\ got[c] = {}
<1>1. PoolTypes /\ Contexts /\ Mail /\ c # Everybody /\ c # NoConn
  BY PoolAssumption DEF OrderInv, MailInv, PoolInv, Everybody, NoConn
<1>2. \A x \in Slot : conn[x] # c
  BY <1>1 DEF Contexts
<1>3. \A x \in Slot : \A r : Addressed(conn, client, x, r) => r.to # c
  BY <1>1, <1>2 DEF Addressed
<1>4. ToSet(asyncq) \in SUBSET Request /\ sender[Async].slot \in Slot
  BY <1>1, ToSetProps, ThreadNames DEF PoolTypes, Task
<1>5. \A x \in ToSet(asyncq) : x.resp.to # c
  BY <1>1, <1>3, <1>4 DEF Mail, Request
<1> QED BY <1>1, <1>3, <1>4, <1>5, ThreadNames DEF Mail, Asked, OrderInv

LEMMA OrderInvNext == OrderInv /\ [Next]_vars => OrderInv'
<1> SUFFICES ASSUME OrderInv, [Next]_vars,
                    NEW s \in Slot, NEW c \in Client, conn'[s] = c
             PROVE  LineOf(s, c)'
  <2>1. ASSUME OrderInv, [Next]_vars, NEW c \in Client, client'[c] = "new"
        PROVE  got'[c] = {}
    <3>1. PoolInv /\ PoolTypes /\ Contexts /\ client[c] = "new" => got[c] = {}
      BY <2>1 DEF OrderInv, MailInv, PoolInv
    <3>2. ASSUME NEW d \in Client, Accept(d) \/ Refuse(d) \/ ClientClose(d)
          PROVE  client[c] = "new" /\ got' = got
      <4>1. got' = got /\ \E x \in {"open", "closed"} : client' = [client EXCEPT ![d] = x]
        BY <3>2 DEF Accept, Refuse, ClientClose
      <4>2. PoolTypes
        BY <2>1 DEF OrderInv, MailInv, PoolInv
      <4> QED BY <4>1, <4>2, <2>1 DEF PoolTypes
    <3>3. ASSUME NEW x \in Slot, Write(x) \/ Reply(x)
          PROVE  client' = client /\ (client[c] = "new" => got'[c] = got[c])
      <4>1. /\ client' = client
            /\ \/ got' = got
               \/ /\ client[conn[x]] = "open"
                  /\ \E R : got' = [got EXCEPT ![conn[x]] = R]
        BY <3>3 DEF Write, Reply
      <4>2. PoolTypes
        BY <2>1 DEF OrderInv, MailInv, PoolInv
      <4> QED BY <4>1, <4>2 DEF PoolTypes
    <3>4. CASE UNCHANGED <<client, got>>
      BY <2>1, <3>4 DEF OrderInv
    <3>5. client[c] = "new" => got[c] = {}
      BY <2>1 DEF OrderInv
    <3> QED BY <2>1, <3>2, <3>3, <3>4, <3>5
            DEF Next, vars, clientv, Report, PoolStart, ReadRequest, ReadNow,
                HandlerStep, Lookup, Notified, Pop, Drained, HandlerExit, Answer,
                Event, NotifyStep, Check, Push, Send
  <2> QED BY <2>1, MailInvNext, EventsOnly DEF OrderInv
<1> USE DEF clientv, slotv, loss
<1>0. /\ MailInv /\ PoolInv /\ PoolTypes /\ Contexts /\ Mail /\ Replies
      /\ c # NoConn /\ sender[Async] \in Task
  BY PoolAssumption, ThreadNames DEF OrderInv, MailInv, PoolInv, PoolTypes, NoConn
<1>1. conn[s] = c => LineOf(s, c)
  BY DEF OrderInv
<1>2. /\ got[c] \in SUBSET Resp /\ queue[s] \in Seq(Resp) /\ sent[c] \in Nat
      /\ Held(handler[s], hand[s]) \in SUBSET Resp
      /\ Carried(sender[Async]) \in SUBSET Resp
      /\ asyncq \in Seq(Request)
  BY <1>0 DEF PoolTypes, Held, Carried, Task
<1>3. ASSUME conn[s] = c, got'[c] = got[c], queue'[s] = queue[s], sent' = sent, now' = now,
             handler'[s] = "write" => handler[s] = "write" /\ hand'[s] = hand[s],
             sender'[Async] = sender[Async], asyncq' = asyncq
      PROVE  LineOf(s, c)'
  <2> DEFINE H == Held(handler'[s], hand'[s])
  <2>1. H \in SUBSET Held(handler[s], hand[s])
    BY <1>3 DEF Held
  <2>2. Line(c, now[c], got[c], H, queue[s], Carried(sender[Async]), asyncq, sent[c])
    BY <1>1, <1>3, <2>1, LineShrinks DEF LineOf
  <2> QED BY <1>3, <2>2 DEF LineOf
<1>4. CASE UNCHANGED vars
  BY <1>3, <1>4 DEF vars
<1>5. ASSUME NEW d \in Client, Accept(d) PROVE LineOf(s, c)'
  <2>1. PICK x \in Slot :
          /\ ~using[x] /\ conn' = [conn EXCEPT ![x] = d] /\ client[d] = "new"
          /\ handler' = [handler EXCEPT ![x] = "queued"]
          /\ sender' = [sender EXCEPT ![Listener].at = "sleep",
                                      ![Listener].slot = x,
                                      ![Listener].resp.to = d]
          /\ UNCHANGED <<got, queue, hand, asyncq, sent, now>>
    BY <1>5 DEF Accept
  <2>2. sender'[Async] = sender[Async]
    BY <2>1, <1>0, ThreadNames DEF PoolTypes
  <2>3. CASE s # x
    BY <2>1, <2>2, <2>3, <1>0, <1>3 DEF PoolTypes
  <2>4. CASE s = x
    <3>1. c = d /\ handler'[s] = "queued"
      BY <2>1, <2>4, <1>0 DEF PoolTypes
    <3> DEFINE H == Held(handler'[s], hand'[s])
               T == Carried(sender[Async])
    <3>2. \A r \in H \cup ToSet(queue[s]) \cup T \cup Asked(asyncq) : r.to # c
      BY <2>1, <3>1, FreshLine DEF Held, Carried
    <3>3. Line(c, now[c], {}, H, queue[s], T, asyncq, sent[c])
      BY <3>2, <1>2, LineStarts
    <3>4. got[c] = {}
      BY <2>1, <3>1, FreshLine
    <3> QED BY <2>1, <2>2, <3>3, <3>4 DEF LineOf
  <2> QED BY <2>3, <2>4
<1>6. ASSUME NEW d \in Client, Refuse(d) \/ ClientClose(d) PROVE LineOf(s, c)'
  BY <1>6, <1>3 DEF Refuse, ClientClose
<1>7. CASE Report \/ Event
  <2>1. sender'[Async] = sender[Async]
    BY <1>7, <1>0, ThreadNames DEF Report, Event, PoolTypes
  <2> QED BY <1>7, <2>1, <1>3 DEF Report, Event
<1>8. CASE PoolStart
  <2>1. /\ handler' = [handler EXCEPT ![Head(waiting)] = "select"]
        /\ UNCHANGED <<conn, got, queue, sent, now, hand, sender, asyncq>>
    BY <1>8 DEF PoolStart
  <2>2. handler'[s] = "write" => handler[s] = "write"
    BY <2>1, <1>0 DEF PoolTypes
  <2> QED BY <2>1, <2>2, <1>3
<1>9. ASSUME NEW x \in Slot, ReadRequest(x) PROVE LineOf(s, c)'
  <2> DEFINE a == [slot |-> x, resp |-> [to |-> conn[x], n |-> sent[conn[x]] + 1]]
  <2>1. /\ handler[x] = "select" /\ asyncq' = Append(asyncq, a)
        /\ sent' = [sent EXCEPT ![conn[x]] = sent[conn[x]] + 1]
        /\ UNCHANGED <<got, queue, hand, handler, conn, sender, now>>
    BY <1>9 DEF ReadRequest
  <2>2. conn[x] \in Client /\ conn[s] = c
    BY <2>1, <1>0 DEF PoolTypes, Contexts
  <2>3. a \in Request
    BY <2>2, <1>0 DEF Request, Resp, PoolTypes
  <2>4. /\ sent'[c] \in Nat
        /\ \/ a.resp.to # c /\ sent'[c] = sent[c]
           \/ /\ a.resp.n = sent[c] + 1 /\ sent'[c] = sent[c] + 1
              /\ sent[c] + 1 \notin now[c]
    <3>1. now[c] \subseteq 1..sent[c] /\ sent[c] \in Nat
      BY <1>0 DEF Replies, PoolTypes
    <3>2. sent[c] + 1 \notin now[c]
      BY <3>1
    <3> QED BY <2>1, <2>2, <3>2, <1>0 DEF PoolTypes
  <2> HIDE DEF a
  <2>5. Line(c, now[c], got[c], Held(handler[s], hand[s]), queue[s], Carried(sender[Async]),
             Append(asyncq, a), sent'[c])
    BY <2>2, <2>3, <2>4, <1>1, <1>2, LineAsks DEF LineOf
  <2> QED BY <2>1, <2>5 DEF LineOf
<1>10. ASSUME NEW x \in Slot, Lookup(x) \/ Notified(x) \/ Drained(x)
       PROVE  LineOf(s, c)'
  <2>1. /\ UNCHANGED <<sent, now, got, asyncq, queue, hand, conn>>
        /\ sender' = sender \/ sender' = [sender EXCEPT ![x] = ToEverybody]
        /\ \E h \in {"reply", "select", "drain"} : handler' = [handler EXCEPT ![x] = h]
    BY <1>10 DEF Lookup, Notified, Drained
  <2>2. handler'[s] = "write" => handler[s] = "write"
    BY <2>1, <1>0 DEF PoolTypes
  <2>3. sender'[Async] = sender[Async]
    BY <2>1, <1>0, ThreadNames DEF PoolTypes
  <2> QED BY <2>1, <2>2, <2>3, <1>3
<1>16. ASSUME NEW x \in Slot, ReadNow(x) PROVE LineOf(s, c)'
  <2>1. /\ handler[x] = "select" /\ client[conn[x]] = "open"
        /\ sent' = [sent EXCEPT ![conn[x]] = sent[conn[x]] + 1]
        /\ now' = [now EXCEPT ![conn[x]] = now[conn[x]] \cup {sent[conn[x]] + 1}]
        /\ \E h \in {"lookup", "reply"} : handler' = [handler EXCEPT ![x] = h]
        /\ hand' = [hand EXCEPT ![x] = [to |-> conn[x], n |-> sent[conn[x]] + 1]]
        /\ UNCHANGED <<got, queue, conn, sender, asyncq>>
    BY <1>16 DEF ReadNow
  <2>2. Held(handler'[s], hand'[s]) = Held(handler[s], hand[s]) /\ conn[s] = c
    BY <2>1, <1>0 DEF PoolTypes, Held
  <2>3. LineOf(s, c)
    BY <2>2, <1>1
  <2>4. CASE conn[x] = c
    <3>1. now'[c] = now[c] \cup {sent[c] + 1} /\ sent'[c] = sent[c] + 1
      BY <2>1, <2>4, <1>0 DEF PoolTypes
    <3>2. Line(c, now[c] \cup {sent[c] + 1}, got[c], Held(handler[s], hand[s]), queue[s],
               Carried(sender[Async]), asyncq, sent[c] + 1)
      BY <2>3, <1>2, LineCounts DEF LineOf
    <3> QED BY <2>1, <2>2, <3>1, <3>2 DEF LineOf
  <2>5. CASE conn[x] # c
    <3>1. now'[c] = now[c] /\ sent'[c] = sent[c]
      BY <2>1, <2>5, <1>0 DEF PoolTypes
    <3> QED BY <2>1, <2>2, <2>3, <3>1 DEF LineOf
  <2> QED BY <2>4, <2>5
<1>17. ASSUME NEW x \in Slot, Reply(x) PROVE LineOf(s, c)'
  <2>1. /\ handler[x] = "reply" /\ conn' = conn
        /\ \/ got' = [got EXCEPT ![conn[x]] = got[conn[x]] \cup {hand[x]}]
           \/ got' = got
        /\ handler' = [handler EXCEPT ![x] = "select"]
        /\ UNCHANGED <<sent, now, asyncq, queue, sender>>
        /\ hand' = [hand EXCEPT ![x] = Idle.resp]
    BY <1>17 DEF Reply
  <2>2. CASE s # x
    <3>1. conn[x] # c
      BY <2>1, <2>2, <1>0 DEF Contexts
    <3>2. got'[c] = got[c] /\ handler'[s] = handler[s] /\ hand'[s] = hand[s]
      BY <2>1, <2>2, <3>1, <1>0 DEF PoolTypes
    <3> QED BY <2>1, <3>2, <1>3
  <2>3. CASE s = x
    <3>1. handler'[s] # "write" /\ handler[s] = "reply" /\ conn[s] = c
      BY <2>1, <2>3, <1>0 DEF PoolTypes
    <3>2. CASE got'[c] = got[c]
      BY <2>1, <3>1, <3>2, <1>3
    <3>3. CASE got'[c] # got[c]
      <4>1. got'[c] = got[c] \cup {hand[s]}
        BY <2>1, <2>3, <3>1, <3>3, <1>0 DEF PoolTypes
      <4>2. Held(handler[s], hand[s]) = {} /\ Held(handler'[s], hand'[s]) = {}
        BY <3>1 DEF Held
      <4>3. hand[s].to = c /\ hand[s].n = sent[c] /\ sent[c] \in now[c]
        BY <3>1, <1>0 DEF Replies, ReplyOf
      <4>4. Line(c, now[c], got[c], {}, queue[s], Carried(sender[Async]), asyncq, sent[c])
        BY <3>1, <4>2, <1>1 DEF LineOf
      <4>5. Line(c, now[c], got[c] \cup {hand[s]}, {}, queue[s], Carried(sender[Async]),
                 asyncq, sent[c])
        BY <4>3, <4>4, <1>2, LineReplies
      <4> QED BY <2>1, <4>1, <4>2, <4>5 DEF LineOf
    <3> QED BY <3>2, <3>3
  <2> QED BY <2>2, <2>3
<1>11. ASSUME NEW x \in Slot, HandlerExit(x) PROVE LineOf(s, c)'
  <2>1. /\ conn' = [conn EXCEPT ![x] = NoConn]
        /\ handler' = [handler EXCEPT ![x] = "none"]
        /\ UNCHANGED <<sent, now, got, asyncq, queue, hand, sender>>
    BY <1>11 DEF HandlerExit
  <2>2. conn[s] = c /\ (handler'[s] = "write" => handler[s] = "write")
    BY <2>1, <1>0 DEF PoolTypes
  <2> QED BY <2>1, <2>2, <1>3
<1>12. ASSUME NEW x \in Slot, Pop(x) PROVE LineOf(s, c)'
  <2>1. /\ handler[x] = "drain" /\ queue[x] # <<>>
        /\ queue' = [queue EXCEPT ![x] = Tail(queue[x])]
        /\ hand' = [hand EXCEPT ![x] = Head(queue[x])]
        /\ handler' = [handler EXCEPT ![x] = "write"]
        /\ UNCHANGED <<sent, now, got, asyncq, conn, sender>>
    BY <1>12 DEF Pop
  <2>2. CASE s # x
    BY <2>1, <2>2, <1>0, <1>3 DEF PoolTypes
  <2>3. CASE s = x
    <3>1. queue'[s] = Tail(queue[s]) /\ hand'[s] = Head(queue[s]) /\ handler'[s] = "write"
      BY <2>1, <2>3, <1>0 DEF PoolTypes
    <3>2. Held(handler[s], hand[s]) = {} /\ Held(handler'[s], hand'[s]) = {Head(queue[s])}
      BY <2>1, <2>3, <3>1 DEF Held
    <3>3. Line(c, now[c], got[c], {}, queue[s], Carried(sender[Async]), asyncq, sent[c])
      BY <2>1, <3>2, <1>1 DEF LineOf
    <3>4. Line(c, now[c], got[c], {Head(queue[s])}, Tail(queue[s]), Carried(sender[Async]),
               asyncq, sent[c])
      BY <2>1, <2>3, <3>3, <1>2, LinePops
    <3> QED BY <2>1, <3>1, <3>2, <3>4 DEF LineOf
  <2> QED BY <2>2, <2>3
<1>13. ASSUME NEW x \in Slot, Write(x) PROVE LineOf(s, c)'
  <2>1. /\ handler[x] = "write" /\ conn' = conn
        /\ \/ got' = [got EXCEPT ![conn[x]] = got[conn[x]] \cup ({hand[x]} \ {Idle.resp})]
           \/ got' = got
        /\ \E h \in {"drain", "select"} : handler' = [handler EXCEPT ![x] = h]
        /\ UNCHANGED <<sent, now, asyncq, queue, sender>>
        /\ hand' = [hand EXCEPT ![x] = Idle.resp]
    BY <1>13 DEF Write
  <2>2. CASE s # x
    <3>1. conn[x] # c
      BY <2>1, <2>2, <1>0 DEF Contexts
    <3>2. got'[c] = got[c] /\ handler'[s] = handler[s] /\ hand'[s] = hand[s]
      BY <2>1, <2>2, <3>1, <1>0 DEF PoolTypes
    <3> QED BY <2>1, <3>2, <1>3
  <2>3. CASE s = x /\ got' = got
    <3>1. handler'[s] # "write"
      BY <2>1, <2>3, <1>0 DEF PoolTypes
    <3> QED BY <2>1, <2>3, <3>1, <1>3
  <2>4. CASE s = x /\ got' # got
    <3>1. Held(handler[s], hand[s]) = {hand[s]} /\ Held(handler'[s], hand'[s]) = {}
      BY <2>1, <2>4, <1>0 DEF Held, PoolTypes
    <3>2. got'[c] = got[c] \cup {hand[s]}
      <4>1. got'[c] = got[c] \cup ({hand[s]} \ {Idle.resp}) /\ got'[c] # got[c]
        BY <2>1, <2>4, <1>0 DEF PoolTypes
      <4> QED BY <4>1
    <3>3. Line(c, now[c], got[c] \cup {hand[s]}, {}, queue[s], Carried(sender[Async]),
               asyncq, sent[c])
      BY <2>1, <3>1, <1>1, LineWrites DEF LineOf
    <3> QED BY <2>1, <3>1, <3>2, <3>3 DEF LineOf
  <2> QED BY <2>2, <2>3, <2>4
<1>14. CASE Answer
  <2>1. /\ asyncq # <<>> /\ asyncq' = Tail(asyncq) /\ sender[Async].at = "idle"
        /\ sender'[Async].at = "check" /\ sender'[Async].resp = Head(asyncq).resp
        /\ UNCHANGED <<conn, got, handler, hand, queue, sent, now>>
    BY <1>14, <1>0, ThreadNames DEF Answer, PoolTypes
  <2>2. /\ Carried(sender[Async]) = {}
        /\ Carried(sender'[Async]) = {Head(asyncq).resp}
    BY <2>1 DEF Carried
  <2>3. Line(c, now[c], got[c], Held(handler[s], hand[s]), queue[s], {}, asyncq, sent[c])
    BY <2>1, <2>2, <1>1 DEF LineOf
  <2>4. Line(c, now[c], got[c], Held(handler[s], hand[s]), queue[s], {Head(asyncq).resp},
             Tail(asyncq), sent[c])
    BY <2>1, <2>3, <1>2, LineAnswers
  <2> QED BY <2>1, <2>2, <2>4 DEF LineOf
<1>15. ASSUME NEW t \in Threads, NotifyStep(t) PROVE LineOf(s, c)'
  <2> DEFINE d == sender[t].slot
             y == sender[t].resp
             U == Carried(sender'[Async])
  <2>1. /\ UNCHANGED <<sent, now, got, hand, handler, conn, asyncq>>
        /\ \A u \in Threads \ {t} : sender'[u] = sender[u]
        /\ d \in Slot /\ y \in Resp /\ sender[t] \in Task
    BY <1>15, <1>0, NotifyStepProps
       DEF NotifyStep, Check, Push, Send, PoolTypes, Task
  <2>2. U \in SUBSET Carried(sender[Async])
    <3>1. CASE t # Async
      BY <2>1, <3>1, ThreadNames
    <3>2. CASE t = Async
      <4>1. \/ sender'[t] = [sender[t] EXCEPT !.at = "push"] /\ sender[t].at = "check"
            \/ sender'[t] = [sender[t] EXCEPT !.at = "send"]
            \/ sender'[t] = After(sender[t])
        BY <1>15, <1>0 DEF NotifyStep, Check, Push, Send, PoolTypes
      <4>2. After(sender[t]) = Idle /\ Idle.at = "idle"
        BY <3>2, <1>15, <1>0, NotifyStepProps, AfterProps, IdleProps
      <4> QED BY <4>1, <4>2, <3>2, <2>1 DEF Carried, Task
    <3> QED BY <3>1, <3>2
  <2>3. LineOf(s, c)
    BY <2>1, <1>1
  <2> HIDE DEF d, y, U
  <2>4. Line(c, now[c], got[c], Held(handler[s], hand[s]), queue[s], U, asyncq, sent[c])
    BY <2>2, <2>3, LineShrinks DEF LineOf
  <2>5. CASE queue'[s] = queue[s]
    BY <2>1, <2>4, <2>5 DEF LineOf, U
  <2>6. CASE queue'[s] # queue[s]
    <3>1. Push(t) /\ queue' = [queue EXCEPT ![d] = Append(queue[d], y)] /\ s = d
      BY <1>15, <2>1, <2>6, <1>0 DEF NotifyStep, Check, Push, Send, PoolTypes, d, y
    <3>2. queue'[s] = Append(queue[s], y)
      BY <3>1, <1>0 DEF PoolTypes
    <3>3. y.n = 0 \/ (Carried(sender[Async]) = {y} /\ U = {})
      <4>1. CASE t # Async
        BY <4>1 DEF OrderInv, y
      <4>2. CASE t = Async
        <5>1. sender'[t] = [sender[t] EXCEPT !.at = "send"] /\ sender[t].at = "push"
          BY <3>1, <1>0 DEF Push, PoolTypes
        <5> QED BY <4>2, <5>1, <2>1 DEF Carried, Task, U, y
      <4> QED BY <4>1, <4>2
    <3>4. Line(c, now[c], got[c], Held(handler[s], hand[s]), Append(queue[s], y), U, asyncq,
               sent[c])
      BY <2>1, <2>2, <2>3, <3>3, <1>2, LinePushes DEF LineOf
    <3> QED BY <2>1, <3>2, <3>4 DEF LineOf, U
  <2> QED BY <2>5, <2>6
<1> QED BY <1>4, <1>5, <1>6, <1>7, <1>8, <1>9, <1>10, <1>11, <1>12, <1>13, <1>14, <1>15,
           <1>16, <1>17 DEF Next, HandlerStep

(* The answers to the requests of a connection arrive in the order of the  *)
(* requests, except that a reply which the handler gives at once may       *)
(* overtake answers of the async thread.                                   *)
THEOREM AnswersAreInOrder == Spec => AnswersInOrder
<1>1. ASSUME OrderInv, [Next]_vars, NEW c \in Client,
             NEW r \in got'[c] \ got[c], NEW q \in got[c]
      PROVE  r.to = c /\ q.to = c /\ r.n > 0 =>
               q.n < r.n \/ (q.n > r.n /\ q.n \in now[c] /\ r.n \notin now[c])
  <2>0. MailInv /\ PoolInv /\ PoolTypes /\ Contexts /\ Replies
    BY <1>1 DEF OrderInv, MailInv, PoolInv
  <2>1. PICK s \in Slot : Write(s) \/ Reply(s)
    BY <1>1 DEF Next, vars, clientv, Accept, Refuse, ClientClose, Report, PoolStart,
                ReadRequest, ReadNow, HandlerStep, Lookup, Notified, Pop, Drained,
                HandlerExit, Answer, Event, NotifyStep, Check, Push, Send
  <2>2. conn[s] = c /\ r = hand[s]
    BY <1>1, <2>0, <2>1 DEF Write, Reply, PoolTypes
  <2>3. LineOf(s, c)
    BY <1>1, <2>2 DEF OrderInv
  <2>4. CASE Write(s)
    <3>1. handler[s] = "write"
      BY <2>4 DEF Write
    <3> QED BY <2>2, <2>3, <3>1 DEF LineOf, Line, Before, Held, Follows
  <2>5. CASE Reply(s)
    <3>1. r.n = sent[c]
      BY <2>0, <2>2, <2>5 DEF Reply, Replies, ReplyOf
    <3>2. q.to = c => q.n <= sent[c]
      BY <2>3 DEF LineOf, Line
    <3>3. q \in Resp /\ r \in Resp /\ q # r /\ sent[c] \in Nat
      BY <1>1, <2>0, <2>2 DEF PoolTypes
    <3>4. r.to = c /\ q.to = c => q.n # r.n
      BY <3>3 DEF Resp
    <3> QED BY <3>1, <3>2, <3>3, <3>4 DEF Resp
  <2> QED BY <2>1, <2>4, <2>5
<1>2. OrderInv /\ [Next]_vars
      => [\A c \in Client : \A r \in got'[c] \ got[c], q \in got[c] :
            r.to = c /\ q.to = c /\ r.n > 0 =>
              q.n < r.n \/ (q.n > r.n /\ q.n \in now[c] /\ r.n \notin now[c])]_vars
  BY <1>1
<1> QED BY <1>2, OrderInvInit, OrderInvNext, PTL DEF Spec, AnswersInOrder

=============================================================================
