----------------------------- MODULE ClientPool -----------------------------
(***************************************************************************)
(* The TCP side of core_daemon (network.c): the table of client contexts,  *)
(* the pool of handler threads, the queue of responses and the datagram    *)
(* socket of each context, and the threads that put responses there        *)
(* through notify_resp: the async thread of device.c, which answers the    *)
(* clients' requests one by one, a driver thread, which reports an event   *)
(* to everybody, the listening thread, which reports every device to a     *)
(* client one second after it connected, under the device lock, and the    *)
(* handler threads themselves, when a command of their client changes the  *)
(* registry.                                                               *)
(*                                                                         *)
(* A response is named by the connection it is meant for and, if it        *)
(* answers a request, the number of that request on the connection.        *)
(* Whether a client reads what is written to it is its own affair: no      *)
(* write to a connection that is open need ever end.                       *)
(***************************************************************************)
EXTENDS Integers, Sequences, FiniteSets, SequencesExt

CONSTANTS
  NSlot,     \* MAX_TCP_CLIENT_NUM
  PoolSize,  \* threads of client_pool.pool
  Client,    \* connections, over the life of the daemon
  SockLen,   \* datagrams that a context's socket holds
  Devs,      \* online devices
  MaxReq,    \* bound: requests, over all connections
  MaxEvent   \* bound: events reported to everybody

ASSUME PoolAssumption ==
  /\ NSlot \in Nat \ {0} /\ PoolSize \in Nat \ {0}
  /\ SockLen \in Nat \ {0} /\ Devs \in Nat
  /\ MaxReq \in Nat /\ MaxEvent \in Nat
  /\ Client \cap {"none", "all"} = {}   \* NoConn, Everybody

VARIABLES
  client,   \* the state of each connection, as its client sees it
  sent,     \* requests made on each connection
  now,      \* history: the numbers of those that are answered at once
  using,    \* context[s].using
  conn,     \* the connection of context s (tcp_sockfd)
  queue,    \* context[s].queue
  notes,    \* datagrams in the socket of context s (un_sockfd)
  handler,  \* where the handler thread of context s is
  hand,     \* the response that handler has in hand
  waiting,  \* contexts that wait for a thread of the pool, in order
  asyncq,   \* requests that wait for the async thread
  sender,   \* where each thread that calls notify_resp is
  events,   \* events reported so far
  jammed,   \* contexts whose queue a data race has broken
  got,      \* history: the answers and reports each connection received
  lost      \* history: the answers lost to that race, or not read in time

clientv == <<client, sent, now, got>>
slotv == <<using, conn, handler, hand, waiting>>
loss == <<jammed, lost>>
vars == <<client, sent, now, using, conn, queue, notes, handler, hand, waiting,
          asyncq, sender, events, jammed, got, lost>>

Slot == 1..NSlot
NoConn == "none"
Everybody == "all"

(* The threads that notify; the handler of context s is named by s.        *)
Async == 0
Driver == -1
Listener == -2
Threads == {Async, Driver, Listener} \cup Slot

(* n is 0 for an event. The ONLINE events of report_all_device are meant   *)
(* for one connection.                                                     *)
Online(r) == r.n = 0 /\ r.to # Everybody

Idle == [at |-> "idle", slot |-> 1, resp |-> [to |-> Everybody, n |-> 0], left |-> 0]

(* notify_resp for every context, from the first. *)
ToEverybody == [Idle EXCEPT !.at = "check", !.left = NSlot]

(* report_all_device holds the device lock until its last datagram is sent *)
DeviceLocked == sender[Listener].at \in {"check", "push", "send"}

Running == {s \in Slot : handler[s] \notin {"none", "queued"}}

-----------------------------------------------------------------------------
Init ==
  /\ client = [c \in Client |-> "new"]
  /\ sent = [c \in Client |-> 0]
  /\ now = [c \in Client |-> {}]
  /\ using = [s \in Slot |-> FALSE]
  /\ conn = [s \in Slot |-> NoConn]
  /\ queue = [s \in Slot |-> <<>>]
  /\ notes = [s \in Slot |-> 0]
  /\ handler = [s \in Slot |-> "none"]
  /\ hand = [s \in Slot |-> Idle.resp]
  /\ waiting = <<>>
  /\ asyncq = <<>>
  /\ sender = [t \in Threads |-> Idle]
  /\ events = 0
  /\ jammed = {}
  /\ got = [c \in Client |-> {}]
  /\ lost = {}

-----------------------------------------------------------------------------
(* The listening thread. *)

(* Faulty: a context is taken without looking whether it is in use. *)
AcceptAny(c) ==
  /\ client[c] = "new" /\ sender[Listener].at = "idle"
  /\ \E s \in Slot :
       /\ using' = [using EXCEPT ![s] = TRUE]
       /\ conn' = [conn EXCEPT ![s] = c]
       /\ notes' = [notes EXCEPT ![s] = 0]
       /\ handler' = [handler EXCEPT ![s] = "queued"]
       /\ waiting' = IF handler[s] = "queued" THEN waiting ELSE Append(waiting, s)
       /\ sender' = [sender EXCEPT ![Listener].at = "sleep",
                                   ![Listener].slot = s,
                                   ![Listener].resp.to = c]
  /\ client' = [client EXCEPT ![c] = "open"]
  /\ UNCHANGED <<sent, now, got, queue, hand, asyncq, events, loss>>

(* get_client_context takes the first context that is not in use and opens *)
(* its socket; the context goes to the thread pool. The queue is as the    *)
(* last user left it.                                                      *)
Accept(c) ==
  /\ client[c] = "new"
  /\ sender[Listener].at = "idle"
  /\ \E s \in Slot :
       /\ ~using[s] /\ \A r \in 1..(s - 1) : using[r]
       /\ using' = [using EXCEPT ![s] = TRUE]
       /\ conn' = [conn EXCEPT ![s] = c]
       /\ notes' = [notes EXCEPT ![s] = 0]
       /\ handler' = [handler EXCEPT ![s] = "queued"]
       /\ waiting' = Append(waiting, s)
       /\ sender' = [sender EXCEPT ![Listener].at = "sleep",
                                   ![Listener].slot = s,
                                   ![Listener].resp.to = c]
  /\ client' = [client EXCEPT ![c] = "open"]
  /\ UNCHANGED <<sent, now, got, queue, hand, asyncq, events, loss>>

(* All contexts are in use: the connection is closed. *)
Refuse(c) ==
  /\ client[c] = "new"
  /\ sender[Listener].at = "idle"
  /\ \A s \in Slot : using[s]
  /\ client' = [client EXCEPT ![c] = "closed"]
  /\ UNCHANGED <<sent, now, got, slotv, queue, notes, asyncq, sender, events, loss>>

(* After one second: report_all_device, for the connection that has or had *)
(* the context (only this thread gives contexts away).                     *)
Report ==
  /\ sender[Listener].at = "sleep"
  /\ sender' = [sender EXCEPT ![Listener] =
                   IF Devs = 0 THEN Idle ELSE [@ EXCEPT !.at = "check", !.left = Devs]]
  /\ UNCHANGED <<clientv, slotv, queue, notes, asyncq, events, loss>>

-----------------------------------------------------------------------------
(* Handler threads: tcp_client_handler. *)

PoolStart ==
  /\ waiting # <<>>
  /\ Cardinality(Running) < PoolSize
  /\ handler' = [handler EXCEPT ![Head(waiting)] = "select"]
  /\ waiting' = Tail(waiting)
  /\ UNCHANGED <<clientv, using, conn, hand, queue, notes, asyncq, sender, events,
                 loss>>

(* A request for the async thread: GET_STATUS, SET_STATUS, DO_ACTION, ... *)
ReadRequest(s) ==
  /\ handler[s] = "select"
  /\ client[conn[s]] = "open"
  /\ FoldFunction(+, 0, sent) < MaxReq
  /\ LET n == sent[conn[s]] + 1
     IN /\ sent' = [sent EXCEPT ![conn[s]] = n]
        /\ asyncq' = Append(asyncq, [slot |-> s, resp |-> [to |-> conn[s], n |-> n]])
  /\ UNCHANGED <<client, now, got, slotv, queue, notes, sender, events, loss>>

(* A command that the handler answers itself: some look into the registry  *)
(* or change it, under the device lock (GET_DEVS, GET_INFO, ADD_DEV,       *)
(* DEL_DEV, ...), others do not need the lock (the scenes).                *)
ReadNow(s) ==
  /\ handler[s] = "select"
  /\ client[conn[s]] = "open"
  /\ FoldFunction(+, 0, sent) < MaxReq
  /\ LET n == sent[conn[s]] + 1
     IN /\ sent' = [sent EXCEPT ![conn[s]] = n]
        /\ now' = [now EXCEPT ![conn[s]] = @ \cup {n}]
        /\ hand' = [hand EXCEPT ![s] = [to |-> conn[s], n |-> n]]
  /\ \E next \in {"lookup", "reply"} : handler' = [handler EXCEPT ![s] = next]
  /\ UNCHANGED <<client, got, using, conn, waiting, queue, notes, asyncq, sender,
                 events, loss>>

(* The registry is read, or changed: ADD_DEV and DEL_DEV then report a     *)
(* changed device to everybody, the handler's own context among them.      *)
Lookup(s) ==
  /\ handler[s] = "lookup"
  /\ ~DeviceLocked
  /\ handler' = [handler EXCEPT ![s] = "reply"]
  /\ \/ UNCHANGED <<sender, events>>
     \/ /\ events < MaxEvent
        /\ events' = events + 1
        /\ sender' = [sender EXCEPT ![s] = ToEverybody]
  /\ UNCHANGED <<clientv, using, conn, hand, waiting, queue, notes, asyncq, loss>>

(* The reply is written to the socket of the client, past its queue. If    *)
(* the client leaves no room for it for a second, it is dropped.           *)
Reply(s) ==
  /\ handler[s] = "reply"
  /\ sender[s].at = "idle"
  /\ \/ client[conn[s]] = "closed" /\ UNCHANGED <<got, lost>>
     \/ /\ client[conn[s]] = "open"
        /\ \/ got' = [got EXCEPT ![conn[s]] = @ \cup {hand[s]}] /\ UNCHANGED lost
           \/ lost' = lost \cup {hand[s]} /\ UNCHANGED got
  /\ handler' = [handler EXCEPT ![s] = "select"]
  /\ hand' = [hand EXCEPT ![s] = Idle.resp]
  /\ UNCHANGED <<client, sent, now, using, conn, waiting, queue, notes, asyncq, sender,
                 events, jammed>>

(* One datagram is read; _process_notify then empties the queue. *)
Notified(s) ==
  /\ handler[s] = "select"
  /\ notes[s] > 0
  /\ notes' = [notes EXCEPT ![s] = @ - 1]
  /\ handler' = [handler EXCEPT ![s] = "drain"]
  /\ UNCHANGED <<clientv, using, conn, hand, waiting, queue, asyncq, sender, events,
                 loss>>

(* g_queue_pop_head, without the context's mutex. *)
Pop(s) ==
  /\ handler[s] = "drain"
  /\ queue[s] # <<>>
  /\ queue' = [queue EXCEPT ![s] = Tail(@)]
  /\ hand' = [hand EXCEPT ![s] = Head(queue[s])]
  /\ handler' = [handler EXCEPT ![s] = "write"]
  /\ UNCHANGED <<clientv, using, conn, waiting, notes, asyncq, sender, events, loss>>

(* Faulty: one response is written per datagram. *)
WriteOne(s) ==
  /\ handler[s] = "write"
  /\ Online(hand[s]) => ~DeviceLocked
  /\ got' = IF client[conn[s]] = "open"
            THEN [got EXCEPT ![conn[s]] = @ \cup {hand[s]}] ELSE got
  /\ handler' = [handler EXCEPT ![s] = "select"]
  /\ hand' = [hand EXCEPT ![s] = Idle.resp]
  /\ UNCHANGED <<client, sent, now, using, conn, waiting, queue, notes, asyncq, sender,
                 events, loss>>

(* _make_notify_resp and write. An ONLINE event is filled in from the      *)
(* registry (get_dev_info), which takes the device lock. The write waits   *)
(* for room, for ever if the client does not read; to a closed connection  *)
(* it may fail, which ends _process_notify.                                *)
Write(s) ==
  /\ handler[s] = "write"
  /\ Online(hand[s]) => ~DeviceLocked
  /\ \/ /\ client[conn[s]] = "open"
        /\ got' = [got EXCEPT ![conn[s]] = @ \cup ({hand[s]} \ {Idle.resp})]
        /\ handler' = [handler EXCEPT ![s] = "drain"]
     \/ /\ client[conn[s]] = "closed"
        /\ \E next \in {"drain", "select"} : handler' = [handler EXCEPT ![s] = next]
        /\ UNCHANGED got
  /\ hand' = [hand EXCEPT ![s] = Idle.resp]
  /\ UNCHANGED <<client, sent, now, using, conn, waiting, queue, notes, asyncq, sender,
                 events, loss>>

Drained(s) ==
  /\ handler[s] = "drain"
  /\ queue[s] = <<>>
  /\ handler' = [handler EXCEPT ![s] = "select"]
  /\ UNCHANGED <<clientv, using, conn, hand, waiting, queue, notes, asyncq, sender,
                 events, loss>>

(* read finds the connection closed; put_client_context frees the context  *)
(* and its socket, and leaves the queue.                                   *)
HandlerExit(s) ==
  /\ handler[s] = "select"
  /\ client[conn[s]] = "closed"
  /\ handler' = [handler EXCEPT ![s] = "none"]
  /\ using' = [using EXCEPT ![s] = FALSE]
  /\ conn' = [conn EXCEPT ![s] = NoConn]
  /\ notes' = [notes EXCEPT ![s] = 0]
  /\ UNCHANGED <<clientv, hand, waiting, queue, asyncq, sender, events, loss>>

ClientClose(c) ==
  /\ client[c] = "open"
  /\ client' = [client EXCEPT ![c] = "closed"]
  /\ UNCHANGED <<sent, now, got, slotv, queue, notes, asyncq, sender, events, loss>>

-----------------------------------------------------------------------------
(* notify_resp, step by step, for each thread that calls it. *)

(* Faulty: the newest request is answered first. *)
AnswerLast ==
  /\ sender[Async].at = "idle" /\ asyncq # <<>>
  /\ sender' = [sender EXCEPT ![Async] =
                  [at |-> "check", slot |-> Last(asyncq).slot,
                   resp |-> Last(asyncq).resp, left |-> 1]]
  /\ asyncq' = Front(asyncq)
  /\ UNCHANGED <<clientv, slotv, queue, notes, events, loss>>

(* async_process_thread takes the oldest request; _process_dev_act         *)
(* answers it to the context it came from.                                 *)
Answer ==
  /\ sender[Async].at = "idle"
  /\ asyncq # <<>>
  /\ sender' = [sender EXCEPT ![Async] =
                  [at |-> "check", slot |-> Head(asyncq).slot,
                   resp |-> Head(asyncq).resp, left |-> 1]]
  /\ asyncq' = Tail(asyncq)
  /\ UNCHANGED <<clientv, slotv, queue, notes, events, loss>>

(* A driver thread reports an event to every context, from the first. *)
Event ==
  /\ sender[Driver].at = "idle"
  /\ events < MaxEvent
  /\ events' = events + 1
  /\ sender' = [sender EXCEPT ![Driver] = ToEverybody]
  /\ UNCHANGED <<clientv, slotv, queue, notes, asyncq, loss>>

(* The next call, or the next context of an event. *)
After(r) ==
  IF r.left <= 1 THEN Idle
  ELSE [r EXCEPT !.at = "check", !.left = @ - 1,
                 !.slot = IF r.resp.to = Everybody THEN @ + 1 ELSE @]

(* Faulty: a client that is being served is taken for absent. *)
CheckBusy(t) ==
  /\ sender[t].at = "check"
  /\ sender' = [sender EXCEPT ![t] =
                  IF using[sender[t].slot] /\ handler[sender[t].slot] # "write"
                  THEN [@ EXCEPT !.at = "push"] ELSE After(@)]
  /\ UNCHANGED <<clientv, slotv, queue, notes, asyncq, events, loss>>

(* The flag is read without a lock. *)
Check(t) ==
  /\ sender[t].at = "check"
  /\ sender' = [sender EXCEPT ![t] =
                  IF using[sender[t].slot] THEN [@ EXCEPT !.at = "push"] ELSE After(@)]
  /\ UNCHANGED <<clientv, slotv, queue, notes, asyncq, events, loss>>

(* g_queue_push_tail under the context's mutex, which the handler's pops   *)
(* do not take. A push that meets the pop of the last response is lost, or *)
(* leaves the queue with a tail and no head: then it looks empty for good, *)
(* whatever is pushed. (The handler is at "write" after such a pop.)       *)
Push(t) ==
  /\ sender[t].at = "push"
  /\ sender' = [sender EXCEPT ![t].at = "send"]
  /\ LET s == sender[t].slot
         r == sender[t].resp
     IN \/ /\ s \notin jammed
           /\ queue' = [queue EXCEPT ![s] = Append(@, r)]
           /\ UNCHANGED loss
        \/ /\ s \in jammed \/ (handler[s] = "write" /\ queue[s] = <<>>)
           /\ jammed' \in {jammed, jammed \cup {s}}
           /\ lost' = IF r.n > 0 THEN lost \cup {r} ELSE lost
           /\ UNCHANGED queue
  /\ UNCHANGED <<clientv, slotv, notes, asyncq, events>>

(* Faulty: without a socket the sender waits for one. *)
SendWaits(t) ==
  /\ sender[t].at = "send"
  /\ LET s == sender[t].slot
     IN using[s] /\ notes[s] < SockLen /\ notes' = [notes EXCEPT ![s] = @ + 1]
  /\ sender' = [sender EXCEPT ![t] = After(@)]
  /\ UNCHANGED <<clientv, slotv, queue, asyncq, events, loss>>

(* The datagram, which waits for room; without a socket it fails. *)
Send(t) ==
  /\ sender[t].at = "send"
  /\ LET s == sender[t].slot
     IN \/ ~using[s] /\ UNCHANGED notes
        \/ using[s] /\ notes[s] < SockLen /\ notes' = [notes EXCEPT ![s] = @ + 1]
  /\ sender' = [sender EXCEPT ![t] = After(@)]
  /\ UNCHANGED <<clientv, slotv, queue, asyncq, events, loss>>

-----------------------------------------------------------------------------
HandlerStep(s) == Lookup(s) \/ Reply(s) \/ Notified(s) \/ Pop(s) \/ Write(s)
                  \/ Drained(s) \/ HandlerExit(s)

NotifyStep(t) == Check(t) \/ Push(t) \/ Send(t)

Next ==
  \/ \E c \in Client : Accept(c) \/ Refuse(c) \/ ClientClose(c)
  \/ Report
  \/ PoolStart
  \/ \E s \in Slot : ReadRequest(s) \/ ReadNow(s) \/ HandlerStep(s)
  \/ Answer
  \/ Event
  \/ \E t \in Threads : NotifyStep(t)

Spec == Init /\ [][Next]_vars

(* The handler writes what it took from its queue to a client that is      *)
(* there, which need not read it.                                          *)
Writing(s) == handler[s] = "write" /\ client[conn[s]] = "open"

(* Every thread keeps running, but for a handler that writes to a client;  *)
(* clients need not do anything. A handler whose client is always sending  *)
(* still looks at its socket every time.                                   *)
Fairness ==
  /\ WF_vars(Report) /\ WF_vars(PoolStart) /\ WF_vars(Answer)
  /\ \A s \in Slot : SF_vars(Notified(s)) /\ WF_vars(~Writing(s) /\ HandlerStep(s))
  /\ \A t \in Threads : WF_vars(NotifyStep(t))

FairSpec == Spec /\ Fairness

-----------------------------------------------------------------------------
(* Properties. *)

(* A client receives a response meant for another one only if that one is  *)
(* gone: contexts are reused with what is left in their queues, and        *)
(* requests on their way outlive the connection.                           *)
OthersOnlyFromTheGone ==
  [][\A c \in Client : \A r \in got'[c] \ got[c] :
       r.to \notin {c, Everybody} => client[r.to] = "closed"]_vars

(* The answers to a client's requests arrive in the order of the requests, *)
(* except that a command which the handler answers at once may overtake    *)
(* requests that wait for the async thread.                                *)
AnswersInOrder ==
  [][\A c \in Client : \A r \in got'[c] \ got[c], q \in got[c] :
       r.to = c /\ q.to = c /\ r.n > 0 =>
         q.n < r.n \/ (q.n > r.n /\ q.n \in now[c] /\ r.n \notin now[c])]_vars

(* Where the answer to request n of client c may be. *)
OnItsWay(c, n) ==
  LET r == [to |-> c, n |-> n]
  IN \/ \E i \in DOMAIN asyncq : asyncq[i].resp = r
     \/ sender[Async].at \in {"check", "push"} /\ sender[Async].resp = r
     \/ \E s \in Slot : conn[s] = c /\ r \in ToSet(queue[s])
     \/ \E s \in Slot : conn[s] = c /\ handler[s] \in {"write", "lookup", "reply"}
                        /\ hand[s] = r

(* The answer to a request of a client that is still there is on its way   *)
(* or has arrived; it is lost only to the unlocked pop, or because the     *)
(* client read nothing for a second.                                       *)
NoAnswerLost ==
  \A c \in Client : client[c] = "open" =>
    \A n \in 1..sent[c] :
      [to |-> c, n |-> n] \in got[c] \cup lost \/ OnItsWay(c, n)

(* A handler does not sleep on an answer for its client: a datagram is in  *)
(* the socket or about to be sent.                                         *)
NoLostWakeup ==
  \A s \in Slot :
    (/\ handler[s] = "select"
     /\ client[conn[s]] = "open"
     /\ \E r \in ToSet(queue[s]) : r.to = conn[s])
    => \/ notes[s] > 0
       \/ \E t \in Threads : sender[t].at = "send" /\ sender[t].slot = s

(* Thread t waits for room in a context's socket. *)
Blocked(t) ==
  /\ sender[t].at = "send"
  /\ using[sender[t].slot]
  /\ notes[sender[t].slot] = SockLen

(* Nobody reads the socket of context s: no thread of the pool has come to *)
(* it; or its handler waits for its client to read; for the device lock,   *)
(* which the listening thread holds while it waits for room in a socket    *)
(* itself; or, in a notification of its own, for room in a socket.         *)
NotRead(s) ==
  \/ handler[s] = "queued"
  \/ Writing(s)
  \/ handler[s] \in {"lookup", "write"} /\ DeviceLocked /\ Blocked(Listener)
  \/ handler[s] = "reply" /\ Blocked(s)

(* A thread that reports something to a client gets on with its work,      *)
(* unless that client's socket stays full and is never read again.         *)
SendEnds ==
  \A t \in Threads :
    \/ []<>(sender[t].at # "send")
    \/ <>[](Blocked(t) /\ NotRead(sender[t].slot))

=============================================================================
