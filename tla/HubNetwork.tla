----------------------------- MODULE HubNetwork -----------------------------
(***************************************************************************)
(* The threads of the Python hub (src/src/python) and the queues between   *)
(* them: the network thread and its select loop, cmd_proc, the manager's   *)
(* loop, the thread of the Zigbee line, the audio thread, and the main     *)
(* thread that ends them all. A command goes                               *)
(*   client -> inq -> dataq -> (a reply) dataq -> outq -> the client       *)
(*                          -> (a frame) dataq -> phyq -> the line         *)
(* and each reader of outq and phyq is woken by a datagram to its socket.  *)
(*                                                                         *)
(* An exception nobody catches ends the thread it is raised in. With the   *)
(* network thread go its local variables, so all sockets are closed: the   *)
(* hub cannot be reached until it is started again, and a datagram to the  *)
(* thread is refused at once. The manager's thread is ended by the first   *)
(* answer of a device to a setting and by the first midnight. The audio    *)
(* thread is ended by the first result of the recogniser, but its socket   *)
(* stays open: whoever tells it something when it is full waits for ever.  *)
(***************************************************************************)
EXTENDS Integers, Sequences, FiniteSets, SequencesExt, Queues

CONSTANTS
  Client,    \* connections, over the life of the hub
  SockLen,   \* datagrams that a notification socket holds
  MaxWork    \* bound: commands, events of the manager, messages to the audio thread

ASSUME HubNetAssumption ==
  /\ Client \cap {"none", "accept", "notify"} = {}
  /\ SockLen \in Nat \ {0} /\ MaxWork \in Nat

VARIABLES
  peer,      \* each connection, as its client sees it
  sent,      \* the kinds of the commands of each connection, in order
  backlog,   \* connections to be accepted
  sock,      \* commands in the socket of each connection that are there as a whole
  torn,      \* before them there is the rest of a command that was cut
  net,       \* the network thread: "run", "dead", "ended"
  inputs,    \* its clients, in the order it accepted them
  outputs,   \* the clients that wait for their socket to be writable
  rd, wr,    \* what select returned and is still to be looked at
  inq, outq, \* hsb_network.inq, hsb_network.outq
  notes,     \* datagrams in un_network.listen
  cliq,      \* hsb_client.outq of each connection
  cmdproc,   \* cmd_proc runs
  dataq,     \* hsb_manager.dataq
  mgr,       \* the manager's thread: "idle", "notify", "phy", "dead", "ended"
  phyq, phynotes, phyout,  \* the line's queue, its datagrams, uart in outputs
  phy,       \* the line's thread: "run", "dead", "ended"
  audio,     \* the audio thread: "run", "dead", "ended"
  told,      \* datagrams in hsb_audio.listen
  tells,     \* messages of the speech daemons to it so far
  main,      \* the main thread: how far it is in ending the others
  events,    \* events reported so far
  got, line, \* history: what each client received; the frames sent
  lost       \* history: commands that were cut or dropped with the rest of one

clientv == <<peer, sent, got, lost>>
netv == <<backlog, sock, torn, net, inputs, outputs, rd, wr>>
mgrv == <<dataq, mgr, events>>
phyv == <<phyq, phynotes, phyout, phy, line>>
audiov == <<audio, told, tells>>
mainv == <<main, audiov>>
netVars == <<clientv, netv, inq, outq, notes, cliq, cmdproc, mgrv, phyv, mainv>>

Stop == [k |-> "stop", c |-> "none", n |-> 0]
EventNo(n) == [k |-> "event", c |-> "none", n |-> n]
Alive == net = "run"
InSelect == Alive /\ rd = <<>> /\ wr = <<>>

NetInit ==
  /\ peer = [c \in Client |-> "new"] /\ sent = [c \in Client |-> <<>>]
  /\ got = [c \in Client |-> <<>>] /\ lost = {}
  /\ backlog = <<>> /\ sock = [c \in Client |-> <<>>] /\ torn = [c \in Client |-> FALSE]
  /\ net = "run" /\ inputs = <<>> /\ outputs = <<>> /\ rd = <<>> /\ wr = <<>>
  /\ inq = <<>> /\ outq = <<>> /\ notes = 0 /\ cliq = [c \in Client |-> <<>>]
  /\ cmdproc = TRUE
  /\ dataq = <<>> /\ mgr = "idle" /\ events = 0
  /\ phyq = <<>> /\ phynotes = 0 /\ phyout = FALSE /\ phy = "run" /\ line = <<>>
  /\ audio = "run" /\ told = 0 /\ tells = 0 /\ main = "run"

-----------------------------------------------------------------------------
(* Clients. Bound: nothing new is begun while the hub is being ended or    *)
(* cannot be reached. Connections are named in the order they are made.    *)
Open == Alive /\ main = "run"

Connect(c) ==
  /\ Open /\ peer[c] = "new" /\ c = CHOOSE d \in Client : peer[d] = "new"
  /\ peer' = [peer EXCEPT ![c] = "open"]
  /\ backlog' = Append(backlog, c)
  /\ UNCHANGED <<sent, got, lost, sock, torn, net, inputs, outputs, rd, wr, inq, outq, notes,
                 cliq, cmdproc, mgrv, phyv, mainv>>

Work == events + tells + FoldLeft(LAMBDA s, c : s + Len(sent[c]), 0, SetToSeq(Client))

(* get_devices asks for a reply, set_devices for a frame. *)
Send(c, k) ==
  /\ Open /\ peer[c] = "open" /\ Work < MaxWork
  /\ sent' = [sent EXCEPT ![c] = Append(@, k)]
  /\ sock' = [sock EXCEPT ![c] = Append(@, [k |-> k, c |-> c, n |-> Len(sent'[c])])]
  /\ UNCHANGED <<peer, got, lost, backlog, torn, net, inputs, outputs, rd, wr, inq, outq, notes,
                 cliq, cmdproc, mgrv, phyv, mainv>>

(* It leaves; what it sent before may be lost with a reset. *)
Close(c) ==
  /\ peer[c] = "open" /\ Alive
  /\ peer' = [peer EXCEPT ![c] = "closed"]
  /\ \/ UNCHANGED <<sock, torn>>
     \/ sock' = [sock EXCEPT ![c] = <<>>] /\ torn' = [torn EXCEPT ![c] = FALSE]
  /\ UNCHANGED <<sent, got, lost, backlog, net, inputs, outputs, rd, wr, inq, outq, notes, cliq,
                 cmdproc, mgrv, phyv, mainv>>

-----------------------------------------------------------------------------
(* The network thread: hsb_network.run. *)

(* The thread ends, by an exception (dead) or because it is told to. *)
End(how) ==
  /\ net' = how
  /\ inputs' = <<>> /\ outputs' = <<>> /\ rd' = <<>> /\ wr' = <<>> /\ backlog' = <<>>
  /\ notes' = 0

Readable(c) == sock[c] # <<>> \/ torn[c] \/ peer[c] = "closed"

(* select returns in the order of the lists it was given: the listening    *)
(* socket, the notifications, the clients.                                 *)
Select ==
  /\ InSelect
  /\ rd' = (IF backlog = <<>> THEN <<>> ELSE <<"accept">>)
           \o (IF notes = 0 THEN <<>> ELSE <<"notify">>)
           \o Sift(inputs, {c \in Client : Readable(c)})
  /\ wr' = outputs
  /\ rd' \o wr' # <<>>
  /\ UNCHANGED <<clientv, backlog, sock, torn, net, inputs, outputs, inq, outq, notes, cliq,
                 cmdproc, mgrv, phyv, mainv>>

(* A new client; getpeername raises if it has reset the connection. *)
Accept ==
  /\ rd # <<>> /\ Head(rd) = "accept"
  /\ \/ /\ inputs' = Append(inputs, Head(backlog))
        /\ backlog' = Tail(backlog)
        /\ rd' = Tail(rd)
        /\ UNCHANGED <<net, outputs, wr, notes>>
     \/ peer[Head(backlog)] = "closed" /\ End("dead")
  /\ UNCHANGED <<clientv, sock, torn, inq, outq, cliq, cmdproc, mgrv, phyv, mainv>>

Receivers(x) == IF x.k = "event" THEN Range(inputs) ELSE {x.c} \cap Range(inputs)

(* A notification: everything in outq goes to the queues of its clients;   *)
(* None ends the thread.                                                   *)
Notified ==
  /\ rd # <<>> /\ Head(rd) = "notify"
  /\ IF Stop \in Range(outq)
     THEN /\ End("ended")
          /\ UNCHANGED <<cliq, outq>>
     ELSE /\ cliq' = [c \in Client |->
                        cliq[c] \o Sift(outq, {x \in Range(outq) : c \in Receivers(x)})]
          /\ outputs' = outputs \o Sift(inputs, {c \in Client :
                          c \notin Range(outputs) /\ cliq'[c] # cliq[c]})
          /\ outq' = <<>>
          /\ notes' = notes - 1 /\ rd' = Tail(rd)
          /\ UNCHANGED <<net, inputs, wr, backlog>>
  /\ UNCHANGED <<clientv, sock, torn, inq, cmdproc, mgrv, phyv, mainv>>

(* One recv of 1024 bytes: the next k commands and, perhaps, a part of the *)
(* one behind them, which is lost (bad length). What is behind a cut is    *)
(* not put together again: if a packet begins with the rest of a command,  *)
(* all of it is dropped (bad magic). Bound: that rest is read in one piece.*)
Packet(c) ==
  {p \in [k : 0..Len(sock[c]), cut : BOOLEAN] :
     /\ p.cut => p.k < Len(sock[c])
     /\ p.k > 0 \/ p.cut \/ torn[c]}

(* Faulty: one command of each packet. *)
FirstCommand(c, p) == IF torn[c] THEN <<>> ELSE SubSeq(sock[c], 1, IF p.k = 0 THEN 0 ELSE 1)
Commands(c, p) == IF torn[c] THEN <<>> ELSE SubSeq(sock[c], 1, p.k)
Behind(c, p) == IF p.cut THEN p.k + 1 ELSE p.k
Dropped(c, p) == Range(SubSeq(sock[c], IF torn[c] THEN 1 ELSE p.k + 1, Behind(c, p)))

(* Commands of a client. *)
Receive ==
  /\ rd # <<>> /\ Head(rd) \in Client
  /\ LET c == Head(rd) IN
       \E p \in Packet(c) :
         /\ inq' = inq \o Commands(c, p)
         /\ lost' = lost \cup Dropped(c, p)
         /\ sock' = [sock EXCEPT ![c] = SubSeq(@, Behind(c, p) + 1, Len(@))]
         /\ torn' = [torn EXCEPT ![c] = p.cut]
  /\ rd' = Tail(rd)
  /\ UNCHANGED <<peer, sent, got, backlog, net, inputs, outputs, wr, outq, notes, cliq, cmdproc,
                 mgrv, phyv, mainv>>

(* The end of its connection: it is forgotten, but not by this round. *)
Disconnect ==
  /\ rd # <<>> /\ Head(rd) \in Client
  /\ LET c == Head(rd) IN
       /\ sock[c] = <<>> /\ ~torn[c]
       /\ inputs' = Sift(inputs, Client \ {c}) /\ outputs' = Remove(outputs, c)
       /\ cliq' = [cliq EXCEPT ![c] = <<>>]
  /\ rd' = Tail(rd)
  /\ UNCHANGED <<clientv, backlog, sock, torn, net, wr, inq, outq, notes, cmdproc, mgrv, phyv,
                 mainv>>

(* Faulty: the client stops waiting after one item. *)
WaitsNot(c) == Remove(outputs, c)
WaitsOn(c) == outputs

(* Faulty: the queue of a client is read from its end. *)
LastOut(c) == Last(cliq[c])
NextOut(c) == Head(cliq[c])

(* A writable client: it is sent one item, or it has none left and stops   *)
(* waiting. The client may have been forgotten in the first half of the    *)
(* round (KeyError), or it may be gone (send raises, or the bytes are      *)
(* lost).                                                                  *)
Write ==
  /\ rd = <<>> /\ wr # <<>>
  /\ LET c == Head(wr) IN
       \/ /\ c \notin Range(inputs)
          /\ End("dead") /\ UNCHANGED <<got, cliq>>
       \/ /\ c \in Range(inputs) /\ cliq[c] = <<>>
          /\ outputs' = Remove(outputs, c) /\ wr' = Tail(wr)
          /\ UNCHANGED <<got, cliq, net, inputs, rd, backlog, notes>>
       \/ /\ c \in Range(inputs) /\ cliq[c] # <<>>
          /\ cliq' = [cliq EXCEPT ![c] = Tail(@)]
          /\ \/ /\ got' = IF peer[c] = "open"
                          THEN [got EXCEPT ![c] = Append(@, NextOut(c))] ELSE got
                /\ outputs' = WaitsOn(c) /\ wr' = Tail(wr)
                /\ UNCHANGED <<net, inputs, rd, backlog, notes>>
             \/ peer[c] = "closed" /\ End("dead") /\ UNCHANGED got
  /\ UNCHANGED <<peer, sent, lost, sock, torn, inq, outq, cmdproc, mgrv, phyv, mainv>>

-----------------------------------------------------------------------------
(* cmd_proc: inq to dataq, until it is told to end. *)
CmdProc ==
  /\ cmdproc /\ inq # <<>>
  /\ inq' = Tail(inq)
  /\ IF Head(inq) = Stop
     THEN cmdproc' = FALSE /\ UNCHANGED dataq
     ELSE dataq' = Append(dataq, Head(inq)) /\ UNCHANGED cmdproc
  /\ UNCHANGED <<clientv, netv, outq, notes, cliq, mgr, events, phyv, mainv>>

-----------------------------------------------------------------------------
(* The manager's loop: one item of its queue. *)
Exiting == main \in {"manager", "phy", "done"}

(* A command becomes a reply or a frame, put behind what is waiting. *)
DealCmd ==
  /\ mgr = "idle" /\ ~Exiting /\ dataq # <<>> /\ Head(dataq).k \in {"get", "set"}
  /\ dataq' = Append(Tail(dataq),
                [Head(dataq) EXCEPT !.k = IF @ = "get" THEN "reply" ELSE "frame"])
  /\ UNCHANGED <<clientv, netv, inq, outq, notes, cliq, cmdproc, mgr, events, phyv, mainv>>

(* on_reply, on_event *)
ToNetwork ==
  /\ mgr = "idle" /\ ~Exiting /\ dataq # <<>> /\ Head(dataq).k \in {"reply", "event"}
  /\ outq' = Append(outq, Head(dataq))
  /\ dataq' = Tail(dataq)
  /\ mgr' = "notify"
  /\ UNCHANGED <<clientv, netv, inq, notes, cliq, cmdproc, events, phyv, mainv>>

(* phy.write *)
ToPhy ==
  /\ mgr = "idle" /\ ~Exiting /\ dataq # <<>> /\ Head(dataq).k = "frame"
  /\ phyq' = Append(phyq, Head(dataq))
  /\ dataq' = Tail(dataq)
  /\ mgr' = "phy"
  /\ UNCHANGED <<clientv, netv, inq, outq, notes, cliq, cmdproc, events, phynotes, phyout, phy,
                 line, mainv>>

(* un_send blocks while the socket is full, and fails if nobody has it. *)
NotifyNetwork ==
  /\ mgr = "notify"
  /\ Alive => notes < SockLen
  /\ notes' = IF Alive THEN notes + 1 ELSE notes
  /\ mgr' = "idle"
  /\ UNCHANGED <<clientv, netv, inq, outq, cliq, cmdproc, dataq, events, phyv, mainv>>

NotifyPhy ==
  /\ mgr = "phy"
  /\ phy = "run" => phynotes < SockLen
  /\ phynotes' = IF phy = "run" THEN phynotes + 1 ELSE phynotes
  /\ mgr' = "idle"
  /\ UNCHANGED <<clientv, netv, inq, outq, notes, cliq, cmdproc, dataq, events, phyq, phyout,
                 phy, line, mainv>>

(* The manager reports something by itself. *)
Event ==
  /\ Open /\ mgr = "idle" /\ Work < MaxWork
  /\ events' = events + 1
  /\ dataq' = Append(dataq, EventNo(events'))
  /\ UNCHANGED <<clientv, netv, inq, outq, notes, cliq, cmdproc, mgr, phyv, mainv>>

(* An exception in one of its handlers: an answer of a device to a setting *)
(* (on_set_result), or midnight (time). Bound: it counts as an event.      *)
ManagerDies ==
  /\ Open /\ mgr = "idle" /\ Work < MaxWork
  /\ mgr' = "dead" /\ events' = events + 1
  /\ UNCHANGED <<clientv, netv, inq, outq, notes, cliq, cmdproc, dataq, phyv, mainv>>

ManagerEnds ==
  /\ mgr = "idle" /\ main = "manager"
  /\ mgr' = "ended"
  /\ UNCHANGED <<clientv, netv, inq, outq, notes, cliq, cmdproc, dataq, events, phyv, mainv>>

-----------------------------------------------------------------------------
(* The thread of the Zigbee line: phy_zigbee.work_proc. *)
PhyNotified ==
  /\ phy = "run" /\ phynotes > 0
  /\ phynotes' = phynotes - 1
  /\ phyout' = (phyout \/ phyq # <<>>)
  /\ phy' = IF main = "phy" THEN "ended" ELSE "run"
  /\ UNCHANGED <<clientv, netv, inq, outq, notes, cliq, cmdproc, mgrv, phyq, line, mainv>>

(* One frame, or none is left. The socket that stands for the line (test   *)
(* is TRUE) refuses a frame to a device that is not there.                 *)
PhyWrite ==
  /\ phy = "run" /\ phyout
  /\ IF phyq = <<>>
     THEN phyout' = FALSE /\ UNCHANGED <<phyq, phy, line>>
     ELSE /\ phyq' = Tail(phyq)
          /\ \/ line' = Append(line, Head(phyq)) /\ UNCHANGED phy
             \/ phy' = "dead" /\ UNCHANGED line
          /\ UNCHANGED phyout
  /\ UNCHANGED <<clientv, netv, inq, outq, notes, cliq, cmdproc, mgrv, phynotes, mainv>>

-----------------------------------------------------------------------------
(* The audio thread: hsb_audio.run. *)

(* A speech daemon reports to it. *)
AudioTold ==
  /\ Open /\ told < SockLen /\ Work < MaxWork
  /\ told' = told + 1 /\ tells' = tells + 1
  /\ UNCHANGED <<clientv, netv, inq, outq, notes, cliq, cmdproc, mgrv, phyv, main, audio>>

AudioExit == main \notin {"run", "cmdproc", "notify", "network"}

(* It is woken. A result of the recogniser raises: manager is no name that *)
(* on_asr_result knows. When it is to end it does not read what is there.  *)
AudioWoken ==
  /\ audio = "run" /\ told > 0
  /\ IF AudioExit
     THEN audio' = "ended" /\ UNCHANGED told
     ELSE told' = told - 1 /\ audio' \in {"run", "dead"}
  /\ UNCHANGED <<clientv, netv, inq, outq, notes, cliq, cmdproc, mgrv, phyv, main, tells>>

-----------------------------------------------------------------------------
(* The main thread: network.exit, audio.exit, then manager.exit, which     *)
(* ends the line.                                                          *)
Exit ==
  /\ main = "run"
  /\ main' = "cmdproc"
  /\ inq' = Append(inq, Stop)
  /\ UNCHANGED <<clientv, netv, outq, notes, cliq, cmdproc, mgrv, phyv, audiov>>

JoinCmdProc ==
  /\ main = "cmdproc" /\ ~cmdproc
  /\ main' = "notify"
  /\ outq' = Append(outq, Stop)
  /\ UNCHANGED <<clientv, netv, inq, notes, cliq, cmdproc, mgrv, phyv, audiov>>

(* Faulty: on_reply(None) without the datagram. *)
NotNotified == UNCHANGED notes
StopNotified ==
  /\ Alive => notes < SockLen
  /\ notes' = IF Alive THEN notes + 1 ELSE notes

StopNetwork ==
  /\ main = "notify" /\ StopNotified
  /\ main' = "network"
  /\ UNCHANGED <<clientv, netv, inq, outq, cliq, cmdproc, mgrv, phyv, audiov>>

JoinNetwork ==
  /\ main = "network" /\ ~Alive
  /\ main' = "audio"
  /\ UNCHANGED <<clientv, netv, inq, outq, notes, cliq, cmdproc, mgrv, phyv, audiov>>

(* The socket is that of an object that is still there: it takes datagrams *)
(* also when nobody reads them.                                            *)
StopAudio ==
  /\ main = "audio" /\ told < SockLen
  /\ told' = told + 1
  /\ main' = "listen"
  /\ UNCHANGED <<clientv, netv, inq, outq, notes, cliq, cmdproc, mgrv, phyv, audio, tells>>

JoinAudio ==
  /\ main = "listen" /\ audio # "run"
  /\ main' = "manager"
  /\ UNCHANGED <<clientv, netv, inq, outq, notes, cliq, cmdproc, mgrv, phyv, audiov>>

JoinManager ==
  /\ main = "manager" /\ mgr \in {"dead", "ended"}
  /\ phy = "run" => phynotes < SockLen
  /\ phynotes' = IF phy = "run" THEN phynotes + 1 ELSE phynotes
  /\ main' = "phy"
  /\ UNCHANGED <<clientv, netv, inq, outq, notes, cliq, cmdproc, mgrv, phyq, phyout, phy, line,
                 audiov>>

JoinPhy ==
  /\ main = "phy" /\ phy # "run"
  /\ main' = "done"
  /\ UNCHANGED <<clientv, netv, inq, outq, notes, cliq, cmdproc, mgrv, phyv, audiov>>

NetStep == Select \/ Accept \/ Notified \/ Receive \/ Disconnect \/ Write
MgrStep == DealCmd \/ ToNetwork \/ ToPhy \/ NotifyNetwork \/ NotifyPhy \/ ManagerEnds
PhyStep == PhyNotified \/ PhyWrite
MainStep == \/ JoinCmdProc \/ StopNetwork \/ JoinNetwork \/ StopAudio \/ JoinAudio
            \/ JoinManager \/ JoinPhy

NetNext ==
  \/ \E c \in Client : Connect(c) \/ Close(c) \/ \E k \in {"get", "set"} : Send(c, k)
  \/ NetStep \/ CmdProc \/ MgrStep \/ Event \/ ManagerDies \/ PhyStep
  \/ AudioTold \/ AudioWoken \/ Exit \/ MainStep

NetSpec == NetInit /\ [][NetNext]_netVars

(* Every thread gets on with what it can do. Nothing makes clients send or *)
(* leave, events happen, a handler raise, or the user end the hub.         *)
NetFairSpec ==
  /\ NetSpec
  /\ WF_netVars(NetStep) /\ WF_netVars(CmdProc) /\ WF_netVars(MgrStep) /\ WF_netVars(PhyStep)
  /\ WF_netVars(AudioWoken) /\ WF_netVars(MainStep)

-----------------------------------------------------------------------------
(* A client receives the replies to its commands in the order it sent      *)
(* them, and events in the order they happened, and the line carries the   *)
(* frames of a client in the order of its commands, although each passes   *)
(* through five queues and four threads.                                   *)
InOrder ==
  \A c \in Client :
    /\ \A i, j \in DOMAIN got[c] :
         i < j /\ got[c][i].k = got[c][j].k => got[c][i].n < got[c][j].n
    /\ \A i, j \in DOMAIN line :
         i < j /\ line[i].c = c /\ line[j].c = c => line[i].n < line[j].n

(* A request of a client that stays is in exactly one place until the      *)
(* client has its reply, whatever other clients do, unless the network     *)
(* thread has ended, or recv cut it or the command before it: then it is   *)
(* in no place at all.                                                     *)
Count(q, c, n) == Cardinality({i \in DOMAIN q : q[i].c = c /\ q[i].n = n})
PlacesOf(c, n) ==
  Count(sock[c], c, n) + Count(inq, c, n) + Count(dataq, c, n) + Count(outq, c, n)
  + Count(cliq[c], c, n) + Count(got[c], c, n)
Gone(c, n) == [k |-> "get", c |-> c, n |-> n] \in lost
NoReplyLost ==
  \A c \in Client : \A n \in DOMAIN sent[c] :
    Alive /\ peer[c] = "open" /\ sent[c][n] = "get"
      => PlacesOf(c, n) = IF Gone(c, n) THEN 0 ELSE 1

(* As long as no client leaves and the manager's thread lives, every       *)
(* request for a reply that was not cut is answered. (One client that      *)
(* leaves with an answer still to be sent can end the network thread for   *)
(* all; a client that stays cannot, nor can the audio thread's death.)     *)
Answered ==
  \A c \in Client : \A n \in DOMAIN sent[c] :
    sent[c][n] = "get" =>
      \/ [k |-> "reply", c |-> c, n |-> n] \in Range(got[c])
      \/ Gone(c, n)
EveryoneAnswered ==
  []<>(Answered \/ main # "run" \/ mgr = "dead" \/ \E c \in Client : peer[c] = "closed")

(* When the user ends the hub it ends, also if the network thread, the     *)
(* manager's or the line's died before, unless audio.exit finds nobody to  *)
(* read a full socket: no join waits for a thread that does not come, and  *)
(* no other datagram is sent to a socket that nobody empties.              *)
AudioFull == main = "audio" /\ audio # "run" /\ told = SockLen
ExitEnds == (main # "run") ~> (main = "done" \/ AudioFull)
=============================================================================
