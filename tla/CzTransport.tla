----------------------------- MODULE CzTransport -----------------------------
(***************************************************************************)
(* The request channel of the Zigbee driver (driver_cg_zigbee.c). One      *)
(* thread at a time, the device module's async thread, sends requests      *)
(* (sample_set_status, sample_get_status, sample_set_action): it fills     *)
(* send_buf under cond_mutex, tells the monitor thread by a datagram and   *)
(* waits once, at most CZ_TIMEOUT, for its answer in recv_buf. The monitor *)
(* writes send_buf to the UART, reads answers from it and hands over the   *)
(* one that carries the current trans_id. The async thread and, once, the  *)
(* main thread also broadcast probes through the same send_buf.            *)
(*                                                                         *)
(* Requests are counted from 1; trans_id is the count modulo Wrap. Answers *)
(* of different devices arrive in any order, late or not at all. What an   *)
(* answer says (its command, its result) decides only what the request     *)
(* returns, and is left out.                                               *)
(***************************************************************************)
EXTENDS Integers, FiniteSets

CONSTANTS
  Wrap,      \* trans_id is counted modulo this (2^16)
  MaxReq,    \* bound: requests made, so no number is used twice
  MaxProbe,  \* bound: probes of the async thread
  QLen       \* datagrams that the monitor's socket holds

ASSUME TransportAssumption ==
  /\ Wrap \in Nat \ {0} /\ QLen \in Nat \ {0} /\ MaxProbe \in Nat
  /\ MaxReq \in 1..Wrap

VARIABLES
  pc,          \* where the async thread and the main thread are
  lock,        \* who holds cond_mutex
  seq,         \* the current or next request; trans_id is seq % Wrap
  is_waiting,  \* a request waits for its answer
  send_buf,    \* the request whose frame is in send_buf; Discover: a probe
  recv_buf,    \* the request whose answer is in recv_buf
  wake,        \* what ended the async thread's wait
  notes,       \* datagrams in the monitor's socket
  mon,         \* where the monitor thread is
  hand,        \* the request whose answer the monitor has read
  air,         \* per request: frames written and not yet answered
  probes,      \* probes of the async thread so far
  last,        \* history: how the request before seq ended
  tried,       \* history: the frames the monitor tried to write since the last
               \* request ended
  probed,      \* history: the request, if somebody probed since it began
  overtaken    \* history: requests that ended while the monitor was handing
               \* an answer over

reqv == <<seq, last, overtaken>>
monv == <<mon, hand, air, tried>>
czVars == <<pc, lock, seq, is_waiting, send_buf, recv_buf, wake, notes, mon, hand,
          air, probes, last, tried, probed, overtaken>>

Req == 1..MaxReq
Discover == 0
NoReq == 0
Threads == {"async", "main"}

(* How a request ended: what woke it and whose answer it then read. *)
Ending == [how : {"signal", "timeout", "spurious"}, got : Req \cup {NoReq}]
Running == [how |-> "timeout", got |-> NoReq]

InRequest == pc["async"] \in {"enter", "notify", "wait", "woken"}

-----------------------------------------------------------------------------
CzInit ==
  /\ pc = [t \in Threads |-> IF t = "async" THEN "idle" ELSE "start"]
  /\ lock = "none"
  /\ seq = 1
  /\ is_waiting = FALSE
  /\ send_buf = Discover
  /\ recv_buf = NoReq
  /\ wake = "none"
  /\ notes = 0
  /\ mon = "select"
  /\ hand = NoReq
  /\ air = [r \in Req |-> 0]
  /\ probes = 0
  /\ last = Running
  /\ tried = {} /\ probed = {} /\ overtaken = {}

-----------------------------------------------------------------------------
(* Requests. *)

(* The device is known and the deadline is taken, before the lock. *)
StartRequest ==
  /\ pc["async"] = "idle"
  /\ seq <= MaxReq
  /\ pc' = [pc EXCEPT !["async"] = "enter"]
  /\ UNCHANGED <<reqv, lock, is_waiting, send_buf, recv_buf, wake, notes, monv,
                 probes, probed>>

LockRequest ==
  /\ pc["async"] = "enter"
  /\ lock = "none"
  /\ lock' = "async"
  /\ is_waiting' = TRUE
  /\ send_buf' = seq
  /\ pc' = [pc EXCEPT !["async"] = "notify"]
  /\ UNCHANGED <<reqv, recv_buf, wake, notes, monv, probes, probed>>

(* Faulty: a monitor that is not asleep is not told. *)
NotifyIfAsleep ==
  /\ pc["async"] = "notify" /\ notes < QLen
  /\ notes' = IF mon = "select" THEN notes + 1 ELSE notes
  /\ lock' = "none"
  /\ pc' = [pc EXCEPT !["async"] = "wait"]
  /\ UNCHANGED <<reqv, is_waiting, send_buf, recv_buf, wake, monv, probes, probed>>

(* notify_process, which blocks while the socket is full, and the start of *)
(* pthread_cond_timedwait, which releases the lock.                        *)
NotifyRequest ==
  /\ pc["async"] = "notify"
  /\ notes < QLen
  /\ notes' = notes + 1
  /\ lock' = "none"
  /\ pc' = [pc EXCEPT !["async"] = "wait"]
  /\ UNCHANGED <<reqv, is_waiting, send_buf, recv_buf, wake, monv, probes, probed>>

(* Faulty: the wait has no deadline. *)
NoDeadline(how) ==
  /\ pc["async"] = "wait" /\ how = "spurious"
  /\ pc' = [pc EXCEPT !["async"] = "woken"]
  /\ wake' = how
  /\ UNCHANGED <<reqv, lock, is_waiting, send_buf, recv_buf, notes, monv, probes,
                 probed>>

(* The wait ends without a signal. It is not in a loop, so a spurious      *)
(* wakeup is taken for the answer.                                         *)
EndWait(how) ==
  /\ pc["async"] = "wait"
  /\ pc' = [pc EXCEPT !["async"] = "woken"]
  /\ wake' = how
  /\ UNCHANGED <<reqv, lock, is_waiting, send_buf, recv_buf, notes, monv, probes,
                 probed>>

(* pthread_cond_timedwait has the lock again; recv_buf is read, the flag   *)
(* reset, trans_id incremented on every path, and the lock released.       *)
FinishRequest ==
  /\ pc["async"] = "woken"
  /\ lock = "none"
  /\ last' = [how |-> wake, got |-> IF wake = "timeout" THEN NoReq ELSE recv_buf]
  /\ overtaken' = IF mon \in {"lock", "signal"} THEN overtaken \cup {seq} ELSE overtaken
  /\ is_waiting' = FALSE
  /\ seq' = seq + 1
  /\ pc' = [pc EXCEPT !["async"] = "idle"]
  /\ wake' = "none"
  /\ tried' = {} /\ probed' = {}
  /\ UNCHANGED <<lock, send_buf, recv_buf, notes, mon, hand, air, probes>>

-----------------------------------------------------------------------------
(* Probes: cz_probe, by the async thread for HSB_CMD_PROBE_DEV and by the  *)
(* main thread at the end of init_dev_module.                              *)

ProbeLock(t) ==
  /\ \/ t = "async" /\ pc[t] = "idle" /\ probes < MaxProbe /\ probes' = probes + 1
     \/ t = "main" /\ pc[t] = "start" /\ UNCHANGED probes
  /\ lock = "none"
  /\ lock' = t
  /\ is_waiting' = FALSE
  /\ send_buf' = Discover
  /\ probed' = IF InRequest THEN probed \cup {seq} ELSE probed
  /\ pc' = [pc EXCEPT ![t] = "probe"]
  /\ UNCHANGED <<reqv, recv_buf, wake, notes, monv>>

ProbeNotify(t) ==
  /\ pc[t] = "probe"
  /\ notes < QLen
  /\ notes' = notes + 1
  /\ lock' = "none"
  /\ pc' = [pc EXCEPT ![t] = "idle"]
  /\ UNCHANGED <<reqv, is_waiting, send_buf, recv_buf, wake, monv, probes, probed>>

-----------------------------------------------------------------------------
(* The monitor thread. *)

(* select and recvfrom: datagrams come before the UART. *)
MonTake ==
  /\ mon = "select"
  /\ notes > 0
  /\ notes' = notes - 1
  /\ mon' = "write"
  /\ UNCHANGED <<reqv, pc, lock, is_waiting, send_buf, recv_buf, wake, hand, air,
                 probes, tried, probed>>

(* write_timeout of what is in send_buf, without the lock; it may fail. *)
MonWrite ==
  /\ mon = "write"
  /\ mon' = "select"
  /\ tried' = IF send_buf = Discover THEN tried ELSE tried \cup {send_buf}
  /\ \/ UNCHANGED air
     \/ /\ send_buf # Discover
        /\ air' = [air EXCEPT ![send_buf] = @ + 1]
  /\ UNCHANGED <<reqv, pc, lock, is_waiting, send_buf, recv_buf, wake, notes, hand,
                 probes, probed>>

(* The answer to request r is read from the UART. *)
MonRead(r) ==
  /\ mon = "select"
  /\ notes = 0
  /\ air[r] > 0
  /\ air' = [air EXCEPT ![r] = @ - 1]
  /\ hand' = r
  /\ mon' = "check"
  /\ UNCHANGED <<reqv, pc, lock, is_waiting, send_buf, recv_buf, wake, notes,
                 probes, tried, probed>>

(* Faulty: the number is not compared. *)
MonCheckAny ==
  /\ mon = "check"
  /\ mon' = IF hand % Wrap # 0 THEN "lock" ELSE "select"
  /\ UNCHANGED <<reqv, pc, lock, is_waiting, send_buf, recv_buf, wake, notes, hand,
                 air, probes, tried, probed>>

(* deal_recv_buf before the lock: number 0 marks what devices send of      *)
(* their own accord, other numbers must be the current one.                *)
MonCheck ==
  /\ mon = "check"
  /\ mon' = IF hand % Wrap # 0 /\ hand % Wrap = seq % Wrap THEN "lock" ELSE "select"
  /\ UNCHANGED <<reqv, pc, lock, is_waiting, send_buf, recv_buf, wake, notes, hand,
                 air, probes, tried, probed>>

(* deal_recv_buf under the lock. *)
MonStore ==
  /\ mon = "lock"
  /\ lock = "none"
  /\ \/ ~is_waiting /\ mon' = "select" /\ UNCHANGED recv_buf
     \/ is_waiting /\ mon' = "signal" /\ recv_buf' = hand
  /\ UNCHANGED <<reqv, pc, lock, is_waiting, send_buf, wake, notes, hand, air,
                 probes, tried, probed>>

(* pthread_cond_signal, after the lock was released. *)
MonSignal ==
  /\ mon = "signal"
  /\ mon' = "select"
  /\ \/ /\ pc["async"] = "wait"
        /\ pc' = [pc EXCEPT !["async"] = "woken"]
        /\ wake' = "signal"
     \/ pc["async"] # "wait" /\ UNCHANGED <<pc, wake>>
  /\ UNCHANGED <<reqv, lock, is_waiting, send_buf, recv_buf, notes, hand, air,
                 probes, tried, probed>>

-----------------------------------------------------------------------------
CzNext ==
  \/ StartRequest
  \/ LockRequest
  \/ NotifyRequest
  \/ \E how \in {"timeout", "spurious"} : EndWait(how)
  \/ FinishRequest
  \/ \E t \in Threads : ProbeLock(t) \/ ProbeNotify(t)
  \/ MonTake
  \/ MonWrite
  \/ \E r \in Req : MonRead(r)
  \/ MonCheck
  \/ MonStore
  \/ MonSignal

CzSpec == CzInit /\ [][CzNext]_czVars

(* Every thread keeps running, and the clock reaches the deadline. *)
Fairness ==
  /\ WF_czVars(LockRequest) /\ WF_czVars(NotifyRequest) /\ WF_czVars(FinishRequest)
  /\ WF_czVars(EndWait("timeout"))
  /\ \A t \in Threads : WF_czVars(ProbeNotify(t))
  /\ WF_czVars(MonTake) /\ WF_czVars(MonWrite) /\ WF_czVars(MonCheck)
  /\ WF_czVars(MonStore) /\ WF_czVars(MonSignal)

CzFairSpec == CzSpec /\ Fairness

-----------------------------------------------------------------------------
(* Properties. *)

(* Every variable has its type. *)
TypeOK ==
  /\ pc \in [Threads -> {"idle", "enter", "notify", "wait", "woken", "probe", "start"}]
  /\ lock \in Threads \cup {"none"}
  /\ seq \in 1..(MaxReq + 1)
  /\ is_waiting \in BOOLEAN
  /\ send_buf \in Req \cup {Discover}
  /\ recv_buf \in Req \cup {NoReq}
  /\ wake \in {"none", "signal", "timeout", "spurious"}
  /\ notes \in 0..QLen
  /\ mon \in {"select", "write", "check", "lock", "signal"}
  /\ hand \in Req \cup {NoReq}
  /\ air \in [Req -> Nat]
  /\ probes \in 0..MaxProbe
  /\ last \in Ending
  /\ tried \in SUBSET Req /\ probed \in SUBSET Req /\ overtaken \in SUBSET Req

(* A request that a signal woke read its own answer, or that of a request  *)
(* which ended, by its deadline for one, while the monitor was between the *)
(* unlocked comparison of the numbers and the signal: late, doubled and    *)
(* reordered answers are never believed otherwise.                         *)
WrongAnswerIsOvertaken ==
  last.how = "signal" => last.got = seq - 1 \/ last.got \in overtaken

(* A request that waits has had its frame written (or tried), once the     *)
(* monitor has taken all datagrams, unless somebody probed meanwhile: the  *)
(* datagrams do not say which buffer they announce.                        *)
FrameTried ==
  pc["async"] = "wait" /\ notes = 0 /\ mon # "write" =>
    seq \in tried \cup probed

(* A thread holds the lock and waits for room in the monitor's socket,     *)
(* while the monitor, with an answer in its hands, waits for the lock.     *)
Deadlocked ==
  /\ mon = "lock"
  /\ notes = QLen
  /\ \E t \in Threads : pc[t] \in {"notify", "probe"}

(* Every request ends, and with it the turn of the async thread, which     *)
(* serves all clients: that deadlock, for which QLen datagrams must come   *)
(* while the monitor looks at one answer, is the only thing in its way.    *)
RequestEnds == InRequest ~> (pc["async"] = "idle" \/ Deadlocked)

=============================================================================
