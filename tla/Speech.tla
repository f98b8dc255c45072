------------------------------- MODULE Speech -------------------------------
(***************************************************************************)
(* A speech daemon and the recorder it uses (lib/linuxrec.c): asr_daemon   *)
(* with asr.c, which recognises a sentence, or awaken_daemon with ivw.c,   *)
(* which waits for the word that wakes the box; the two are one program    *)
(* with different callbacks. Three threads run in it:                      *)
(*   main   takes datagrams, starts and stops the listening                *)
(*   rec    the recorder's thread: reads audio, writes it to the session   *)
(*   lib    a thread of the speech library, which calls back (awaken)      *)
(* They share asrr (ivwr), working and the recorder without any lock. What *)
(* the daemon finds out it sends to the audio thread of the Python hub.    *)
(*                                                                         *)
(* The library and ALSA may refuse every call. A recorder that is used     *)
(* after it was freed is undefined behaviour: the process is dead, and     *)
(* nothing is said about what it does.                                     *)
(***************************************************************************)
EXTENDS Integers, Sequences

CONSTANTS
  Kind,      \* the daemons considered, of {"asr", "awaken"}
  MailLen,   \* datagrams that the daemon's socket holds
  FbLen,     \* datagrams that the hub's socket holds
  MaxCmd     \* bound: datagrams of clients

ASSUME SpeechAssumption ==
  /\ Kind \subseteq {"asr", "awaken"}
  /\ MailLen \in Nat \ {0} /\ FbLen \in Nat \ {0} /\ MaxCmd \in Nat

VARIABLES
  kind,      \* which of the daemons this is
  mail,      \* datagrams in its socket
  cmds,      \* datagrams clients have sent
  pc,        \* what each thread does next
  working,   \* working
  state,     \* asrr.state: "INIT", "STARTED"
  session,   \* asrr.session_id: "null", "open", or "ended" (but not null)
  recorder,  \* asrr.recorder is not null
  rec,       \* the recorder's state, "freed" or "none" (never created)
  hdl,       \* its PCM is open (also after it was freed)
  again,     \* the error that rec handles has not returned yet
  cancel,    \* rec is cancelled
  hub, fb,   \* the hub's audio thread, the datagrams in its socket
  dead,      \* the process is dead
  faults     \* history: what went wrong since the last start

recv == <<recorder, rec, hdl, cancel>>
asrv == <<working, state, session>>
hubv == <<hub, fb>>
mailv == <<mail, cmds>>
spVars == <<kind, mailv, pc, asrv, recv, again, hubv, dead, faults>>

Thread == {"main", "rec", "lib"}
Goto(p, l) == pc' = [pc EXCEPT ![p] = l]
Opened == {"READY", "STOPPING", "RECORDING"}

SpInit ==
  /\ kind \in Kind
  /\ mail = <<>> /\ cmds = 0
  /\ pc = [main |-> "idle", rec |-> "none", lib |-> "none"]
  /\ working = FALSE /\ state = "INIT" /\ session = "null"
  /\ recorder = FALSE /\ rec = "none" /\ hdl = FALSE /\ cancel = FALSE
  /\ again = FALSE
  /\ hub = "on" /\ fb = <<>>
  /\ dead = FALSE /\ faults = {}

(* Somebody sends the daemon a command: hsb_audio, asr_object. *)
Send(k) ==
  /\ ~dead /\ cmds < MaxCmd /\ Len(mail) < MailLen
  /\ cmds' = cmds + 1 /\ mail' = Append(mail, k)
  /\ UNCHANGED <<kind, pc, asrv, recv, again, hubv, dead, faults>>

(* hsb_audio.on_result: the name of the manager is not known there, so the *)
(* first result of a recognition ends the thread; its socket stays open.   *)
(* What is told of a word and of an error are names it does not know.      *)
HubRead ==
  /\ hub = "on" /\ fb # <<>>
  /\ fb' = Tail(fb)
  /\ hub' = IF Head(fb) = "asr_result" THEN "dead" ELSE "on"
  /\ UNCHANGED <<kind, mailv, pc, asrv, recv, again, dead, faults>>

-----------------------------------------------------------------------------
(* The recorder. *)

(* set_hwparams, set_swparams: the device takes the format or does not. *)
ParamsTaken == BOOLEAN

(* open_recorder says 0 also when the PCM could not be opened or set up. *)
OpenRecorder ==
  \E ok \in ParamsTaken :
    /\ rec' = IF ok THEN "READY" ELSE "CREATED"
    /\ hdl' = ok
    /\ faults' = IF ok THEN {} ELSE {"open"}
    /\ pc' = [pc EXCEPT !["main"] = "begin", !["rec"] = IF ok THEN "loop" ELSE "none"]

(* stop_record; snd_pcm_drop may fail. *)
StopRecord ==
  IF rec = "RECORDING"
  THEN \/ rec' = "READY" /\ UNCHANGED faults
       \/ rec' = "STOPPING" /\ faults' = faults \cup {"drop"}
  ELSE UNCHANGED <<rec, faults>>

(* record_thread_proc: at the top of its loop. *)
RecLoop ==
  /\ ~dead /\ pc["rec"] = "loop"
  /\ \/ rec = "CLOSING" /\ Goto("rec", "none")
     \/ rec = "RECORDING" /\ Goto("rec", "read")
  /\ UNCHANGED <<kind, mailv, asrv, recv, again, hubv, dead, faults>>

(* pcm_read: a period of audio, or it fails and the thread returns without *)
(* a word, or it waits for audio that does not come (after an overrun the  *)
(* PCM is prepared but not started again).                                 *)
PcmRead ==
  /\ ~dead /\ pc["rec"] = "read"
  /\ \/ Goto("rec", "cb") /\ UNCHANGED faults
     \/ Goto("rec", "none") /\ faults' = faults \cup {"read"}
     \/ Goto("rec", "blocked") /\ faults' = faults \cup {"read"}
  /\ UNCHANGED <<kind, mailv, asrv, recv, again, hubv, dead>>

(* The thread is cancelled where POSIX has a cancellation point: usleep,   *)
(* the read, sendto.                                                       *)
Cancelled ==
  /\ ~dead /\ cancel
  /\ pc["rec"] \in {"loop", "read", "blocked", "result", "tell", "report", "selfstop"}
  /\ Goto("rec", "none")
  /\ UNCHANGED <<kind, mailv, asrv, recv, again, hubv, dead, faults>>

-----------------------------------------------------------------------------
(* The session: asr.c and ivw.c. *)

(* asr_cb, ivw_cb: no audio is written to a session that has ended. *)
Callback ==
  /\ ~dead /\ pc["rec"] = "cb"
  /\ Goto("rec", IF state = "STARTED" THEN "write" ELSE "loop")
  /\ UNCHANGED <<kind, mailv, asrv, recv, again, hubv, dead, faults>>

(* asr_write_audio_data. The speech may be over; then the end of the audio *)
(* is written, and if that fails too the error does not end the function.  *)
AsrWrite ==
  /\ ~dead /\ pc["rec"] = "write" /\ kind = "asr"
  /\ \/ Goto("rec", "loop") /\ again' = FALSE
     \/ Goto("rec", "fail") /\ again' \in BOOLEAN
     \/ Goto("rec", "result") /\ again' = FALSE
  /\ UNCHANGED <<kind, mailv, asrv, recv, hubv, dead, faults>>

(* ivw_write_audio_data and its caller both handle an error; the library   *)
(* may report the word from within the call.                               *)
IvwWrite ==
  /\ ~dead /\ pc["rec"] = "write" /\ kind = "awaken"
  /\ \/ Goto("rec", "loop") /\ again' = FALSE
     \/ Goto("rec", "fail") /\ again' = TRUE
     \/ Goto("rec", "tell") /\ again' = FALSE
  /\ UNCHANGED <<kind, mailv, asrv, recv, hubv, dead, faults>>

(* QISRGetResult, every 150 ms until the result is complete. *)
GetResult ==
  /\ ~dead /\ pc["rec"] = "result"
  /\ again' = FALSE
  /\ Goto("rec", "report") \/ Goto("rec", "fail")
  /\ UNCHANGED <<kind, mailv, asrv, recv, hubv, dead, faults>>

(* end_asr_on_error, end_ivw_on_error *)
EndOnError ==
  /\ ~dead /\ pc["rec"] = "fail"
  /\ IF recorder THEN StopRecord ELSE UNCHANGED <<rec, faults>>
  /\ Goto("rec", "ends")
  /\ UNCHANGED <<kind, mailv, asrv, recorder, hdl, cancel, again, hubv, dead>>

EndSession ==
  /\ ~dead /\ pc["rec"] = "ends"
  /\ session' = "null" /\ state' = "INIT"
  /\ Goto("rec", "tell")
  /\ UNCHANGED <<kind, mailv, working, recv, again, hubv, dead, faults>>

(* cb_ivw_msg_proc: the library reports the word, or an error, by itself. *)
IvwMessage ==
  /\ ~dead /\ kind = "awaken" /\ pc["lib"] = "none" /\ session = "open"
  /\ Goto("lib", "tell")
  /\ UNCHANGED <<kind, mailv, asrv, recv, again, hubv, dead, faults>>

(* asr_stop_listening, ivw_stop_listening: stop recording, *)
Halt(p) ==
  /\ ~dead /\ pc[p] = "halt"
  /\ IF state = "INIT" \/ ~recorder
     THEN Goto(p, "close") /\ UNCHANGED <<rec, faults>>
     ELSE /\ StopRecord
          /\ Goto(p, IF rec = "RECORDING" /\ rec' = "STOPPING" THEN "close" ELSE "quiet")
  /\ UNCHANGED <<kind, mailv, asrv, recorder, hdl, cancel, again, hubv, dead>>

(* is_record_stopped asks ALSA, which does not survive a PCM that is not   *)
(* there.                                                                  *)
Answers == recorder /\ rec # "CREATED"

(* wait until the PCM has stopped (not until the thread is quiet),         *)
Quiet(p) ==
  /\ ~dead /\ pc[p] = "quiet"
  /\ IF Answers
     THEN state' = "INIT" /\ Goto(p, "last") /\ UNCHANGED dead
     ELSE dead' = TRUE /\ UNCHANGED <<state, pc>>
  /\ UNCHANGED <<kind, mailv, working, session, recv, again, hubv, faults>>

(* and end the session. *)
LastSample(p) ==
  /\ ~dead /\ pc[p] = "last"
  /\ session' \in {"null", "ended"}
  /\ Goto(p, "close")
  /\ UNCHANGED <<kind, mailv, working, state, recv, again, hubv, dead, faults>>

(* Faulty: the thread is not cancelled. *)
NoCancel == UNCHANGED cancel
Cancel == cancel' = TRUE

(* asr_uninit and close_recorder: the record thread is cancelled, also by  *)
(* itself; a recorder that was never opened is asked first if it stopped.  *)
Close(p) ==
  /\ ~dead /\ pc[p] = "close"
  /\ \/ /\ recorder /\ rec \in Opened
        /\ rec' = "CLOSING" /\ Cancel /\ Goto(p, "join") /\ UNCHANGED dead
     \/ /\ recorder /\ ~Answers
        /\ dead' = TRUE /\ UNCHANGED <<pc, rec, cancel>>
     \/ /\ ~recorder \/ rec \notin Opened \cup {"CREATED"}
        /\ Goto(p, "free") /\ UNCHANGED <<rec, cancel, dead>>
  /\ UNCHANGED <<kind, mailv, asrv, recorder, hdl, again, hubv, faults>>

(* Faulty: nobody waits for the thread. *)
NotAwaited == TRUE
Quit == pc["rec"] = "none"

(* close_recorder_internal: the PCM is closed when the thread has quit. *)
Join(p) ==
  /\ ~dead /\ pc[p] = "join" /\ p # "rec"
  /\ Quit
  /\ rec' = "CREATED" /\ hdl' = FALSE /\ cancel' = FALSE
  /\ Goto(p, "free")
  /\ UNCHANGED <<kind, mailv, asrv, recorder, again, hubv, dead, faults>>

(* A thread that joins itself ends there, and nothing more is closed. *)
SelfJoin ==
  /\ ~dead /\ pc["rec"] = "join"
  /\ Goto("rec", "none")
  /\ faults' = faults \cup {"self"}
  /\ UNCHANGED <<kind, mailv, asrv, recv, again, hubv, dead>>

(* Where a thread goes on when the listening is undone. *)
ReturnsTo(p) ==
  CASE p = "main" -> "idle"
    [] p = "lib" -> "none"
    [] p = "rec" /\ again -> IF kind = "asr" THEN "result" ELSE "fail"
    [] OTHER -> "loop"

(* Faulty: working is not reset. *)
StillWorking == UNCHANGED working
NotWorking == working' = FALSE

(* destroy_recorder, and the caller's working = false. Another thread may  *)
(* be in close_recorder_internal, with the recorder in its hands.          *)
Free(p) ==
  /\ ~dead /\ pc[p] = "free"
  /\ dead' = (\E q \in Thread : pc[q] = "join")
  /\ rec' = IF recorder THEN "freed" ELSE rec
  /\ recorder' = FALSE
  /\ NotWorking
  /\ Goto(p, ReturnsTo(p)) /\ again' = (again /\ p # "rec")
  /\ UNCHANGED <<kind, mailv, state, session, hdl, cancel, hubv, faults>>

-----------------------------------------------------------------------------
(* The callbacks of the daemons. *)

(* feedback: sendto waits while the hub's socket is full. *)
Feedback(p, l, x) ==
  /\ ~dead /\ pc[p] = l /\ Len(fb) < FbLen
  /\ fb' = Append(fb, x)

(* on_asr_error, on_ivw_result: it is told, *)
Tell(p) ==
  /\ Feedback(p, "tell", IF kind = "asr" THEN "failure" ELSE "word")
  /\ Goto(p, "check")
  /\ UNCHANGED <<kind, mailv, asrv, recv, again, hub, dead, faults>>

(* A thread begins to undo the listening; another may be at it. *)
Undoing == {"halt", "quiet", "last", "close", "join", "free"}
Undoes(p) ==
  /\ Goto(p, "halt")
  /\ faults' = faults \cup {f \in {"twice"} : \E q \in Thread : pc[q] \in Undoing}

(* and undone if the daemon works. *)
Check(p) ==
  /\ ~dead /\ pc[p] = "check"
  /\ IF working
     THEN Undoes(p) /\ UNCHANGED again
     ELSE /\ Goto(p, ReturnsTo(p))
          /\ again' = (again /\ p # "rec")
          /\ faults' = faults \cup {"early"}
  /\ UNCHANGED <<kind, mailv, asrv, recv, hubv, dead>>

(* on_asr_result: it is told, and the daemon sends itself a stop. *)
Report ==
  /\ Feedback("rec", "report", "asr_result")
  /\ Goto("rec", "selfstop")
  /\ UNCHANGED <<kind, mailv, asrv, recv, again, hub, dead, faults>>

SelfStop ==
  /\ ~dead /\ pc["rec"] = "selfstop"
  /\ IF working THEN Len(mail) < MailLen /\ mail' = Append(mail, "stop") ELSE UNCHANGED mail
  /\ Goto("rec", "loop")
  /\ UNCHANGED <<kind, cmds, asrv, recv, again, hubv, dead, faults>>

-----------------------------------------------------------------------------
(* The main thread: deal_asr_cmd, deal_awaken_cmd. *)
Takes(k) == ~dead /\ pc["main"] = "idle" /\ mail # <<>> /\ Head(mail) = k

(* A start while it works; the other commands (a grammar, in asr_daemon)   *)
(* touch nothing modelled here.                                            *)
TakeOther ==
  /\ Takes("other") \/ (Takes("start") /\ working)
  /\ mail' = Tail(mail)
  /\ UNCHANGED <<kind, cmds, pc, asrv, recv, again, hubv, dead, faults>>

(* ivw_init, which is asr_init but for names: a new recorder is opened. *)
Initialised ==
  /\ OpenRecorder
  /\ recorder' = TRUE /\ cancel' = FALSE
  /\ state' = "INIT" /\ session' = "null"

(* asr_init; there may be no device at all. *)
TakeStart ==
  /\ Takes("start") /\ ~working /\ pc["rec"] = "none"
  /\ mail' = Tail(mail)
  /\ \/ UNCHANGED <<pc, state, session, recorder, rec, hdl, cancel, faults>>
     \/ Initialised
  /\ UNCHANGED <<kind, cmds, working, again, hubv, dead>>

(* awaken_daemon knows no stop. *)
TakeStop ==
  /\ Takes("stop")
  /\ mail' = Tail(mail)
  /\ IF working /\ kind = "asr" THEN Undoes("main") ELSE UNCHANGED <<pc, faults>>
  /\ UNCHANGED <<kind, cmds, asrv, recv, again, hubv, dead>>

(* Faulty: nothing is undone when the listening cannot be started. *)
JustReturn == Goto("main", "idle")
GiveUp == Goto("main", "close")

(* asr_start_listening: the library's session, *)
Begin ==
  /\ ~dead /\ pc["main"] = "begin" /\ kind = "asr"
  /\ \/ session' = "open" /\ Goto("main", "record")
     \/ UNCHANGED session /\ GiveUp
  /\ UNCHANGED <<kind, mailv, working, state, recv, again, hubv, dead, faults>>

(* ivw_start_listening, which also registers for messages, *)
BeginIvw ==
  /\ ~dead /\ pc["main"] = "begin" /\ kind = "awaken"
  /\ \/ session' = "open" /\ Goto("main", "record")
     \/ session' = "null" /\ GiveUp
  /\ UNCHANGED <<kind, mailv, working, state, recv, again, hubv, dead, faults>>

(* start_record, which needs a recorder that was opened, *)
StartRecord ==
  /\ ~dead /\ pc["main"] = "record"
  /\ \/ /\ rec = "READY" /\ rec' = "RECORDING"
        /\ Goto("main", "mark") /\ UNCHANGED session
     \/ /\ session' = "null" /\ GiveUp
        /\ UNCHANGED rec
  /\ UNCHANGED <<kind, mailv, working, state, recorder, hdl, cancel, again, hubv, dead,
                 faults>>

(* the two flags. *)
MarkStarted ==
  /\ ~dead /\ pc["main"] = "mark"
  /\ state' = "STARTED" /\ Goto("main", "work")
  /\ UNCHANGED <<kind, mailv, working, session, recv, again, hubv, dead, faults>>

MarkWorking ==
  /\ ~dead /\ pc["main"] = "work"
  /\ working' = TRUE /\ Goto("main", "idle")
  /\ UNCHANGED <<kind, mailv, state, session, recv, again, hubv, dead, faults>>

Undo(p) == Halt(p) \/ Quiet(p) \/ LastSample(p) \/ Close(p) \/ Join(p) \/ Free(p)
MainStep ==
  \/ TakeOther \/ TakeStart \/ TakeStop \/ Begin \/ BeginIvw \/ StartRecord \/ MarkStarted
  \/ MarkWorking \/ Undo("main")
RecStep ==
  \/ RecLoop \/ PcmRead \/ Callback \/ AsrWrite \/ IvwWrite \/ GetResult \/ EndOnError
  \/ EndSession \/ Tell("rec") \/ Check("rec") \/ Report \/ SelfStop \/ SelfJoin \/ Undo("rec")
LibStep == Tell("lib") \/ Check("lib") \/ Undo("lib")

SpNext ==
  \/ \E k \in {"start", "stop", "other"} : Send(k)
  \/ MainStep \/ RecStep \/ LibStep \/ IvwMessage \/ Cancelled \/ HubRead

SpSpec == SpInit /\ [][SpNext]_spVars

(* The threads get on, calls of the library and of ALSA return (a read may *)
(* not), and a cancelled thread is cancelled. Nobody must send a command.  *)
SpFairSpec ==
  /\ SpSpec
  /\ WF_spVars(MainStep) /\ WF_spVars(RecStep) /\ WF_spVars(LibStep) /\ WF_spVars(Cancelled)
  /\ WF_spVars(HubRead)

-----------------------------------------------------------------------------
Resting == ~dead /\ pc["main"] = "idle" /\ pc["lib"] = "none"

(* When the daemon does not work nothing is left of a listening: no thread,*)
(* no recorder, no open PCM and no session - also if the session or the    *)
(* recording could not be started. Only a PCM that could not be stopped    *)
(* leaves its session open, and only a record thread that closed its own   *)
(* recorder leaves the PCM open, for ever.                                 *)
IdleIsClean ==
  Resting /\ ~working =>
    /\ pc["rec"] = "none" /\ ~recorder
    /\ session = "open" => "drop" \in faults
    /\ hdl => "self" \in faults

(* What the record thread is at when it hears, and when it deals with what *)
(* it has heard or with an error.                                          *)
HearsAt == {"loop", "read", "cb", "write"}
Busy == {"result", "report", "selfstop", "fail", "ends", "tell", "check"} \cup Undoing

(* A daemon that says it works listens - its thread records for an open    *)
(* session - or deals with what it has heard, or undoes the listening,     *)
(* unless a read failed or hangs, the record thread closed its own         *)
(* recorder, or something was reported before working was set.             *)
DeafOnlyAfterFault ==
  Resting /\ working =>
    \/ pc["rec"] \in HearsAt /\ rec = "RECORDING" /\ state = "STARTED" /\ session = "open"
    \/ pc["rec"] \in Busy
    \/ faults \cap {"read", "self", "early"} # {}

(* Audio is written to a session that has ended only while another thread  *)
(* undoes the listening and waits for the record thread: never later.      *)
LateWriteOnlyInStop ==
  ~dead /\ pc["rec"] = "write" /\ session # "open" =>
    \E p \in {"main", "lib"} : pc[p] \in {"close", "join"}

(* The hub takes nothing any more: its thread has died and its socket is   *)
(* full. Whoever tells it something then waits for ever.                   *)
HubGone == hub = "dead" /\ Len(fb) = FbLen

(* The main thread comes back for the next command, whatever the recorder, *)
(* the library and the hub do: also when the record thread hangs in a read *)
(* or in a datagram to a hub that has died. The record thread comes to an  *)
(* end with what it has heard or could not do, unless the hub is gone. The *)
(* process dies first only if the recorder could not be opened or two      *)
(* threads undid the listening at once.                                    *)
StopEnds ==
  /\ []<>(pc["main"] = "idle" \/ dead)
  /\ (pc["rec"] \in Busy) ~> (pc["rec"] \notin Busy \/ dead \/ HubGone)
  /\ [](dead => faults \cap {"open", "twice"} # {})

(* linuxrec.h: "Never call the close_recorder in the callback function. as *)
(* close action will wait for the callback thread to quit."                *)
NotClosedInCallback == pc["rec"] # "close"
=============================================================================
