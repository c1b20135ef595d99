--------------------------- MODULE BluetoothStreamIn ---------------------------
(***************************************************************************)
(* The input stream of the Bluetooth audio module (hw/stream_apis.cc, the  *)
(* in_ functions) over its HIDL port (BluetoothAudioPortHidlIn in          *)
(* hw/device_port_proxy_hidl.cc) and the HIDL session.  One thread reads,  *)
(* another puts the stream in standby and asks for the capture position.   *)
(* Both take in->mutex_, which they release while they sleep and while     *)
(* they wait for data; the callbacks of the session do not take it.        *)
(*                                                                         *)
(* state_ is a plain field: each read and each write of it is a step.  A   *)
(* callback holds cv_mutex_ between its read and its write, which keeps    *)
(* CondwaitState, and nothing else, out.                                   *)
(***************************************************************************)
EXTENDS HidlAudioSession

CONSTANTS StatePolls,  \* kBluetoothDefaultInputStateTimeoutMs, in sleeps of 1 ms
          FmqPolls,    \* kFmqReceiveTimeoutMs, in sleeps of kReadPollMs
          ReadBytes,   \* the bytes of one in_read
          FrameSize,   \* audio_stream_in_frame_size
          Latency,     \* latency_frames, from the delay the stack reports
          MaxFrames    \* bound on frames_presented_

ASSUME StreamInAssumption ==
  /\ StatePolls \in Nat \ {0} /\ FmqPolls \in Nat /\ ReadBytes \in Nat \ {0}
  /\ FrameSize \in Nat \ {0} /\ Latency \in Nat /\ MaxFrames \in Nat

VARIABLES
  state,      \* state_ of the port
  cookie,     \* cookie_ of the port
  hdl,        \* the callback in progress: the cookie and the state it has read
  obj,        \* the stream: "none", "opening", "open" or "closing"
  presented,  \* frames_presented_
  lock,       \* holder of in->mutex_
  pc,         \* where each thread is
  polls,      \* the sleeps it has left
  total,      \* totalRead of the reader
  standby     \* history: in_standby has been "asked" for, has not given up, and no
              \* read has started the stream since

portVars == << state, cookie, hdl >>
threadVars == << lock, pc, polls, total >>
streamVars == << obj, presented, standby >>
vars == << sessionVars, portVars, threadVars, streamVars >>

Reader == "reader"
Control == "control"
Threads == {Reader, Control}
NoHandler == [cookie |-> Undefined, prev |-> "DISABLED"]
in_use == cookie # Undefined

Init ==
  /\ SessionInit
  /\ state = "DISABLED" /\ cookie = Undefined /\ hdl = NoHandler
  /\ obj = "none" /\ presented = 0 
  /\ lock = "none"
  /\ pc = [t \in Threads |-> "idle"]
  /\ polls = [t \in Threads |-> 0]
  /\ total = 0
  /\ standby = "none"

Goto(t, l) == pc' = [pc EXCEPT ![t] = l]

(* A step of thread t to l that touches nothing else.                      *)
Continue(t, l) == Goto(t, l) /\ UNCHANGED << lock, polls, total, streamVars >>

(* The call ends and releases the lock.                                    *)
Return(t) ==
  /\ Goto(t, "idle") /\ lock' = "none"
  /\ polls' = [polls EXCEPT ![t] = 0]
  /\ UNCHANGED << total, streamVars >>

(***************************************************************************)
(* Callbacks of the session.                                               *)
(***************************************************************************)

(* control_result_cb and session_changed_cb up to the read of state_: a    *)
(* port that is not in use, or has another cookie, drops the call.  The    *)
(* callbacks of other clients are not followed.                            *)
CallbackBegin(c) ==
  /\ c \in walk.todo /\ hdl = NoHandler
  /\ IF observers[c] = "port" /\ cookie = c
     THEN hdl' = [cookie |-> c, prev |-> state] /\ UNCHANGED walk
     ELSE CallbackDone(c) /\ UNCHANGED hdl
  /\ UNCHANGED << type, iface, mq, cfg, cfg21, observers, requests, given, silenced,
                  state, cookie, threadVars, streamVars >>

(* ControlResultHandler: where a result leads from the state it has read;  *)
(* a result that is not expected leaves state_ alone.                      *)
ControlResultState(prev, status) ==
  CASE prev = "STARTED" /\ status = "SUCCESS" -> "STANDBY"
    [] prev = "STARTING" -> IF status = "SUCCESS" THEN "STARTED" ELSE "STANDBY"
    [] prev = "SUSPENDING" -> IF status = "SUCCESS" THEN "STANDBY" ELSE "DISABLED"
    [] OTHER -> state

(* ControlResultHandler and SessionChangedHandler, from the write on.      *)
CallbackEnd ==
  /\ hdl # NoHandler
  /\ state' = IF walk.kind = "session" THEN "DISABLED"
              ELSE ControlResultState(hdl.prev, walk.status)
  /\ CallbackDone(hdl.cookie)
  /\ hdl' = NoHandler
  /\ UNCHANGED << type, iface, mq, cfg, cfg21, observers, requests, given, silenced,
                  cookie, threadVars, streamVars >>

(***************************************************************************)
(* Start, Suspend and Stop of the port, with the caller's lock held.  Each *)
(* of Start and Suspend tests state_, sets it, calls the stack and waits.  *)
(***************************************************************************)
StartCheck(t) ==
  /\ pc[t] = "start.check"
  /\ IF in_use /\ state = "STANDBY" THEN Continue(t, "start.set") ELSE Return(t)
  /\ UNCHANGED << sessionVars, portVars >>

StartSet(t) ==
  /\ pc[t] = "start.set"
  /\ state' = "STARTING"
  /\ standby' = "none"
  /\ Goto(t, "start.call")
  /\ UNCHANGED << lock, polls, total, obj, presented,
                  sessionVars, cookie, hdl >>

(* A start the session refuses leaves the port in STARTING.                *)
StartCall(t) ==
  /\ pc[t] = "start.call"
  /\ \E ret \in BOOLEAN :
       /\ StreamCall("start", ret)
       /\ IF ret THEN Continue(t, "start.wait") ELSE Return(t)
  /\ UNCHANGED portVars

SuspendCheck(t) ==
  /\ pc[t] = "susp.check"
  /\ Continue(t, IF in_use /\ state = "STARTED" THEN "susp.set" ELSE "standby.poll2")
  /\ UNCHANGED << sessionVars, portVars >>

SuspendSet(t) ==
  /\ pc[t] = "susp.set"
  /\ state' = "SUSPENDING"
  /\ Continue(t, "susp.call")
  /\ UNCHANGED << sessionVars, cookie, hdl >>

SuspendCall(t) ==
  /\ pc[t] = "susp.call"
  /\ \E ret \in BOOLEAN :
       /\ StreamCall("suspend", ret)
       /\ Continue(t, IF ret THEN "susp.wait" ELSE "standby.poll2")
  /\ UNCHANGED portVars

\* Mutant: the wait has no timeout.
CondwaitStateForever(goal, ret) ==
  hdl = NoHandler /\ state \notin {"STARTING", "SUSPENDING"} /\ ret = (state = goal)

(* CondwaitState: the wait ends when state_ has moved on, or at any moment *)
(* by the timeout of kMaxWaitingTimeMs.                                    *)
CondwaitState(goal, ret) == hdl = NoHandler /\ ret = (state = goal)

StartWait(t) ==
  /\ pc[t] = "start.wait"
  /\ \E ret \in BOOLEAN :
       /\ CondwaitState("STARTED", ret)
       /\ IF ret THEN Continue(t, "read.unlock") ELSE Return(t)
  /\ UNCHANGED << sessionVars, portVars >>

SuspendWait(t) ==
  /\ pc[t] = "susp.wait"
  /\ \E ret \in BOOLEAN : CondwaitState("STANDBY", ret)
  /\ Continue(t, "standby.poll2")
  /\ UNCHANGED << sessionVars, portVars >>

(***************************************************************************)
(* in_state_transition_timeout: sleep while state_ is s, with the lock     *)
(* released; after the last sleep it gives up without another look.        *)
(***************************************************************************)
Locked(t, l) ==
  /\ lock = "none" /\ lock' = t
  /\ Goto(t, l)

TransitionPoll(t, here, s, sleep, next) ==
  /\ pc[t] = here
  /\ IF state = s
     THEN Goto(t, sleep) /\ lock' = "none" /\ UNCHANGED polls
     ELSE Goto(t, next) /\ polls' = [polls EXCEPT ![t] = 0] /\ UNCHANGED lock
  /\ UNCHANGED << total, streamVars, sessionVars, portVars >>

TransitionSleep(t, sleep, here, fail) ==
  /\ pc[t] = sleep
  /\ polls' = [polls EXCEPT ![t] = @ - 1]
  /\ Locked(t, IF polls[t] - 1 <= 0 THEN fail ELSE here)
  /\ UNCHANGED << total, streamVars, sessionVars, portVars >>

(***************************************************************************)
(* in_read.                                                                *)
(***************************************************************************)
CallRead ==
  /\ obj = "open" /\ pc[Reader] = "idle" /\ presented < MaxFrames
  /\ Locked(Reader, "read.poll")
  /\ polls' = [polls EXCEPT ![Reader] = StatePolls]
  /\ total' = 0
  /\ UNCHANGED << streamVars, sessionVars, portVars >>

ReadPoll == TransitionPoll(Reader, "read.poll", "STARTING", "read.sleep", "read.check")
ReadSleep == TransitionSleep(Reader, "read.sleep", "read.poll", "read.fail")

ReadFail ==
  /\ pc[Reader] = "read.fail"
  /\ Return(Reader)
  /\ UNCHANGED << sessionVars, portVars >>

(* A stream that is not STARTED is looked at up to three times more; one   *)
(* that is none of STANDBY, SUSPENDING, DISABLED by the time it is asked   *)
(* counts as started already.                                              *)
ReadCheck ==
  /\ \/ pc[Reader] = "read.check"
        /\ Continue(Reader, IF state = "STARTED" THEN "read.unlock" ELSE "read.standby")
     \/ pc[Reader] = "read.standby"
        /\ Continue(Reader, IF state = "STANDBY" THEN "start.check" ELSE "read.suspending")
     \/ pc[Reader] = "read.suspending"
        /\ Continue(Reader, IF state = "SUSPENDING" THEN "read.fail" ELSE "read.disabled")
     \/ pc[Reader] = "read.disabled"
        /\ Continue(Reader, IF state = "DISABLED" THEN "read.fail" ELSE "read.unlock")
  /\ UNCHANGED << sessionVars, portVars >>

ReadUnlock ==
  /\ pc[Reader] = "read.unlock"
  /\ lock' = "none"
  /\ polls' = [polls EXCEPT ![Reader] = FmqPolls]
  /\ Goto(Reader, "read.data")
  /\ UNCHANGED << total, streamVars, sessionVars, portVars >>

(* ReadData: the rounds of InReadPcmData, each under the session's mutex.  *)
ReadSome ==
  /\ pc[Reader] = "read.data"
  /\ \E n \in 1..ReadBytes :
       /\ ReadRound(ReadBytes - total, n)
       /\ total' = total + n
       /\ Goto(Reader, IF total + n < ReadBytes THEN "read.data" ELSE "read.account")
  /\ UNCHANGED << lock, polls, streamVars, portVars >>

ReadNothing ==
  /\ pc[Reader] = "read.data" /\ Unlocked
  /\ ~(IsSessionReady /\ mq > 0)
  /\ IF IsSessionReady /\ polls[Reader] > 0
     THEN polls' = [polls EXCEPT ![Reader] = @ - 1] /\ UNCHANGED pc
     ELSE polls' = [polls EXCEPT ![Reader] = 0] /\ Goto(Reader, "read.account")
  /\ UNCHANGED << lock, total, streamVars, sessionVars, portVars >>

(* With the lock again; it is released on return.                          *)
ReadAccount ==
  /\ pc[Reader] = "read.account" /\ lock = "none"
  /\ presented' = presented + (total \div FrameSize)
  /\ total' = 0
  /\ polls' = [polls EXCEPT ![Reader] = 0]
  /\ Goto(Reader, "idle")
  /\ UNCHANGED << lock, obj, standby,
                  sessionVars, portVars >>

in_read == \/ ReadPoll \/ ReadSleep \/ ReadFail \/ ReadCheck \/ ReadUnlock
           \/ ReadSome \/ ReadNothing \/ ReadAccount
           \/ StartCheck(Reader) \/ StartSet(Reader) \/ StartCall(Reader) \/ StartWait(Reader)

(***************************************************************************)
(* in_standby.                                                             *)
(***************************************************************************)
CallStandby ==
  /\ obj = "open" /\ pc[Control] = "idle"
  /\ Locked(Control, "standby.poll")
  /\ polls' = [polls EXCEPT ![Control] = StatePolls]
  /\ standby' = "asked"
  /\ UNCHANGED << total, obj, presented, sessionVars, portVars >>

\* Mutant: standby does not wait for a start that is under way.
StandbyPollNot ==
  /\ pc[Control] = "standby.poll"
  /\ Continue(Control, "standby.check")
  /\ UNCHANGED << sessionVars, portVars >>
StandbyPoll ==
  TransitionPoll(Control, "standby.poll", "STARTING", "standby.sleep", "standby.check")
StandbySleep == TransitionSleep(Control, "standby.sleep", "standby.poll", "standby.giveup")

StandbyCheck ==
  /\ \/ pc[Control] = "standby.check"
        /\ Continue(Control, IF state = "STARTED" THEN "susp.check" ELSE "standby.check2")
     \/ pc[Control] = "standby.check2"
        /\ Continue(Control, IF state = "SUSPENDING" THEN "standby.poll2" ELSE "standby.end")
  /\ UNCHANGED << sessionVars, portVars >>

(* The wait for the suspend starts with a full timeout of its own.         *)
StandbyPoll2 ==
  /\ pc[Control] = "standby.poll2"
  /\ polls' = [polls EXCEPT ![Control] = StatePolls]
  /\ Goto(Control, "standby.wait")
  /\ UNCHANGED << lock, total, streamVars, sessionVars, portVars >>
StandbyWait ==
  TransitionPoll(Control, "standby.wait", "SUSPENDING", "standby.sleep2", "standby.end")
StandbySleep2 == TransitionSleep(Control, "standby.sleep2", "standby.wait", "standby.giveup")

(* in_standby that gives up returns 0 all the same.                        *)
StandbyGivesUp ==
  /\ pc[Control] = "standby.giveup"
  /\ standby' = "none"
  /\ Goto(Control, "idle") /\ lock' = "none"
  /\ polls' = [polls EXCEPT ![Control] = 0]
  /\ UNCHANGED << total, obj, presented, sessionVars, portVars >>
StandbyEnd ==
  /\ pc[Control] = "standby.end"
  /\ standby' = "none"
  /\ Goto(Control, "idle") /\ lock' = "none"
  /\ polls' = [polls EXCEPT ![Control] = 0]
  /\ UNCHANGED << total, obj, presented, sessionVars, portVars >>

in_standby == \/ StandbyPoll \/ StandbySleep \/ StandbyCheck \/ StandbyPoll2 \/ StandbyWait
              \/ StandbySleep2 \/ StandbyGivesUp \/ StandbyEnd
              \/ SuspendCheck(Control) \/ SuspendSet(Control)
              \/ SuspendCall(Control) \/ SuspendWait(Control)

(***************************************************************************)
(* in_get_capture_position: without a session the stack's counter and its  *)
(* delay are 0.                                                            *)
(***************************************************************************)
CallPosition ==
  /\ obj = "open" /\ pc[Control] = "idle" /\ state # "STANDBY"
  /\ Locked(Control, "position")
  /\ UNCHANGED << polls, total, streamVars, sessionVars, portVars >>

\* Mutant: the stack's counter is trusted after a reset of the stream.
StarvingDelayTrusting(frames, latency) ==
  IF frames > latency THEN frames - latency ELSE 0

(* in_calculate_starving_delay_ms.                                         *)
StarvingDelay(frames, latency) ==
  LET seen == IF presented < frames \/ presented - frames > latency THEN presented ELSE frames
  IN IF seen > latency THEN seen - latency ELSE 0

(* What it answers: the stack's counters, or zeros.                        *)
CapturePositions ==
  { StarvingDelay(0, 0) } \union
  { StarvingDelay(frames, Latency) : frames \in IF IsSessionReady THEN 0..(MaxFrames + 1) ELSE {} }

in_get_capture_position ==
  /\ pc[Control] = "position" /\ Unlocked
  /\ Return(Control)
  /\ UNCHANGED << sessionVars, portVars >>

(***************************************************************************)
(* adev_open_input_stream and adev_close_input_stream.  Only               *)
(* AUDIO_DEVICE_IN_BLE_HEADSET is an input, and its session is LE_DECODED. *)
(***************************************************************************)
Stage(o, l) ==
  /\ obj' = o
  /\ Goto(Control, l)
  /\ UNCHANGED << lock, polls, total, presented, standby >>

(* SetUp: init_session_type wants a session that is ready.                 *)
CallOpen ==
  /\ obj = "none" /\ pc[Control] = "idle" /\ type = "LE_DECODED"
  /\ Unlocked /\ IsSessionReady
  /\ state' = "STANDBY"
  /\ Stage("opening", "open.register")
  /\ UNCHANGED << sessionVars, cookie, hdl >>

(* The callbacks are registered before cookie_ is set; polls carries the   *)
(* cookie from the one step to the other.                                  *)
OpenRegister ==
  /\ pc[Control] = "open.register"
  /\ \E c \in Cookies \union {Undefined} :
       RegisterStatusCback("port", c) /\ polls' = [polls EXCEPT ![Control] = c]
  /\ Goto(Control, "open.cookie")
  /\ UNCHANGED << lock, total, streamVars, portVars >>

OpenCookie ==
  /\ pc[Control] = "open.cookie"
  /\ cookie' = polls[Control]
  /\ IF polls[Control] = Undefined THEN Stage("none", "idle") ELSE Stage("opening", "open.config")
  /\ state' = IF polls[Control] = Undefined THEN "DISABLED" ELSE state
  /\ UNCHANGED << sessionVars, hdl >>

(* A stream whose configuration cannot be loaded is destroyed, and its     *)
(* port's destructor calls TearDown.                                       *)
LoadAudioConfig == GetAudioConfig.tag = "pcm" /\ GetAudioConfig.known
OpenConfig ==
  /\ pc[Control] = "open.config" /\ Unlocked
  /\ Stage(obj, IF LoadAudioConfig THEN "open.done" ELSE "teardown")
  /\ UNCHANGED << sessionVars, portVars >>

(* preferred_data_interval_us falls back on a default that is not 0; the   *)
(* buffer size that follows from it is not followed here.                  *)
OpenDone ==
  /\ pc[Control] = "open.done" /\ Unlocked
  /\ presented' = 0
  /\ obj' = "open"
  /\ Goto(Control, "idle")
  /\ polls' = [polls EXCEPT ![Control] = 0]
  /\ UNCHANGED << lock, total, standby, sessionVars, portVars >>

(* The framework closes a stream when no call on it is in progress.        *)
CallClose ==
  /\ obj = "open" /\ \A t \in Threads : pc[t] = "idle"
  /\ Stage("closing", IF state # "DISABLED" THEN "stop.set" ELSE "teardown")
  /\ UNCHANGED << sessionVars, portVars >>
StopSet ==
  /\ pc[Control] = "stop.set"
  /\ state' = "DISABLED"
  /\ Stage(obj, "stop.call")
  /\ UNCHANGED << sessionVars, cookie, hdl >>
StopCall ==
  /\ pc[Control] = "stop.call"
  /\ \E ret \in BOOLEAN : StreamCall("stop", ret)
  /\ Stage(obj, "teardown")
  /\ UNCHANGED portVars

\* Mutant: TearDown does not wait for the session's mutex.
TearDownUnlocked ==
  /\ pc[Control] = "teardown"
  /\ observers' = [observers EXCEPT ![cookie] = "none"]
  /\ Stage(obj, "teardown.cookie")
  /\ UNCHANGED << type, iface, mq, cfg, cfg21, walk, requests, given, silenced, portVars >>

TearDown ==
  /\ pc[Control] = "teardown"
  /\ UnregisterStatusCback(cookie)
  /\ Stage(obj, "teardown.cookie")
  /\ UNCHANGED portVars
TearDownCookie ==
  /\ pc[Control] = "teardown.cookie"
  /\ cookie' = Undefined
  /\ state' = "DISABLED"
  /\ obj' = "none"
  /\ presented' = 0 /\ standby' = "none"
  /\ polls' = [polls EXCEPT ![Control] = 0]
  /\ Goto(Control, "idle")
  /\ UNCHANGED << lock, total, sessionVars, hdl >>

OpenClose == \/ OpenRegister \/ OpenCookie \/ OpenConfig \/ OpenDone
             \/ StopSet \/ StopCall \/ TearDown \/ TearDownCookie

(***************************************************************************)
(* The specification.                                                      *)
(***************************************************************************)
Callbacks == (\E c \in Cookies : CallbackBegin(c)) \/ CallbackEnd
Calls == CallRead \/ CallStandby \/ CallPosition \/ CallOpen \/ CallClose
SessionStep ==
  /\ \/ StackStarts
     \/ OnSessionEnded
     \/ \E kind \in {"start", "suspend"}, status \in {"SUCCESS", "FAILURE"} :
          ReportControlStatus(kind, status)
     \/ StackProduces \/ OtherRegisters \/ OtherUnregisters
  /\ UNCHANGED << portVars, threadVars, streamVars >>

ThreadStep(t) == IF t = Reader THEN in_read ELSE in_standby \/ in_get_capture_position \/ OpenClose
Next == Callbacks \/ Calls \/ SessionStep \/ \E t \in Threads : ThreadStep(t)

(* Threads run, and get a mutex that is free again and again; nothing is   *)
(* assumed of the stack or of the framework.                               *)
Fairness == WF_vars(Callbacks) /\ \A t \in Threads : SF_vars(ThreadStep(t))
Spec == Init /\ [][Next]_vars /\ Fairness

(***************************************************************************)
(* Properties.                                                             *)
(***************************************************************************)
Labels == { "idle", "start.check", "start.set", "start.call", "start.wait", "susp.check",
            "susp.set", "susp.call", "susp.wait", "read.poll", "read.sleep", "read.fail",
            "read.check", "read.standby", "read.suspending", "read.disabled", "read.unlock",
            "read.data", "read.account", "standby.poll", "standby.sleep", "standby.check",
            "standby.check2", "standby.poll2", "standby.wait", "standby.sleep2",
            "standby.giveup", "standby.end", "position", "open.register", "open.cookie",
            "open.config", "open.done", "stop.set", "stop.call", "teardown",
            "teardown.cookie" }
States == { "DISABLED", "STANDBY", "STARTING", "STARTED", "SUSPENDING" }

(* The types, and the counters of in_state_transition_timeout and of       *)
(* InReadPcmData, which never go below zero.                               *)
StreamInTypeOK ==
  /\ HidlTypeOK
  /\ state \in States /\ cookie \in Cookies \union {Undefined}
  /\ hdl \in [cookie : Cookies \union {Undefined}, prev : States]
  /\ obj \in {"none", "opening", "open", "closing"}
  /\ presented \in Nat
  /\ lock \in Threads \union {"none"}
  /\ pc \in [Threads -> Labels] /\ polls \in [Threads -> Nat] /\ total \in 0..ReadBytes
  /\ standby \in {"none", "asked"}

(* No callback of the session runs on a port that has been destroyed: the  *)
(* session knows the port only while it exists, under the one cookie it    *)
(* has, and a walk that is to call it back is over before TearDown goes on.*)
NoDanglingPort ==
  /\ StreamInTypeOK
  /\ \A c \in Cookies : observers[c] = "port" =>
        obj # "none" /\ (cookie = c \/ (pc[Control] = "open.cookie" /\ polls[Control] = c))
  /\ obj = "open" => in_use /\ observers[cookie] = "port"
  /\ hdl # NoHandler => obj # "none" /\ observers[hdl.cookie] = "port" /\ cookie = hdl.cookie
  /\ \A c \in walk.todo : observers[c] # "none"

(* An open stream that believes it is STARTED has a session, or is to be   *)
(* told that it has none; except after a start that failed at its queue,   *)
(* which takes the queue of the running session and tells nobody.          *)
InputKnowsSession ==
  obj = "open" /\ state = "STARTED" /\ ~IsSessionReady =>
    silenced \/ (walk.kind = "session" /\ cookie \in walk.todo)

(* in_standby that returns without having given up leaves a stream that is *)
(* neither started nor about to be, unless a read has started it again.    *)
StandbyHeeded ==
  pc[Control] = "standby.end" /\ standby = "asked" => state \notin {"STARTED", "STARTING"}

(* The capture position reported is never beyond what the client has read, *)
(* whatever the stack says and whichever side has been reset.              *)
PositionSane ==
  pc[Control] = "position" => \A pos \in CapturePositions : pos \in 0..presented

(* Every call on the stream returns, whatever the stack does or omits.     *)
CallsReturn == \A t \in Threads : pc[t] # "idle" ~> pc[t] = "idle"
=============================================================================
