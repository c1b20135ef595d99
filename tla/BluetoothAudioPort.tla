------------------------- MODULE BluetoothAudioPort -------------------------
(***************************************************************************)
(* The device port proxies of the audio HAL (BluetoothAudioPortAidl in     *)
(* hw/device_port_proxy.cc): the stream state machine of each port, the    *)
(* callbacks that the session makes on it, and the steps of SetUp,         *)
(* TearDown, Start, Suspend and Stop.  This module has no next-state       *)
(* relation of its own: BluetoothStreamOut calls these steps from the      *)
(* threads of the audio HAL.                                               *)
(*                                                                         *)
(* state_ is a plain field.  The callbacks write it under cv_mutex_, the   *)
(* port's own methods write it without, so every read and every write of   *)
(* it is a step of its own.  A callback holds cv_mutex_ between its read   *)
(* and its write, which keeps CondwaitState, and nothing else, out.        *)
(***************************************************************************)
EXTENDS BluetoothAudioProvider

VARIABLES
  state,   \* state_ of each port
  cookie,  \* cookie_ of each port
  hdl      \* the callback being executed, between its read and its write

portVars == << state, cookie, hdl >>

StreamStates == {"DISABLED", "STANDBY", "STARTING", "STARTED", "SUSPENDING"}

NoHandler == [port |-> None, cookie |-> Undefined, prev |-> "DISABLED"]

PortInit ==
  /\ state = [p \in Ports |-> "DISABLED"]
  /\ cookie = [p \in Ports |-> Undefined]
  /\ hdl = NoHandler

in_use(p) == cookie[p] # Undefined
IsA2dp == session_type \in {"A2DP_SOFTWARE_ENCODING", "A2DP_HARDWARE_OFFLOAD_ENCODING"}

\* The session's fields other than the walk, the observers and the requests.
sessionCore == << session_type, stack_iface, data_mq, audio_config,
                  latency_modes, low_latency_allowed >>

-----------------------------------------------------------------------------
\* Callbacks.

\* control_result_cb and session_changed_cb, up to the read of state_: a port
\* that is not in use, or whose cookie_ is another one, drops the call.
CallbackBegin(c) ==
  LET p == observers[c] IN
  /\ c \in bcast.todo
  /\ hdl = NoHandler
  /\ IF cookie[p] = c
     THEN /\ hdl' = [port |-> p, cookie |-> c, prev |-> state[p]]
          /\ UNCHANGED bcast
     ELSE /\ CallbackDone(c)
          /\ UNCHANGED hdl
  /\ UNCHANGED << state, cookie, sessionCore, observers, requests, providerOnly >>

\* ControlResultHandler's table: the state a result leads to, given the state
\* read.  A state it does not assign is left as it is by then.
HandlerAssigns(prev, status) ==
  \/ prev \in {"STARTING", "SUSPENDING"}
  \/ prev = "STARTED" /\ status \in {"SUCCESS", "RECONFIGURATION"}
HandlerState(prev, status) ==
  CASE prev = "STARTING"   -> IF status = "SUCCESS" THEN "STARTED" ELSE "STANDBY"
    [] prev = "SUSPENDING" -> IF status = "SUCCESS" THEN "STANDBY" ELSE "DISABLED"
    [] OTHER               -> "STANDBY"

ControlResultHandler ==
  /\ hdl # NoHandler
  /\ bcast.kind \in {"started", "suspended"}
  /\ state' = IF HandlerAssigns(hdl.prev, bcast.status)
              THEN [state EXCEPT ![hdl.port] = HandlerState(hdl.prev, bcast.status)]
              ELSE state
  /\ CallbackDone(hdl.cookie)
  /\ hdl' = NoHandler
  /\ UNCHANGED << cookie, sessionCore, observers, requests, providerOnly >>

\* Mutant: the change only wakes the waiting thread.
SessionChangedIgnored ==
  /\ hdl # NoHandler
  /\ bcast.kind = "session"
  /\ CallbackDone(hdl.cookie)
  /\ hdl' = NoHandler
  /\ UNCHANGED << state, cookie, sessionCore, observers, requests, providerOnly >>

SessionChangedHandler ==
  /\ hdl # NoHandler
  /\ bcast.kind = "session"
  /\ state' = [state EXCEPT ![hdl.port] = "DISABLED"]
  /\ CallbackDone(hdl.cookie)
  /\ hdl' = NoHandler
  /\ UNCHANGED << cookie, sessionCore, observers, requests, providerOnly >>

-----------------------------------------------------------------------------
\* SetUp and TearDown, called by the thread that opens or closes the stream.

\* init_session_type has mapped the device to session_type; SetUp goes on only
\* with a session that is ready.
SetUpBegin(p, ret) ==
  /\ Unlocked
  /\ ret = IsSessionReady
  /\ state' = IF ret THEN [state EXCEPT ![p] = "STANDBY"] ELSE state
  /\ UNCHANGED << cookie, hdl, sessionVars, providerOnly >>

\* The session knows the callbacks from here on, cookie_ is still undefined.
SetUpRegister(p, c) ==
  /\ RegisterStatusCback(p, c)
  /\ UNCHANGED << portVars, providerOnly >>

\* Mutant: the cookie is not kept.
SetUpCookieLost(p, c) == UNCHANGED << portVars, sessionVars, providerOnly >>

\* A port that got no cookie is destroyed by its stream.
SetUpCookie(p, c) ==
  /\ cookie' = [cookie EXCEPT ![p] = c]
  /\ state' = IF c = Undefined THEN [state EXCEPT ![p] = "DISABLED"] ELSE state
  /\ UNCHANGED << hdl, sessionVars, providerOnly >>

\* Mutant: TearDown leaves the callbacks behind.
TearDownForgets(p) ==
  /\ in_use(p)
  /\ UNCHANGED << portVars, sessionVars, providerOnly >>

TearDownUnregister(p) ==
  /\ in_use(p)
  /\ UnregisterStatusCback(cookie[p])
  /\ UNCHANGED << portVars, providerOnly >>

\* The rest of TearDown, and the port's destruction: the next stream gets a new
\* port, whose state_ is DISABLED.
TearDownCookie(p) ==
  /\ cookie' = [cookie EXCEPT ![p] = Undefined]
  /\ state' = [state EXCEPT ![p] = "DISABLED"]
  /\ UNCHANGED << hdl, sessionVars, providerOnly >>

-----------------------------------------------------------------------------
\* Start, Suspend, Stop and SetState.

SetState(p, s) ==
  /\ state' = [state EXCEPT ![p] = s]
  /\ UNCHANGED << cookie, hdl, sessionVars, providerOnly >>

\* StartStream, SuspendStream or StopStream of the session.
PortStreamCall(kind, ret) ==
  /\ StreamCall(kind, ret)
  /\ UNCHANGED << portVars, providerOnly >>

\* Mutant: the wait has no timeout.
CondwaitStateForever(p, goal, ret) ==
  /\ hdl.port # p
  /\ state[p] \notin {"STARTING", "SUSPENDING"}
  /\ ret = (state[p] = goal)
  /\ UNCHANGED << portVars, sessionVars, providerOnly >>

\* CondwaitState: the wait ends when state_ has moved on, or at any time by the
\* timeout of kMaxWaitingTimeMs; either way state_ is read under cv_mutex_.
CondwaitState(p, goal, ret) ==
  /\ hdl.port # p
  /\ ret = (state[p] = goal)
  /\ UNCHANGED << portVars, sessionVars, providerOnly >>
=============================================================================
