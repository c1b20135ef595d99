----------------------- MODULE BluetoothAudioSession -----------------------
(***************************************************************************)
(* One BluetoothAudioSession object of the AIDL library                    *)
(* (utils/aidl_session/BluetoothAudioSession.{h,cpp}): the meeting point   *)
(* of the Bluetooth stack, which starts and ends the session and reports   *)
(* the results of control requests, and of the audio ports, which register *)
(* callbacks and send the requests.                                        *)
(*                                                                         *)
(* Every method runs under the session's recursive mutex_ and is one       *)
(* atomic step here, except that the methods which notify the observers    *)
(* keep the mutex while they walk observers_: `bcast' holds the cookies    *)
(* still to be called back, and the mutex is free exactly when none is     *)
(* left.  observers_ is an unordered_map, so the order of the walk is      *)
(* arbitrary.                                                              *)
(***************************************************************************)
EXTENDS Integers, Sequences, FiniteSets

CONSTANTS Stacks,        \* the IBluetoothAudioPort objects of the stack
          Ports,         \* the clients that register PortStatusCallbacks
          None,          \* nullptr
          SessionTypes,  \* the values session_type_ is chosen from
          LatencyModes,  \* the LatencyMode values in play
          CookieSize,    \* kObserversCookieSize
          MaxRequests    \* bound on the control requests waiting in the stack

SoftwareTypes ==
  { "A2DP_SOFTWARE_ENCODING", "HEARING_AID_SOFTWARE_ENCODING",
    "HFP_SOFTWARE_ENCODING", "HFP_SOFTWARE_DECODING",
    "LE_AUDIO_SOFTWARE_ENCODING", "LE_AUDIO_SOFTWARE_DECODING",
    "LE_AUDIO_BROADCAST_SOFTWARE_ENCODING", "A2DP_SOFTWARE_DECODING" }

A2dpOffloadTypes == { "A2DP_HARDWARE_OFFLOAD_ENCODING",
                      "A2DP_HARDWARE_OFFLOAD_DECODING" }
HfpOffloadTypes  == { "HFP_HARDWARE_OFFLOAD" }
LeUnicastTypes   == { "LE_AUDIO_HARDWARE_OFFLOAD_ENCODING",
                      "LE_AUDIO_HARDWARE_OFFLOAD_DECODING" }
LeBroadcastTypes == { "LE_AUDIO_BROADCAST_HARDWARE_OFFLOAD_ENCODING" }

OffloadTypes == A2dpOffloadTypes \union HfpOffloadTypes
                \union LeUnicastTypes \union LeBroadcastTypes

AllTypes == SoftwareTypes \union OffloadTypes

ConfigTags == { "pcmConfig", "a2dpConfig", "a2dp", "hfpConfig",
                "leAudioConfig", "leAudioBroadcastConfig" }
Statuses     == { "SUCCESS", "FAILURE", "RECONFIGURATION" }
RequestKinds == { "start", "suspend", "stop" }

\* Cookies are the numbers [type << 8, type << 8 + kObserversCookieSize); only
\* the offset matters here, and Undefined stands for kObserversCookieUndefined.
Cookies   == 1 .. CookieSize
Undefined == 0

ASSUME SessionAssumption ==
  /\ None \notin Stacks /\ None \notin Ports /\ None \notin ConfigTags
  /\ SessionTypes \subseteq AllTypes
  /\ "LOW_LATENCY" \in LatencyModes
  /\ CookieSize \in Nat
  /\ MaxRequests \in Nat

VARIABLES
  session_type,         \* session_type_, fixed when the object is made
  stack_iface,          \* stack_iface_
  data_mq,              \* data_mq_ : "none" or "valid"
  audio_config,         \* the tag of *audio_config_, or None
  latency_modes,        \* latency_modes_
  low_latency_allowed,  \* low_latency_allowed_
  observers,            \* observers_ : the port behind each cookie, or None
  bcast,                \* the walk over observers_ in progress
  requests              \* calls made on the stack's port, not yet answered

sessionVars == << session_type, stack_iface, data_mq, audio_config,
                  latency_modes, low_latency_allowed, observers, bcast, requests >>

NoBcast  == [kind |-> "none", status |-> "none", todo |-> {}]
Unlocked == bcast.todo = {}
Registered == { c \in Cookies : observers[c] # None }

-----------------------------------------------------------------------------
\* The audio configurations UpdateAudioConfig accepts for a session type.
TagFits(type, tag) ==
  \/ type \in SoftwareTypes    /\ tag = "pcmConfig"
  \/ type \in A2dpOffloadTypes /\ tag \in {"a2dp", "a2dpConfig"}
  \/ type \in HfpOffloadTypes  /\ tag = "hfpConfig"
  \/ type \in LeUnicastTypes   /\ tag = "leAudioConfig"
  \/ type \in LeBroadcastTypes /\ tag = "leAudioBroadcastConfig"

IsSessionReady ==
  /\ stack_iface # None
  /\ session_type \in OffloadTypes \/ data_mq = "valid"
  /\ audio_config # None

\* The configuration GetAudioConfig returns: the session's own, or the default
\* of its type as long as the session is not ready.
DefaultTag(type) ==
  CASE type \in A2dpOffloadTypes -> "a2dpConfig"
    [] type \in HfpOffloadTypes  -> "hfpConfig"
    [] type \in LeUnicastTypes   -> "leAudioConfig"
    [] type \in LeBroadcastTypes -> "leAudioBroadcastConfig"
    [] type \in SoftwareTypes    -> "pcmConfig"
GetAudioConfig ==
  IF IsSessionReady THEN audio_config ELSE DefaultTag(session_type)

\* The latency modes offered to the audio HAL.
GetSupportedLatencyModes ==
  IF ~IsSessionReady THEN {}
  ELSE IF session_type = "LE_AUDIO_HARDWARE_OFFLOAD_ENCODING"
  THEN latency_modes \ {"LOW_LATENCY"}
  ELSE { m \in latency_modes : /\ m # "DYNAMIC_SPATIAL_AUDIO"
                               /\ m = "LOW_LATENCY" => low_latency_allowed }

-----------------------------------------------------------------------------
SessionInit ==
  /\ session_type \in SessionTypes
  /\ stack_iface = None
  /\ data_mq = "none"
  /\ audio_config = None
  /\ latency_modes = {}
  /\ low_latency_allowed = TRUE
  /\ observers = [c \in Cookies |-> None]
  /\ bcast = NoBcast
  /\ requests = << >>

\* Mutant: only one of the observers is told.
NotifyOne(kind, status) ==
  bcast' = IF Registered = {} THEN NoBcast
           ELSE [kind |-> kind, status |-> status,
                 todo |-> {CHOOSE c \in Registered : \A d \in Registered : c <= d}]
\* Take the mutex's walk over every observer (ReportSessionStatus and the
\* loops of the Report methods); with no observer the method just returns.
Notify(kind, status) ==
  bcast' = IF Registered = {} THEN NoBcast
           ELSE [kind |-> kind, status |-> status, todo |-> Registered]

\* The callback of cookie c has returned; the last one releases the mutex.
CallbackDone(c) ==
  /\ c \in bcast.todo
  /\ bcast' = IF bcast.todo = {c} THEN NoBcast
              ELSE [bcast EXCEPT !.todo = @ \ {c}]

\* mq is "null" (no descriptor), "bad" (the queue built from the descriptor is
\* invalid) or "good".  A session that was ready stays half torn down, and its
\* observers are not told, when the new descriptor is bad.
OnSessionStarted(iface, mq, tag, modes) ==
  /\ Unlocked
  /\ iface # None
  /\ IF ~TagFits(session_type, tag)
     THEN UNCHANGED << stack_iface, data_mq, audio_config, latency_modes, bcast >>
     ELSE IF mq = "bad"
     THEN /\ data_mq' = "none"
          /\ audio_config' = None
          /\ UNCHANGED << stack_iface, latency_modes, bcast >>
     ELSE /\ audio_config' = tag
          /\ data_mq' = IF mq = "good" THEN "valid" ELSE "none"
          /\ stack_iface' = iface
          /\ latency_modes' = modes
          /\ Notify("session", "none")
  /\ UNCHANGED << session_type, low_latency_allowed, observers, requests >>

\* Mutant: readiness is looked at after the fields have been cleared.
OnSessionEndedQuietly ==
  /\ Unlocked
  /\ audio_config' = None
  /\ stack_iface' = None
  /\ data_mq' = "none"
  /\ UNCHANGED << session_type, latency_modes, low_latency_allowed, observers,
                  bcast, requests >>

OnSessionEnded ==
  /\ Unlocked
  /\ audio_config' = None
  /\ stack_iface' = None
  /\ data_mq' = "none"
  /\ IF IsSessionReady THEN Notify("session", "none") ELSE UNCHANGED bcast
  /\ UNCHANGED << session_type, latency_modes, low_latency_allowed, observers, requests >>

\* start_resp tells a streamStarted from a streamSuspended report.
ReportControlStatus(start_resp, status) ==
  /\ Unlocked
  /\ Notify(IF start_resp THEN "started" ELSE "suspended", status)
  /\ UNCHANGED << session_type, stack_iface, data_mq, audio_config,
                  latency_modes, low_latency_allowed, observers >>

\* Only the unicast LE offload sessions take a new configuration; it is stored
\* whether or not the session is ready.
ReportAudioConfigChanged(tag) ==
  /\ Unlocked
  /\ session_type \in LeUnicastTypes
  /\ tag = "leAudioConfig"
  /\ audio_config' = tag
  /\ Notify("config", "none")
  /\ UNCHANGED << session_type, stack_iface, data_mq,
                  latency_modes, low_latency_allowed, observers, requests >>

ReportLowLatencyModeAllowedChanged(allowed) ==
  /\ Unlocked
  /\ session_type = "A2DP_HARDWARE_OFFLOAD_ENCODING"
  /\ low_latency_allowed' = allowed
  /\ latency_modes' = IF allowed THEN latency_modes \union {"LOW_LATENCY"}
                      ELSE latency_modes
  /\ Notify("latency", "none")
  /\ UNCHANGED << session_type, stack_iface, data_mq, audio_config,
                  observers, requests >>

\* Mutant: with every cookie taken, the first one is given out again.
RegisterStatusCbackOver(port, cookie) ==
  /\ Unlocked
  /\ cookie \in Cookies
  /\ \A c \in Cookies \ Registered : cookie <= c
  /\ Registered = Cookies => cookie = 1
  /\ observers' = [observers EXCEPT ![cookie] = port]
  /\ UNCHANGED << session_type, stack_iface, data_mq, audio_config,
                  latency_modes, low_latency_allowed, bcast, requests >>

\* The lowest free cookie, or Undefined when all CookieSize of them are taken.
RegisterStatusCback(port, cookie) ==
  /\ Unlocked
  /\ \/ /\ Registered = Cookies
        /\ cookie = Undefined
        /\ UNCHANGED observers
     \/ /\ cookie \in Cookies \ Registered
        /\ \A c \in Cookies \ Registered : cookie <= c
        /\ observers' = [observers EXCEPT ![cookie] = port]
  /\ UNCHANGED << session_type, stack_iface, data_mq, audio_config,
                  latency_modes, low_latency_allowed, bcast, requests >>

\* Mutant: without the mutex.
UnregisterUnlocked(cookie) ==
  /\ observers' = [c \in Cookies |-> IF c = cookie THEN None ELSE observers[c]]
  /\ UNCHANGED << session_type, stack_iface, data_mq, audio_config,
                  latency_modes, low_latency_allowed, bcast, requests >>

UnregisterStatusCback(cookie) ==
  /\ Unlocked
  /\ observers' = [c \in Cookies |-> IF c = cookie THEN None ELSE observers[c]]
  /\ UNCHANGED << session_type, stack_iface, data_mq, audio_config,
                  latency_modes, low_latency_allowed, bcast, requests >>

\* StartStream, SuspendStream and StopStream: a call on the stack's port while
\* the mutex is held.  ret is what the method returns; the call itself may fail
\* (a dead stack, a transport error).
StreamCall(kind, ret) ==
  /\ Unlocked
  /\ \/ ret /\ IsSessionReady /\ Len(requests) < MaxRequests
        /\ requests' = Append(requests, [stack |-> stack_iface, kind |-> kind])
     \/ ~ret /\ UNCHANGED requests
  /\ UNCHANGED << session_type, stack_iface, data_mq, audio_config,
                  latency_modes, low_latency_allowed, observers, bcast >>

-----------------------------------------------------------------------------
\* The session alone, under any caller: every method with every argument.
\* A report may answer the oldest request, or come unasked.
Report(start_resp, status) ==
  /\ ReportControlStatus(start_resp, status)
  /\ requests' \in {requests} \union (IF requests = << >> THEN {} ELSE {Tail(requests)})
Callback(c) ==
  /\ CallbackDone(c)
  /\ UNCHANGED << session_type, stack_iface, data_mq, audio_config,
                  latency_modes, low_latency_allowed, observers, requests >>
\* The stack drops the oldest request.
StackTakes ==
  /\ requests # << >>
  /\ requests' = Tail(requests)
  /\ UNCHANGED << session_type, stack_iface, data_mq, audio_config,
                  latency_modes, low_latency_allowed, observers, bcast >>

SessionNext ==
  \/ \E i \in Stacks, mq \in {"null", "bad", "good"}, tag \in ConfigTags,
        modes \in SUBSET LatencyModes : OnSessionStarted(i, mq, tag, modes)
  \/ OnSessionEnded
  \/ \E start_resp \in BOOLEAN, status \in Statuses : Report(start_resp, status)
  \/ \E tag \in ConfigTags : ReportAudioConfigChanged(tag)
  \/ \E allowed \in BOOLEAN : ReportLowLatencyModeAllowedChanged(allowed)
  \/ \E p \in Ports, c \in Cookies \union {Undefined} : RegisterStatusCback(p, c)
  \/ \E c \in Cookies : UnregisterStatusCback(c)
  \/ \E kind \in RequestKinds, ret \in BOOLEAN : StreamCall(kind, ret)
  \/ \E c \in Cookies : Callback(c)
  \/ StackTakes

SessionSpec == SessionInit /\ [][SessionNext]_sessionVars

-----------------------------------------------------------------------------
\* Type invariant of the session object.
SessionTypeOK ==
  /\ session_type \in SessionTypes
  /\ stack_iface \in Stacks \union {None}
  /\ data_mq \in {"none", "valid"}
  /\ audio_config \in ConfigTags \union {None}
  /\ latency_modes \in SUBSET LatencyModes
  /\ low_latency_allowed \in BOOLEAN
  /\ observers \in [Cookies -> Ports \union {None}]
  /\ bcast \in [kind : {"none", "session", "started", "suspended", "config", "latency"},
                status : Statuses \union {"none"},
                todo : SUBSET Cookies]
  /\ requests \in Seq([stack : Stacks, kind : RequestKinds])

\* A callback only ever runs for a cookie that is registered: a port that has
\* been unregistered cannot be called back by a walk over observers_ that began
\* before (RegisterStatusCback and UnregisterStatusCback wait for the mutex the
\* walk holds).
CallbacksRegistered == bcast.todo \subseteq Registered

\* GetAudioConfig hands out a configuration of the variant the session's type
\* uses, ready or not, however starts, restarts, failed starts and
\* configuration updates are interleaved (its callers extract that variant).
ConfigFitsType == TagFits(session_type, GetAudioConfig)

\* A ready session never changes hands, and never loses its stack, silently:
\* whenever stack_iface_ of a ready session is replaced, a walk is opened that
\* calls session_changed_cb_ of every registered port.
ChangeAnnounced ==
  [][ IsSessionReady /\ stack_iface' # stack_iface =>
        /\ bcast'.todo = Registered
        /\ Registered # {} => bcast'.kind = "session" ]_sessionVars
=============================================================================
