--------------------------- MODULE HidlAudioSession ---------------------------
(***************************************************************************)
(* One session of the HIDL library: the BluetoothAudioSession of           *)
(* utils/session and the BluetoothAudioSession_2_1 around it, on a system  *)
(* without the AIDL service (with it every call goes to the middleware,    *)
(* see HidlToAidlMiddleware).  The session types that 2.1 added keep their *)
(* configuration in the outer object; the others go through the inner one, *)
(* converted.  Both run under the inner object's recursive mutex: a walk   *)
(* over observers_ holds it from callback to callback, and everything else *)
(* is one step, which waits for Unlocked.                                  *)
(***************************************************************************)
EXTENDS Integers, FiniteSets

CONSTANTS SessionTypes,  \* the session types to check
          CookieSize,    \* kObserversCookieSize
          QueueSize,     \* bytes in the data queue
          Interval       \* a dataIntervalUs the stack asks for

AllTypes == { "A2DP_SOFTWARE", "A2DP_OFFLOAD", "HEARING_AID", "LE_ENCODING",
              "LE_DECODED", "LE_OFFLOAD" }

ASSUME HidlAssumption ==
  /\ SessionTypes \subseteq AllTypes
  /\ CookieSize \in Nat /\ QueueSize \in Nat /\ Interval \in Nat \ {0}

VARIABLES
  type,       \* raw_session_type_
  iface,      \* stack_iface_ is set
  mq,         \* mDataMQ: its bytes, or NoQueue
  cfg,        \* audio_config_ of the inner object
  cfg21,      \* audio_config_2_1_ of the outer one
  observers,  \* observers_: who is registered under a cookie
  walk,       \* the walk over observers_ in progress
  requests,   \* what the stack has been asked and has not answered
  given,      \* history: the configuration the session was started with
  silenced    \* history: a failed start took the queue of a running session

sessionVars == << type, iface, mq, cfg, cfg21, observers, walk, requests, given, silenced >>

Cookies == 1..CookieSize
Undefined == 0
NoQueue == -1
NoWalk == [kind |-> "none", status |-> "none", todo |-> {}]
Unlocked == walk.todo = {}

(* A configuration: its discriminator, whether every field of a pcmConfig  *)
(* is known, and dataIntervalUs.                                           *)
Configs == [tag : {"pcm", "codec"}, known : BOOLEAN, interval : {0, Interval}]
Pcm == [tag |-> "pcm", known |-> TRUE, interval |-> Interval]
Codec == [tag |-> "codec", known |-> TRUE, interval |-> 0]
InvalidSoftware == [tag |-> "pcm", known |-> FALSE, interval |-> 0]
InvalidOffload == [tag |-> "codec", known |-> FALSE, interval |-> 0]
Invalid(t) == IF t = "A2DP_OFFLOAD" THEN InvalidOffload ELSE InvalidSoftware

is_2_0_session_type(t) == t \in {"A2DP_SOFTWARE", "A2DP_OFFLOAD", "HEARING_AID"}
is_unsupported_2_1_session_type(t) == t = "LE_OFFLOAD"

(* session_type_2_1_ is not UNKNOWN.                                       *)
Is21(t) == ~(is_2_0_session_type(t) \/ is_unsupported_2_1_session_type(t))

(* A 2.1 configuration as the inner object takes it: 2.0 has no            *)
(* dataIntervalUs.                                                         *)
To20(c) == IF c.tag = "codec" THEN c ELSE [c EXCEPT !.interval = 0]

SessionInit ==
  /\ type \in SessionTypes
  /\ iface = FALSE
  /\ mq = NoQueue
  /\ cfg = InvalidSoftware
  /\ cfg21 = InvalidSoftware
  /\ observers = [c \in Cookies |-> "none"]
  /\ walk = NoWalk
  /\ requests = {}
  /\ given = InvalidSoftware
  /\ silenced = FALSE

IsSessionReady == iface /\ (type = "A2DP_OFFLOAD" \/ mq # NoQueue)
Registered == { c \in Cookies : observers[c] # "none" }

(***************************************************************************)
(* Reports of the stack.                                                   *)
(***************************************************************************)

(* ReportSessionStatus and ReportControlStatus call back every observer.   *)
Report(kind, status) ==
  walk' = IF Registered = {} THEN NoWalk
          ELSE [kind |-> kind, status |-> status, todo |-> Registered]

CallbackDone(c) ==
  walk' = IF walk.todo = {c} THEN NoWalk ELSE [walk EXCEPT !.todo = @ \ {c}]

(* The configurations UpdateAudioConfig of the inner and of the outer      *)
(* object accept.                                                          *)
Accepts20(t, c) == \/ t \in {"A2DP_SOFTWARE", "HEARING_AID"} /\ c.tag = "pcm"
                   \/ t = "A2DP_OFFLOAD" /\ c.tag = "codec"
Accepts21(t, c) == t \in {"LE_ENCODING", "LE_DECODED"} /\ c.tag = "pcm"
UpdateAudioConfig(c) == IF Is21(type) THEN Accepts21(type, c) ELSE Accepts20(type, To20(c))

(* What the configuration kept by the two objects becomes.                 *)
SetConfig(c) ==
  IF Is21(type) THEN cfg21' = c /\ UNCHANGED cfg ELSE cfg' = To20(c) /\ UNCHANGED cfg21
ResetConfig ==
  IF Is21(type) THEN cfg21' = InvalidSoftware /\ UNCHANGED cfg
                ELSE cfg' = Invalid(type) /\ UNCHANGED cfg21

\* Mutant: a descriptor that makes no queue leaves the old queue in place.
UpdateDataPathKeeps(d) == mq' = CASE d = "valid" -> 0 [] d = "null" -> NoQueue [] OTHER -> mq

(* UpdateDataPath: no descriptor resets the queue; one that makes no valid *)
(* queue also does, and fails.                                             *)
UpdateDataPath(d) == mq' = IF d = "valid" THEN 0 ELSE NoQueue

(* OnSessionStarted with an interface or without, a descriptor d and a     *)
(* configuration.  A start that fails at the queue has already replaced    *)
(* the queue and the configuration of a session that may be running, and   *)
(* tells nobody.                                                           *)
OnSessionStarted(stack_iface, d, c) ==
  /\ Unlocked
  /\ IF ~stack_iface \/ ~UpdateAudioConfig(c)
     THEN UNCHANGED << iface, mq, cfg, cfg21, walk, given, silenced >>
     ELSE /\ UpdateDataPath(d)
          /\ IF d = "invalid"
             THEN /\ ResetConfig
                  /\ silenced' = (silenced \/ IsSessionReady)
                  /\ UNCHANGED << iface, walk, given >>
             ELSE /\ SetConfig(c)
                  /\ iface' = TRUE
                  /\ given' = c
                  /\ silenced' = FALSE
                  /\ Report("session", "none")
  /\ UNCHANGED << type, observers, requests >>

(* What the stack calls it with (external): a provider of a software       *)
(* session hands over the descriptor of a queue, one of an offload session *)
(* has none.                                                               *)
StackStarts ==
  \E i \in BOOLEAN, c \in {Pcm, Codec, InvalidSoftware},
     d \in IF type \in {"A2DP_OFFLOAD", "LE_OFFLOAD"} THEN {"null"} ELSE {"invalid", "valid"} :
    OnSessionStarted(i, d, c)

\* Mutant: the end of a session is not reported.
OnSessionEndedQuietly ==
  /\ Unlocked
  /\ cfg' = Invalid(type)
  /\ iface' = FALSE
  /\ UpdateDataPath("null")
  /\ requests' = {}
  /\ given' = InvalidSoftware
  /\ UNCHANGED << type, cfg21, observers, walk, silenced >>

(* OnSessionEnded is the inner object's: audio_config_2_1_ stays.  The     *)
(* stack drops what it has not answered.                                   *)
OnSessionEnded ==
  /\ Unlocked
  /\ cfg' = Invalid(type)
  /\ iface' = FALSE
  /\ UpdateDataPath("null")
  /\ requests' = {}
  /\ IF IsSessionReady THEN Report("session", "none") ELSE UNCHANGED walk
  /\ given' = InvalidSoftware
  /\ UNCHANGED << type, cfg21, observers, silenced >>

(* The stack answers a request, or suspends a stream by itself.            *)
ReportControlStatus(kind, status) ==
  /\ Unlocked /\ iface
  /\ kind \in requests \/ kind = "suspend"
  /\ requests' = requests \ {kind}
  /\ Report(kind, status)
  /\ UNCHANGED << type, iface, mq, cfg, cfg21, observers, given, silenced >>

(* The stack puts a byte it has decoded into the queue (external).         *)
StackProduces ==
  /\ mq # NoQueue /\ mq < QueueSize /\ type = "LE_DECODED"
  /\ mq' = mq + 1
  /\ UNCHANGED << type, iface, cfg, cfg21, observers, walk, requests, given, silenced >>

(***************************************************************************)
(* Calls of the audio module.                                              *)
(***************************************************************************)
FreeCookie(c) == c \in Cookies \ Registered /\ \A b \in 1..(c - 1) : b \in Registered

RegisterStatusCback(who, c) ==
  /\ Unlocked
  /\ \/ FreeCookie(c) /\ observers' = [observers EXCEPT ![c] = who]
     \/ Registered = Cookies /\ c = Undefined /\ UNCHANGED observers
  /\ UNCHANGED << type, iface, mq, cfg, cfg21, walk, requests, given, silenced >>

UnregisterStatusCback(c) ==
  /\ Unlocked
  /\ observers' = [observers EXCEPT ![c] = "none"]
  /\ UNCHANGED << type, iface, mq, cfg, cfg21, walk, requests, given, silenced >>

(* Another client of the session, such as the module of another device.    *)
OtherRegisters == \E c \in Cookies : RegisterStatusCback("other", c)
OtherUnregisters == \E c \in Cookies : observers[c] = "other" /\ UnregisterStatusCback(c)

(* GetAudioConfig of the outer object.  session_type_2_1_ is never         *)
(* A2DP_HARDWARE_OFFLOAD_DATAPATH, so a session that is not ready has the  *)
(* invalid software configuration whatever its type.                       *)
GetAudioConfig ==
  IF ~IsSessionReady THEN InvalidSoftware ELSE IF Is21(type) THEN cfg21 ELSE cfg

(* StartStream, SuspendStream and StopStream: ret is what they return; the *)
(* call to the stack may fail.                                             *)
StreamCall(kind, ret) ==
  /\ Unlocked
  /\ \/ IsSessionReady /\ ret /\ requests' = requests \union ({kind} \ {"stop"})
     \/ ~ret /\ UNCHANGED requests
  /\ UNCHANGED << type, iface, mq, cfg, cfg21, observers, walk, given, silenced >>

(* One round of InReadPcmData with `want' bytes to go takes n bytes.       *)
ReadRound(want, n) ==
  /\ Unlocked /\ IsSessionReady /\ mq > 0
  /\ n = IF mq > want THEN want ELSE mq
  /\ mq' = mq - n
  /\ UNCHANGED << type, iface, cfg, cfg21, observers, walk, requests, given, silenced >>

(***************************************************************************)
(* Properties.                                                             *)
(***************************************************************************)
HidlTypeOK ==
  /\ type \in SessionTypes
  /\ iface \in BOOLEAN /\ silenced \in BOOLEAN
  /\ mq \in NoQueue..QueueSize
  /\ cfg \in Configs /\ cfg21 \in Configs /\ given \in Configs
  /\ observers \in [Cookies -> {"none", "port", "other"}]
  /\ walk \in [kind : {"none", "session", "start", "suspend"},
               status : {"none", "SUCCESS", "FAILURE"}, todo : SUBSET Cookies]
  /\ requests \subseteq {"start", "suspend"}

(* A session that is ready answers GetAudioConfig with the configuration   *)
(* it was started with, complete for the types of 2.1 and without the      *)
(* interval for the others, however many starts have failed since.         *)
ReadyHasConfig ==
  IsSessionReady =>
    /\ GetAudioConfig = IF Is21(type) THEN given ELSE To20(given)
    /\ GetAudioConfig.tag = IF type = "A2DP_OFFLOAD" THEN "codec" ELSE "pcm"
=============================================================================
