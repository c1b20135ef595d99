----------------------- MODULE BluetoothAudioProvider -----------------------
(***************************************************************************)
(* The AIDL audio providers of one session type (hal/*AudioProvider.cpp)   *)
(* on top of the session they share.  Each life of the Bluetooth process   *)
(* opens its own provider through the factory and passes it its own        *)
(* IBluetoothAudioPort, so a stack i, its provider and its port are        *)
(* indexed by the same i.                                                  *)
(*                                                                         *)
(* The provider's fields have no lock: its client, the stack, is one       *)
(* caller that waits for a call to return before it makes the next one.    *)
(* Binder's death notification is delivered on another thread at any later *)
(* time.  startSession and endSession are split where they release control *)
(* to the session or to binder.                                            *)
(***************************************************************************)
EXTENDS BluetoothAudioSession

CONSTANTS MqResults,  \* what mapping a provider's queue may give
          MaxLinks    \* bound on the starts a provider makes without an end

ASSUME ProviderAssumption == /\ MqResults \subseteq {"good", "bad"}
                             /\ MaxLinks \in Nat

VARIABLES
  p_iface,   \* stack_iface_ # nullptr, per provider
  p_config,  \* the tag of the provider's *audio_config_, or None
  p_modes,   \* the provider's latency_modes_
  p_pc,      \* where the call the stack is making on its provider stands
  proc,      \* the stack's process: "new", "up" or "dead"
  links      \* death recipients linked to the port of i and not yet fired

providerOnly == << p_iface, p_config, p_modes, p_pc, proc, links >>
providerVars == << sessionVars, providerOnly >>

ProviderInit ==
  /\ SessionInit
  /\ p_iface = [i \in Stacks |-> FALSE]
  /\ p_config = [i \in Stacks |-> None]
  /\ p_modes = [i \in Stacks |-> {}]
  /\ p_pc = [i \in Stacks |-> "idle"]
  /\ proc = [i \in Stacks |-> "new"]
  /\ links = [i \in Stacks |-> 0]

Alive == { i \in Stacks : proc[i] = "up" }

\* The stack is between two calls on its provider.  A call that has just walked
\* the observers returns when the walk is over.
CanCall(i) == i \in Alive /\ p_pc[i] = "idle" /\ Unlocked

-----------------------------------------------------------------------------
\* The configurations the startSession of each provider class lets through, by
\* their variant; the codec tables decide on the contents.
AcceptsA2dpSoftware(type, tag) ==
  type \in {"A2DP_SOFTWARE_ENCODING", "A2DP_SOFTWARE_DECODING"} /\ tag = "pcmConfig"
AcceptsHearingAid(type, tag) ==
  type = "HEARING_AID_SOFTWARE_ENCODING" /\ tag = "pcmConfig"
AcceptsHfpSoftware(type, tag) ==
  type \in {"HFP_SOFTWARE_ENCODING", "HFP_SOFTWARE_DECODING"} /\ tag = "pcmConfig"
AcceptsLeAudioSoftware(type, tag) ==
  /\ type \in {"LE_AUDIO_SOFTWARE_ENCODING", "LE_AUDIO_SOFTWARE_DECODING",
              "LE_AUDIO_BROADCAST_SOFTWARE_ENCODING"}
  /\ tag = "pcmConfig"
AcceptsA2dpOffload(type, tag) ==
  type \in A2dpOffloadTypes /\ tag \in {"a2dp", "a2dpConfig"}
AcceptsHfpOffload(type, tag) ==
  type \in HfpOffloadTypes /\ tag = "hfpConfig"
\* Mutant: the unicast providers let a broadcast configuration through.
AcceptsLeAudioEither(type, tag) ==
  /\ type \in LeUnicastTypes \union LeBroadcastTypes
  /\ tag \in {"leAudioConfig", "leAudioBroadcastConfig"}
AcceptsLeAudioOffload(type, tag) ==
  \/ type \in LeBroadcastTypes /\ tag = "leAudioBroadcastConfig"
  \/ type \in LeUnicastTypes   /\ tag = "leAudioConfig"

\* The class openProvider of the factory makes for a session type.
openProvider(type, tag) ==
  \/ AcceptsA2dpSoftware(type, tag)    \/ AcceptsHearingAid(type, tag)
  \/ AcceptsHfpSoftware(type, tag)     \/ AcceptsLeAudioSoftware(type, tag)
  \/ AcceptsA2dpOffload(type, tag)     \/ AcceptsHfpOffload(type, tag)
  \/ AcceptsLeAudioOffload(type, tag)

\* startSession up to the call of binder; a rejected configuration changes
\* nothing.
startSession(i, tag, modes) ==
  /\ CanCall(i)
  /\ openProvider(session_type, tag)
  /\ links[i] < MaxLinks
  /\ p_modes' = [p_modes EXCEPT ![i] = modes]
  /\ p_config' = [p_config EXCEPT ![i] = tag]
  /\ p_iface' = [p_iface EXCEPT ![i] = TRUE]
  /\ p_pc' = [p_pc EXCEPT ![i] = "link"]
  /\ UNCHANGED << proc, links, sessionVars >>

\* Mutant: a start that finds a session ready takes it for a restart and counts on the
\* link that is there.
linkToDeathSkipped(i) ==
  /\ p_pc[i] = "link"
  /\ links' = [links EXCEPT ![i] = IF i \in Alive /\ ~IsSessionReady THEN @ + 1 ELSE @]
  /\ p_pc' = [p_pc EXCEPT ![i] = "ready"]
  /\ UNCHANGED << p_iface, p_config, p_modes, proc, sessionVars >>

\* AIBinder_linkToDeath; its result is ignored, and a port whose process has
\* died in the meantime is not linked.
linkToDeath(i) ==
  /\ p_pc[i] = "link"
  /\ links' = [links EXCEPT ![i] = IF i \in Alive THEN @ + 1 ELSE @]
  /\ p_pc' = [p_pc EXCEPT ![i] = "ready"]
  /\ UNCHANGED << p_iface, p_config, p_modes, proc, sessionVars >>

\* onSessionReady of the software providers passes the descriptor of their own
\* queue, which the session may still fail to map.
onSessionReadySoftware(i) ==
  /\ p_pc[i] = "ready"
  /\ session_type \in SoftwareTypes
  /\ \E mq \in MqResults : OnSessionStarted(i, mq, p_config[i], p_modes[i])
  /\ p_pc' = [p_pc EXCEPT ![i] = "idle"]
  /\ UNCHANGED << p_iface, p_config, p_modes, proc, links >>

\* onSessionReady of the offload providers, which have no data path.
onSessionReadyOffload(i) ==
  /\ p_pc[i] = "ready"
  /\ session_type \in OffloadTypes
  /\ OnSessionStarted(i, "null", p_config[i], p_modes[i])
  /\ p_pc' = [p_pc EXCEPT ![i] = "idle"]
  /\ UNCHANGED << p_iface, p_config, p_modes, proc, links >>

onSessionReady(i) == onSessionReadySoftware(i) \/ onSessionReadyOffload(i)

\* Mutant: the session is not told of the end.
endSessionSilent(i) ==
  /\ CanCall(i)
  /\ p_iface[i]
  /\ p_pc' = [p_pc EXCEPT ![i] = "ended"]
  /\ UNCHANGED << p_iface, p_config, p_modes, proc, links, sessionVars >>

\* endSession with a session: report the end, whoever's session it is by now.
endSession(i) ==
  /\ CanCall(i)
  /\ p_iface[i]
  /\ OnSessionEnded
  /\ p_pc' = [p_pc EXCEPT ![i] = "ended"]
  /\ UNCHANGED << p_iface, p_config, p_modes, proc, links >>

\* The rest of endSession.  Unlinking names a cookie that was never linked and
\* so finds nothing; the links go when the last reference to the stack's port
\* is dropped, here.
endSessionClear(i) ==
  /\ p_pc[i] = "ended"
  /\ Unlocked
  /\ p_iface' = [p_iface EXCEPT ![i] = FALSE]
  /\ p_config' = [p_config EXCEPT ![i] = None]
  /\ links' = [links EXCEPT ![i] = IF i \in Alive THEN 0 ELSE @]
  /\ p_pc' = [p_pc EXCEPT ![i] = "idle"]
  /\ UNCHANGED << p_modes, proc, sessionVars >>

\* streamStarted and streamSuspended: pass the result on while the provider has
\* a session of its own.
streamStarted(i, status) ==
  /\ CanCall(i) /\ p_iface[i]
  /\ ReportControlStatus(TRUE, status)
  /\ UNCHANGED providerOnly

streamSuspended(i, status) ==
  /\ CanCall(i) /\ p_iface[i]
  /\ ReportControlStatus(FALSE, status)
  /\ UNCHANGED providerOnly

updateAudioConfiguration(i, tag) ==
  /\ CanCall(i) /\ p_iface[i] /\ p_config[i] # None
  /\ tag = p_config[i]
  /\ p_config' = [p_config EXCEPT ![i] = tag]
  /\ ReportAudioConfigChanged(tag)
  /\ UNCHANGED << p_iface, p_modes, p_pc, proc, links >>

setLowLatencyModeAllowed(i, allowed) ==
  /\ CanCall(i) /\ p_iface[i]
  /\ ReportLowLatencyModeAllowedChanged(allowed)
  /\ UNCHANGED providerOnly

-----------------------------------------------------------------------------
\* There is one Bluetooth process at a time: the next one comes up when the
\* last one has died.
StackBoots(i) ==
  /\ proc[i] = "new"
  /\ Alive = {}
  /\ proc' = [proc EXCEPT ![i] = "up"]
  /\ UNCHANGED << p_iface, p_config, p_modes, p_pc, links, sessionVars >>

\* The process of stack i dies; a call it has in progress goes on in the HAL.
StackDies(i) ==
  /\ i \in Alive
  /\ proc' = [proc EXCEPT ![i] = "dead"]
  /\ UNCHANGED << p_iface, p_config, p_modes, p_pc, links, sessionVars >>

\* Mutant: the notice finds no session to end.
binderDiedLost(i) ==
  /\ proc[i] = "dead"
  /\ links[i] > 0
  /\ links' = [links EXCEPT ![i] = @ - 1]
  /\ UNCHANGED << p_iface, p_config, p_modes, p_pc, proc, sessionVars >>

\* binderDiedCallbackAidl: the context holds only the session type, so the
\* session is ended whichever stack it belongs to when the notice arrives.
binderDied(i) ==
  /\ proc[i] = "dead"
  /\ links[i] > 0
  /\ links' = [links EXCEPT ![i] = @ - 1]
  /\ OnSessionEnded
  /\ UNCHANGED << p_iface, p_config, p_modes, p_pc, proc >>

ProviderStep(i) ==
  \/ \E tag \in ConfigTags, modes \in SUBSET LatencyModes : startSession(i, tag, modes)
  \/ linkToDeath(i)
  \/ onSessionReady(i)
  \/ endSession(i)
  \/ endSessionClear(i)
  \/ \E tag \in ConfigTags : updateAudioConfiguration(i, tag)
  \/ \E allowed \in BOOLEAN : setLowLatencyModeAllowed(i, allowed)
  \/ StackBoots(i)
  \/ StackDies(i)
  \/ binderDied(i)

ClientStep ==
  /\ \/ \E p \in Ports, c \in Cookies \union {Undefined} : RegisterStatusCback(p, c)
     \/ \E c \in Cookies : UnregisterStatusCback(c)
     \/ \E c \in Cookies : Callback(c)
     \/ \E kind \in RequestKinds, ret \in BOOLEAN : StreamCall(kind, ret)
     \/ StackTakes
  /\ UNCHANGED providerOnly

ReplyStep(i) ==
  /\ \E status \in Statuses : streamStarted(i, status) \/ streamSuspended(i, status)
  /\ requests' \in {requests} \union (IF requests = << >> THEN {} ELSE {Tail(requests)})

ProviderNext ==
  \/ \E i \in Stacks : ProviderStep(i) \/ ReplyStep(i)
  \/ ClientStep

\* The HAL's own threads go on: calls in progress finish, callbacks return and
\* binder delivers every death notice.  Nothing is assumed of the stack.
ProviderFairness ==
  /\ \A i \in Stacks : /\ WF_providerVars(linkToDeath(i))
                       /\ WF_providerVars(onSessionReady(i))
                       /\ WF_providerVars(endSessionClear(i))
                       /\ SF_providerVars(binderDied(i))
  /\ WF_providerVars(\E c \in Cookies : Callback(c) /\ UNCHANGED providerOnly)

\* What the providers and the session do with any clients; the audio HAL's
\* streams are such clients (BluetoothStreamOut implements this specification).
ProviderSafety == ProviderInit /\ [][ProviderNext]_providerVars
ProviderSpec == ProviderSafety /\ ProviderFairness

-----------------------------------------------------------------------------
\* Type invariant of the providers, beside the session's.
ProviderTypeOK ==
  /\ SessionTypeOK
  /\ p_iface \in [Stacks -> BOOLEAN]
  /\ p_config \in [Stacks -> ConfigTags \union {None}]
  /\ p_modes \in [Stacks -> SUBSET LatencyModes]
  /\ p_pc \in [Stacks -> {"idle", "link", "ready", "ended"}]
  /\ proc \in [Stacks -> {"new", "up", "dead"}]
  /\ links \in [Stacks -> 0 .. MaxLinks]

\* The stack behind the session still has a session in its provider's eyes, so
\* the results it reports for requests this session sends are passed on and
\* not dropped: endSession, restarts, crashes and late death notices never
\* leave the session with a stack whose provider has let go of it.
SessionOwned == stack_iface # None => p_iface[stack_iface]

\* Binder watches the process behind the session: whichever start or restart installed
\* it, the port of a running process is linked when the session is, and a session that
\* was linked stays linked until it ends, however its process dies, the other process
\* comes up and late notices arrive.
SessionWatched ==
  [][ \A i \in Stacks :
        /\ stack_iface' = i
        /\ proc'[i] = "up" \/ (stack_iface = i /\ links[i] > 0)
        => links'[i] > 0 ]_providerVars

\* The session a process leaves behind when it dies does not outlive it: binder's notice
\* ends it (binderDiedCallbackAidl).  By SessionWatched this is every session that was
\* installed before the death.  A session installed after it is not covered: the process
\* may die inside startSession before linkToDeath, or between linkToDeath and
\* onSessionReady with its notice already spent, and then the dead stack's session stays
\* until the next start.
DeathEndsSession ==
  \A i \in Stacks :
    (stack_iface = i /\ proc[i] = "dead" /\ links[i] > 0) ~> (stack_iface # i)

\* A startSession that its provider has accepted replaces whatever session there
\* was, also that of a process which died without notice: when it returns, no
\* other stack's session is left ready behind it.
StartReplaces ==
  [][ \A i \in Stacks :
        p_pc[i] = "ready" /\ p_pc'[i] = "idle" /\ IsSessionReady' => stack_iface' = i
    ]_providerVars

\* A running stack loses its session only by its own endSession ("report that
\* the Bluetooth stack has ended the session", OnSessionEnded).
LiveSessionKept ==
  [][ \A i \in Alive :
        stack_iface = i /\ stack_iface' = None => p_pc'[i] = "ended" ]_providerVars
=============================================================================
