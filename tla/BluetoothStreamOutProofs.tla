----------------------- MODULE BluetoothStreamOutProofs -----------------------
(***************************************************************************)
(* The control path of an output stream, from the bottom up.  The          *)
(* providers use the session as its specification allows, and never leave  *)
(* it with a stack whose provider has let go of it, for any number of      *)
(* lives of the Bluetooth process.  The output streams are clients as the  *)
(* providers' specification allows, so what is proved of the session and   *)
(* of the providers holds of the whole control path.  On top of that, no   *)
(* stream is used after it is freed, an open stream hears its session and  *)
(* the calls on a stream exclude each other, for any number of streams and *)
(* cookies and whatever the framework, the stack and binder do.            *)
(***************************************************************************)
EXTENDS BluetoothStreamOut, BluetoothAudioSessionProofs

-----------------------------------------------------------------------------
\* The providers.

\* What startSession has prepared when it comes to linkToDeath and
\* onSessionReady.
StartPrepared ==
  \A i \in Stacks :
    /\ p_pc[i] \in {"link", "ready"} => /\ p_iface[i]
                                      /\ p_config[i] \in ConfigTags
                                      /\ TagFits(session_type, p_config[i])
    /\ p_pc[i] = "link" => links[i] < MaxLinks

\* Between OnSessionEnded and the end of endSession the session is not the
\* provider's any more.
EndReleases == \A i \in Stacks : p_pc[i] = "ended" => stack_iface # i

\* The port of a running process is linked from linkToDeath on, and as long as its
\* session lasts; a process that has not come up has neither.
Linked ==
  \A i \in Stacks :
    /\ proc[i] = "up" /\ (p_pc[i] = "ready" \/ stack_iface = i) => links[i] > 0
    /\ proc[i] = "new" => p_pc[i] = "idle" /\ stack_iface # i

\* The inductive invariant: SessionOwned alone is broken by onSessionReady
\* without StartPrepared and by endSessionClear without EndReleases.
ProviderInv ==
  ProviderTypeOK /\ SessionInv /\ StartPrepared /\ EndReleases /\ SessionOwned /\ Linked

-----------------------------------------------------------------------------
\* What a provider class accepts, the session accepts: the two tables agree.
LEMMA AcceptedFits ==
  ASSUME NEW type, NEW tag, openProvider(type, tag)
  PROVE  TagFits(type, tag)
  BY DEF openProvider, AcceptsA2dpSoftware, AcceptsHearingAid, AcceptsHfpSoftware,
         AcceptsLeAudioSoftware, AcceptsA2dpOffload, AcceptsHfpOffload,
         AcceptsLeAudioOffload, TagFits, SoftwareTypes

\* Every step of the providers and of their clients is, for the session, a call
\* of one of its methods or nothing.
LEMMA ProviderStepIsSessionStep ==
  ASSUME ProviderInv, [ProviderNext]_providerVars
  PROVE  [SessionNext]_sessionVars
<1> USE DEF ProviderInv
<1>1. CASE UNCHANGED providerVars
  BY <1>1 DEF providerVars
<1>2. ASSUME NEW i \in Stacks, ProviderStep(i)
      PROVE  [SessionNext]_sessionVars
  <2>1. CASE onSessionReady(i)
    <3>1. /\ p_pc[i] = "ready" /\ p_config[i] \in ConfigTags
          /\ p_modes[i] \in SUBSET LatencyModes
      BY <2>1 DEF onSessionReady, onSessionReadySoftware, onSessionReadyOffload,
                  StartPrepared, ProviderTypeOK
    <3>2. \E mq \in {"null", "bad", "good"} :
             OnSessionStarted(i, mq, p_config[i], p_modes[i])
      BY <2>1, ProviderAssumption
         DEF onSessionReady, onSessionReadySoftware, onSessionReadyOffload
    <3> QED  BY <3>1, <3>2 DEF SessionNext
  <2>2. CASE endSession(i) \/ binderDied(i)
    BY <2>2 DEF endSession, binderDied, SessionNext
  <2>3. ASSUME NEW tag \in ConfigTags, updateAudioConfiguration(i, tag)
        PROVE  SessionNext
    BY <2>3 DEF updateAudioConfiguration, SessionNext
  <2>4. ASSUME NEW allowed \in BOOLEAN, setLowLatencyModeAllowed(i, allowed)
        PROVE  SessionNext
    BY <2>4 DEF setLowLatencyModeAllowed, SessionNext
  <2>5. CASE \/ \E tag \in ConfigTags, modes \in SUBSET LatencyModes : startSession(i, tag, modes)
             \/ linkToDeath(i) \/ endSessionClear(i) \/ StackBoots(i) \/ StackDies(i)
    BY <2>5 DEF startSession, linkToDeath, endSessionClear, StackBoots, StackDies
  <2> QED  BY <1>2, <2>1, <2>2, <2>3, <2>4, <2>5 DEF ProviderStep
<1>3. ASSUME NEW i \in Stacks, ReplyStep(i)
      PROVE  SessionNext
  <2>1. PICK status \in Statuses : streamStarted(i, status) \/ streamSuspended(i, status)
    BY <1>3 DEF ReplyStep
  <2>2. \E start_resp \in BOOLEAN : Report(start_resp, status)
    BY <1>3, <2>1 DEF ReplyStep, streamStarted, streamSuspended, Report
  <2> QED  BY <2>2 DEF SessionNext
<1>4. CASE ClientStep
  BY <1>4 DEF ClientStep, SessionNext
<1> QED  BY <1>1, <1>2, <1>3, <1>4 DEF ProviderNext

\* The invariant holds before the first process comes up.
LEMMA ProviderInitInv == ProviderInit => ProviderInv
<1> SUFFICES ASSUME ProviderInit PROVE ProviderInv
  OBVIOUS
<1>1. SessionInv /\ SessionTypeOK
  BY SessionInitInv DEF ProviderInit, SessionInv
<1>2. ProviderTypeOK
  BY <1>1, ProviderAssumption DEF ProviderInit, ProviderTypeOK
<1>3. StartPrepared /\ EndReleases /\ SessionOwned /\ Linked
  BY SessionAssumption DEF ProviderInit, SessionInit, StartPrepared, EndReleases, SessionOwned, Linked
<1> QED  BY <1>1, <1>2, <1>3 DEF ProviderInv

\* The parts of the invariant about the providers' own fields.
ProviderFields ==
  /\ p_iface \in [Stacks -> BOOLEAN]
  /\ p_config \in [Stacks -> ConfigTags \union {None}]
  /\ p_modes \in [Stacks -> SUBSET LatencyModes]
  /\ p_pc \in [Stacks -> {"idle", "link", "ready", "ended"}]
  /\ proc \in [Stacks -> {"new", "up", "dead"}]
  /\ links \in [Stacks -> 0 .. MaxLinks]
OwnInv == ProviderFields /\ StartPrepared /\ EndReleases /\ SessionOwned /\ Linked

\* A step that leaves the providers' fields alone and the session's stack as it
\* is, or without one, keeps their part of the invariant.
LEMMA FieldsKept ==
  ASSUME OwnInv, UNCHANGED << providerOnly, session_type >>,
         stack_iface' \in {stack_iface, None}
  PROVE  OwnInv'
  BY SessionAssumption DEF OwnInv, ProviderFields, StartPrepared, EndReleases, SessionOwned, Linked, providerOnly

\* Every step preserves the providers' part of the invariant.
LEMMA OwnStepInv ==
  ASSUME ProviderInv, [ProviderNext]_providerVars
  PROVE  OwnInv'
<1>1. OwnInv
  BY DEF ProviderInv, OwnInv, ProviderFields, ProviderTypeOK
<1> USE <1>1, SessionAssumption, ProviderAssumption
<1>2. CASE UNCHANGED providerVars
  BY <1>2, FieldsKept DEF providerVars, sessionVars
<1>3. CASE ClientStep
  BY <1>3, FieldsKept DEF ClientStep, RegisterStatusCback, UnregisterStatusCback,
                          Callback, StreamCall, StackTakes
<1>4. ASSUME NEW i \in Stacks, ReplyStep(i)
      PROVE  OwnInv'
  BY <1>4, FieldsKept DEF ReplyStep, streamStarted, streamSuspended, ReportControlStatus
<1>5. ASSUME NEW i \in Stacks, ProviderStep(i)
      PROVE  OwnInv'
  <2> USE DEF OwnInv, ProviderFields, StartPrepared, EndReleases, SessionOwned, Linked
  <2>1. ASSUME NEW tag \in ConfigTags, NEW modes \in SUBSET LatencyModes,
               startSession(i, tag, modes)
        PROVE  OwnInv'
    <3>1. (ProviderFields /\ StartPrepared /\ EndReleases /\ SessionOwned)'
      BY <2>1, AcceptedFits DEF startSession, sessionVars
    <3>2. Linked'
      BY <2>1 DEF startSession, sessionVars, CanCall, Alive
    <3> QED  BY <3>1, <3>2
  <2>2. CASE linkToDeath(i)
    <3>1. (ProviderFields /\ StartPrepared /\ EndReleases /\ SessionOwned)'
      BY <2>2 DEF linkToDeath, sessionVars
    <3>2. Linked'
      <4>1. UNCHANGED << proc, stack_iface >>
        BY <2>2 DEF linkToDeath, sessionVars
      <4>2. ASSUME NEW j \in Stacks, j # i
            PROVE  links'[j] = links[j] /\ p_pc'[j] = p_pc[j]
        BY <2>2, <4>2 DEF linkToDeath
      <4>3. p_pc[i] = "link" /\ (proc[i] = "up" => links'[i] > 0)
        BY <2>2 DEF linkToDeath, Alive
      <4> QED  BY <4>1, <4>2, <4>3
    <3> QED  BY <3>1, <3>2
  <2>3. CASE onSessionReady(i)
    <3>1. /\ p_pc[i] = "ready" /\ p_iface[i]
          /\ p_pc' = [p_pc EXCEPT ![i] = "idle"]
          /\ UNCHANGED << p_iface, p_config, p_modes, proc, links, session_type >>
          /\ stack_iface' \in {stack_iface, i}
      BY <2>3 DEF onSessionReady, onSessionReadySoftware, onSessionReadyOffload,
                  OnSessionStarted
    <3> QED  BY <3>1
  <2>4. CASE endSession(i)
    <3>1. (ProviderFields /\ StartPrepared /\ EndReleases /\ SessionOwned)'
      BY <2>4 DEF endSession, OnSessionEnded
    <3>2. Linked'
      BY <2>4 DEF endSession, OnSessionEnded, CanCall, Alive
    <3> QED  BY <3>1, <3>2
  <2>5. CASE endSessionClear(i)
    BY <2>5 DEF endSessionClear, sessionVars
  <2>6. ASSUME NEW tag \in ConfigTags, updateAudioConfiguration(i, tag)
        PROVE  OwnInv'
    BY <2>6 DEF updateAudioConfiguration, ReportAudioConfigChanged
  <2>7. ASSUME NEW allowed \in BOOLEAN, setLowLatencyModeAllowed(i, allowed)
        PROVE  OwnInv'
    BY <2>7, FieldsKept DEF setLowLatencyModeAllowed, ReportLowLatencyModeAllowedChanged
  <2>8. CASE StackBoots(i) \/ StackDies(i)
    BY <2>8 DEF StackBoots, StackDies, sessionVars
  <2>9. CASE binderDied(i)
    BY <2>9 DEF binderDied, OnSessionEnded
  <2> QED
    BY <1>5, <2>1, <2>2, <2>3, <2>4, <2>5, <2>6, <2>7, <2>8, <2>9 DEF ProviderStep
<1> QED  BY <1>2, <1>3, <1>4, <1>5 DEF ProviderNext

\* Every step preserves the whole invariant.
LEMMA ProviderStepInv == ProviderInv /\ [ProviderNext]_providerVars => ProviderInv'
<1> SUFFICES ASSUME ProviderInv, [ProviderNext]_providerVars
             PROVE  ProviderInv'
  OBVIOUS
<1>1. OwnInv'
  BY OwnStepInv
<1>2. SessionInv'
  BY ProviderStepIsSessionStep, SessionStepInv DEF ProviderInv
<1> QED
  BY <1>1, <1>2 DEF ProviderInv, OwnInv, ProviderFields, ProviderTypeOK, SessionInv

-----------------------------------------------------------------------------
\* The invariant holds throughout, with any clients on the other side.
THEOREM ProviderInvariant == ProviderSafety => []ProviderInv
  BY ProviderInitInv, ProviderStepInv, PTL DEF ProviderSafety

\* Type correctness of the providers and their session.
THEOREM ProviderTypeCorrect == ProviderSafety => []ProviderTypeOK
  BY ProviderInvariant, PTL DEF ProviderInv

\* The stack behind the session always has a session in its provider's eyes, so
\* streamStarted and streamSuspended pass its results on.
THEOREM SessionAlwaysOwned == ProviderSafety => []SessionOwned
  BY ProviderInvariant, PTL DEF ProviderInv

\* Binder watches the process behind the session, through restarts, crashes and late
\* death notices, for any number of lives of the process (linkToDeath, endSession).
THEOREM SessionAlwaysWatched == ProviderSafety => SessionWatched
<1> DEFINE A == \A i \in Stacks :
                  /\ stack_iface' = i
                  /\ proc'[i] = "up" \/ (stack_iface = i /\ links[i] > 0)
                  => links'[i] > 0
<1>1. ProviderInv /\ ProviderInv' /\ [ProviderNext]_providerVars => [A]_providerVars
  <2> SUFFICES ASSUME ProviderInv, ProviderInv', ProviderNext, NEW i \in Stacks,
                      stack_iface' = i, stack_iface = i, links[i] > 0, proc'[i] # "up"
               PROVE  links'[i] > 0
    BY DEF ProviderInv, Linked
  <2> USE DEF ProviderInv, ProviderTypeOK
  <2>1. CASE \E j \in Stacks : ReplyStep(j)
    BY <2>1 DEF ReplyStep, streamStarted, streamSuspended, providerOnly
  <2>2. CASE ClientStep
    BY <2>2 DEF ClientStep, providerOnly
  <2>3. ASSUME NEW j \in Stacks, ProviderStep(j)
        PROVE  links'[i] > 0
    <3>1. CASE linkToDeath(j)
      BY <3>1 DEF linkToDeath
    <3>2. CASE endSessionClear(j)
      BY <3>2 DEF endSessionClear, EndReleases
    <3>3. CASE binderDied(j)
      BY <3>3, SessionAssumption DEF binderDied, OnSessionEnded
    <3>4. CASE ~(linkToDeath(j) \/ endSessionClear(j) \/ binderDied(j))
      BY <2>3, <3>4 DEF ProviderStep, startSession, endSession, onSessionReady,
           onSessionReadySoftware, onSessionReadyOffload, updateAudioConfiguration,
           setLowLatencyModeAllowed, StackBoots, StackDies, providerOnly
    <3> QED  BY <3>1, <3>2, <3>3, <3>4
  <2> QED  BY <2>1, <2>2, <2>3 DEF ProviderNext
<1>2. ProviderInv /\ [ProviderNext]_providerVars => ProviderInv'
  BY ProviderStepInv
<1> QED  BY <1>1, <1>2, ProviderInvariant, PTL DEF ProviderSafety, SessionWatched

\* A startSession that was accepted never leaves another stack's session ready.
THEOREM StartsReplace == ProviderSafety => StartReplaces
<1> DEFINE A == \A i \in Stacks :
                  p_pc[i] = "ready" /\ p_pc'[i] = "idle" /\ IsSessionReady' => stack_iface' = i
<1>1. ProviderInv /\ [ProviderNext]_providerVars => [A]_providerVars
  <2> SUFFICES ASSUME ProviderInv, ProviderNext, NEW i \in Stacks,
                      p_pc[i] = "ready", p_pc'[i] = "idle", IsSessionReady'
               PROVE  stack_iface' = i
    OBVIOUS
  <2> USE DEF ProviderInv, ProviderTypeOK
  <2>1. onSessionReady(i)
    <3>1. PICK j \in Stacks : ProviderStep(j)
      BY DEF ProviderNext, ReplyStep, streamStarted, streamSuspended, ClientStep, providerOnly
    <3>2. CASE j = i
      BY <3>1, <3>2 DEF ProviderStep, startSession, linkToDeath, endSession, endSessionClear,
             updateAudioConfiguration, setLowLatencyModeAllowed, providerOnly, CanCall,
             StackBoots, StackDies, binderDied
    <3>3. CASE j # i
      BY <3>1, <3>3 DEF ProviderStep, startSession, linkToDeath, endSession, endSessionClear,
             onSessionReady, onSessionReadySoftware, onSessionReadyOffload,
             updateAudioConfiguration, setLowLatencyModeAllowed, providerOnly,
             StackBoots, StackDies, binderDied
    <3> QED  BY <3>2, <3>3
  <2>2. TagFits(session_type, p_config[i])
    BY DEF StartPrepared
  <2> QED
    BY <2>1, <2>2 DEF onSessionReady, onSessionReadySoftware, onSessionReadyOffload,
                      OnSessionStarted, IsSessionReady
<1> QED  BY <1>1, ProviderInvariant, PTL DEF ProviderSafety, StartReplaces

-----------------------------------------------------------------------------
\* The streams.

\* The cookies a port holds or is about to store.
CookieTypes ==
  /\ cookie \in [Ports -> Cookies \union {Undefined}]
  /\ reg \in [Ports -> Cookies \union {Undefined}]

-----------------------------------------------------------------------------
\* Every step of a thread inside a call on a stream is a control request to the
\* session or nothing to it.
LEMMA ThreadStepBelow ==
  ASSUME NEW t \in Threads, ThreadStep(t)
  PROVE  ClientStep \/ UNCHANGED providerVars
<1>1. CASE Enter(t) \/ Read2(t) \/ StartCheck(t) \/ SuspendCheck(t)
  BY <1>1 DEF Enter, EnterSuspend, EnterResume, EnterClosing, EnterUnsuspend,
              EnterIgnored, EnterWrite, Read2, StartCheck, SuspendCheck, AtPort
<1>2. CASE StartSet(t) \/ SuspendSet(t) \/ StopSet(t) \/ SetDisabled(t) \/ SetStandby(t)
  BY <1>2 DEF StartSet, SuspendSet, StopSet, SetDisabled, SetStandby, SetState, providerVars
<1>3. CASE StartWait(t) \/ SuspendWait(t)
  BY <1>3 DEF StartWait, SuspendWait, CondwaitState, providerVars
<1>4. CASE StartCall(t) \/ SuspendCall(t) \/ StopCall(t)
  <2>1. \E kind \in RequestKinds, ret \in BOOLEAN : StreamCall(kind, ret) /\ UNCHANGED providerOnly
    BY <1>4 DEF StartCall, SuspendCall, StopCall, PortStreamCall, RequestKinds
  <2> QED  BY <2>1 DEF ClientStep
<1> QED  BY <1>1, <1>2, <1>3, <1>4 DEF ThreadStep

\* Opening and closing a stream registers and unregisters its callbacks.
LEMMA OwnStepBelow ==
  ASSUME CookieTypes, NEW p \in Ports, OwnStep(p)
  PROVE  ClientStep \/ UNCHANGED providerVars
<1>1. CASE WriteData(p) \/ Account(p) \/ OpenPush(p) \/ CloseRemove(p) \/ CloseRead(p)
  BY <1>1 DEF WriteData, Account, OpenPush, CloseRemove, CloseRead, AtPort
<1>2. CASE OpenSetUp(p) \/ OpenCookie(p) \/ CloseDelete(p)
  BY <1>2 DEF OpenSetUp, OpenCookie, CloseDelete, SetUpBegin, SetUpCookie,
              TearDownCookie, providerVars
<1>3. CASE OpenRegister(p)
  BY <1>3 DEF OpenRegister, SetUpRegister, ClientStep
<1>4. CASE CloseUnregister(p)
  <2>1. cookie[p] \in Cookies /\ UnregisterStatusCback(cookie[p]) /\ UNCHANGED providerOnly
    BY <1>4 DEF CloseUnregister, TearDownUnregister, in_use, CookieTypes
  <2> QED  BY <2>1 DEF ClientStep
<1> QED  BY <1>1, <1>2, <1>3, <1>4 DEF OwnStep

\* A callback of a port is a callback of the session.
LEMMA CallbackStepBelow ==
  ASSUME SessionTypeOK, CallbackStep
  PROVE  ClientStep \/ UNCHANGED providerVars
<1>1. ASSUME NEW c \in Cookies, CallbackBegin(c)
      PROVE  ClientStep \/ UNCHANGED providerVars
  <2>1. CASE UNCHANGED bcast
    BY <1>1, <2>1 DEF CallbackBegin, sessionCore, providerVars, sessionVars
  <2>2. CASE CallbackDone(c)
    <3>1. Callback(c) /\ UNCHANGED providerOnly
      BY <1>1, <2>2 DEF CallbackBegin, sessionCore, Callback
    <3> QED  BY <3>1 DEF ClientStep
  <2> QED  BY <1>1, <2>1, <2>2 DEF CallbackBegin
<1>2. CASE ControlResultHandler \/ SessionChangedHandler
  <2>1. Callback(hdl.cookie) /\ UNCHANGED providerOnly
    BY <1>2 DEF ControlResultHandler, SessionChangedHandler, sessionCore, Callback
  <2>2. hdl.cookie \in Cookies
    BY <2>1 DEF Callback, CallbackDone, SessionTypeOK
  <2> QED  BY <2>1, <2>2 DEF ClientStep
<1> QED  BY <1>1, <1>2 DEF CallbackStep

\* The framework's calls do not reach the session at once; the stack's calls are
\* calls on its provider.
LEMMA EnvStepBelow ==
  ASSUME EnvStep
  PROVE  ProviderNext \/ UNCHANGED providerVars
<1>1. CASE \/ \E p \in Ports : CallOpen(p) \/ CallClose(p) \/ \E o \in StreamCalls : CallStream(p, o)
           \/ \E o \in DeviceCalls : CallDevice(o)
  BY <1>1 DEF CallOpen, CallClose, CallStream, CallDevice, AtPort
<1>2. ASSUME NEW i \in Stacks, StackAnswers(i) \/ StackSuspends(i)
      PROVE  ProviderNext
  <2>1. ReplyStep(i)
    BY <1>2, StreamAssumption DEF StackAnswers, StackSuspends, ReplyStep
  <2> QED  BY <2>1 DEF ProviderNext
<1>3. ASSUME NEW i \in Stacks, StackControls(i)
      PROVE  ProviderNext
  <2>1. ProviderStep(i)
    BY <1>3 DEF StackControls, ProviderStep, ConfigTags
  <2> QED  BY <2>1 DEF ProviderNext
<1>4. CASE StackForgets
  <2>1. StackTakes /\ UNCHANGED providerOnly
    BY <1>4 DEF StackForgets, StackTakes, sessionCore
  <2> QED  BY <2>1 DEF ClientStep, ProviderNext
<1> QED  BY <1>1, <1>2, <1>3, <1>4 DEF EnvStep

\* Every step of the whole system is a step of the providers' specification, or
\* nothing to it.
LEMMA StepBelow ==
  ASSUME SessionTypeOK, CookieTypes, [Next]_vars
  PROVE  [ProviderNext]_providerVars
<1>1. CASE UNCHANGED vars
  BY <1>1 DEF vars
<1>2. CASE EnvStep
  BY <1>2, EnvStepBelow
<1>3. CASE CallbackStep \/ DeviceStep
  BY <1>3, CallbackStepBelow DEF DeviceStep, DeviceLock, DeviceNext, AtPort, ProviderNext
<1>4. ASSUME NEW i \in Stacks, BinderStep(i)
      PROVE  ProviderNext
  <2>1. ProviderStep(i)
    BY <1>4 DEF BinderStep, ProviderStep, onSessionReady
  <2> QED  BY <2>1 DEF ProviderNext
<1>5. CASE (\E t \in Threads : ThreadStep(t)) \/ (\E p \in Ports : OwnStep(p))
  BY <1>5, ThreadStepBelow, OwnStepBelow DEF ProviderNext
<1> QED  BY <1>1, <1>2, <1>3, <1>4, <1>5 DEF Next, SystemStep

\* Only SetUp and TearDown touch the cookies.
LEMMA CookieTypesStep == CookieTypes /\ [Next]_vars => CookieTypes'
<1> SUFFICES ASSUME CookieTypes, [Next]_vars
             PROVE  CookieTypes'
  OBVIOUS
<1> USE DEF CookieTypes
<1>1. CASE UNCHANGED vars
  BY <1>1 DEF vars, portVars, streamOnly
<1>2. CASE EnvStep
  BY <1>2 DEF EnvStep, CallOpen, CallClose, CallStream, CallDevice, StackAnswers, StackSuspends,
              StackControls, StackForgets, AtPort, portVars, streamOnly
<1>3. CASE CallbackStep \/ DeviceStep
  BY <1>3 DEF CallbackStep, CallbackBegin, ControlResultHandler, SessionChangedHandler,
              DeviceStep, DeviceLock, DeviceNext, AtPort, portVars, streamOnly
<1>4. CASE \E i \in Stacks : BinderStep(i)
  BY <1>4 DEF BinderStep, portVars, streamOnly
<1>5. ASSUME NEW t \in Threads, ThreadStep(t)
      PROVE  UNCHANGED << cookie, reg >>
  <2>1. CASE Enter(t) \/ Read2(t) \/ StartCheck(t) \/ SuspendCheck(t)
    BY <2>1 DEF Enter, EnterSuspend, EnterResume, EnterClosing, EnterUnsuspend, EnterIgnored,
                EnterWrite, EnterLocked, Read2, StartCheck, SuspendCheck, SuspendEnd, Return,
                Continue, AtPort, portVars
  <2>2. CASE StartSet(t) \/ SuspendSet(t) \/ StopSet(t) \/ SetDisabled(t) \/ SetStandby(t)
    BY <2>2 DEF StartSet, SuspendSet, StopSet, SetDisabled, SetStandby, SetState, Return, Continue
  <2>3. CASE StartWait(t) \/ SuspendWait(t) \/ StartCall(t) \/ SuspendCall(t) \/ StopCall(t)
    BY <2>3 DEF StartWait, SuspendWait, StartCall, SuspendCall, StopCall, SuspendEnd,
                CondwaitState, PortStreamCall, Return, Continue, portVars
  <2> QED  BY <1>5, <2>1, <2>2, <2>3 DEF ThreadStep
<1>6. ASSUME NEW p \in Ports, OwnStep(p)
      PROVE  CookieTypes'
  <2>1. CASE OpenRegister(p) \/ OpenCookie(p) \/ CloseDelete(p)
    BY <2>1 DEF OpenRegister, SetUpRegister, OpenCookie, SetUpCookie, CloseDelete,
                TearDownCookie, portVars
  <2>2. CASE ~(OpenRegister(p) \/ OpenCookie(p) \/ CloseDelete(p))
    BY <1>6, <2>2 DEF OwnStep, WriteData, Account, OpenSetUp, SetUpBegin, OpenPush, CloseRemove,
                      CloseRead, CloseUnregister, TearDownUnregister, Continue, AtPort, portVars
  <2> QED  BY <2>1, <2>2
<1> QED  BY <1>1, <1>2, <1>3, <1>4, <1>5, <1>6 DEF Next, SystemStep

-----------------------------------------------------------------------------
\* The streams, with every interleaving of their threads, of the callbacks and
\* of the stack, implement the providers' specification.
THEOREM StreamsImplementProviders == Spec => ProviderSafety
<1> DEFINE Inv == ProviderInv /\ CookieTypes
<1>1. Init => Inv /\ ProviderInit
  BY ProviderInitInv DEF Init, PortInit, CookieTypes
<1>2. Inv /\ [Next]_vars => Inv' /\ [ProviderNext]_providerVars
  <2> SUFFICES ASSUME Inv, [Next]_vars
               PROVE  Inv' /\ [ProviderNext]_providerVars
    OBVIOUS
  <2>1. [ProviderNext]_providerVars
    BY StepBelow DEF ProviderInv, SessionInv
  <2> QED  BY <2>1, ProviderStepInv, CookieTypesStep
<1> QED  BY <1>1, <1>2, PTL DEF Spec, ProviderSafety

\* So the stack behind the session always has a provider that passes its results
\* on, and a callback never reaches an unregistered port, whatever the streams do.
THEOREM StreamsKeepSession == Spec => [](SessionOwned /\ CallbacksRegistered)
<1>1. ProviderInv => SessionOwned /\ CallbacksRegistered
  BY DEF ProviderInv, SessionInv
<1> QED  BY <1>1, StreamsImplementProviders, ProviderInvariant, PTL

-----------------------------------------------------------------------------
\* Where a thread can be, by what its stream is going through.
LockedLabels == { "read2", "start.check", "start.set", "start.call", "start.wait",
                  "susp.check", "susp.set", "susp.call", "susp.wait",
                  "stop.set", "stop.call", "set.disabled", "set.standby" }
OpenLabels    == LockedLabels \union {"idle", "enter", "data", "account"}
OpeningLabels == {"setup", "register", "cookie", "push"}
ClosingLabels == {"remove", "close.read", "stop.set", "stop.call", "teardown", "delete"}
DeviceLabels  == LockedLabels \union {"idle", "dev", "next", "enter"}

\* A stream's thread is where the life of its object says, and knows that it is
\* closing it.
Phase(p) ==
  /\ obj[p] = "closed"  => pc[p] = "idle"
  /\ obj[p] = "opening" => pc[p] \in OpeningLabels
  /\ obj[p] = "open"    => pc[p] \in OpenLabels
  /\ obj[p] = "closing" => pc[p] \in ClosingLabels
  /\ op[p] = "close" <=> obj[p] = "closing"
Phases == \A p \in Ports : Phase(p)

\* adev_set_parameters holds the device's lock from the list it walks to the
\* last stream it visits, so the streams on its way are still in the list, and
\* a stream in the list has not yet been taken apart.
DeviceWalk ==
  /\ pc[Ctl] \in DeviceLabels
  /\ op[Ctl] \in DeviceCalls \union {"none"}
  /\ pc[Ctl] \in {"idle", "dev"} => walk = {}
  /\ pc[Ctl] \notin {"idle", "dev"} => dev = Ctl
  /\ Inside(Ctl) => at \in opened
  /\ walk \subseteq opened
  /\ \A p \in opened : obj[p] = "open" \/ (obj[p] = "closing" /\ pc[p] = "remove")

\* A port is registered from SetUp's call to TearDown's, under the cookie it has,
\* or is about to have, in cookie_.
Enrolled(p) == \/ pc[p] \in {"cookie", "push"} \/ obj[p] = "open"
               \/ obj[p] = "closing" /\ pc[p] # "delete"
MyCookie(p) == IF pc[p] = "cookie" THEN reg[p] ELSE cookie[p]
Registration ==
  \A p \in Ports :
    /\ \A c \in Cookies : observers[c] = p <=> (Enrolled(p) /\ MyCookie(p) = c)
    /\ Enrolled(p) /\ pc[p] # "cookie" => cookie[p] # Undefined

\* A callback in progress belongs to the walk that holds the session's mutex.
HandlerInWalk ==
  \/ hdl = NoHandler
  \/ hdl.port \in Ports /\ hdl.cookie \in bcast.todo /\ observers[hdl.cookie] = hdl.port

\* Whoever is inside a call on a stream has its lock, the closing thread excepted.
LocksHeld ==
  \A t \in Threads : pc[t] \in LockedLabels /\ op[t] # "close" => lock[Target(t)] = t

\* The inductive invariant.
StreamInv ==
  TypeOK /\ Phases /\ DeviceWalk /\ Registration /\ HandlerInWalk /\ LocksHeld

-----------------------------------------------------------------------------
\* What a step inside a call does to its thread: it stays under the lock, takes
\* it, returns, or turns from a write to what the write begins with.
Stays(t) ==
  /\ pc[t] \in LockedLabels
  /\ \E l \in LockedLabels : /\ pc[t] \in {"stop.set", "stop.call"} => l = "stop.call"
                             /\ Goto(t, l)
  /\ UNCHANGED << lock, op >>
Locks(t) ==
  /\ CanEnter(t)
  /\ \E l \in LockedLabels : Goto(t, l)
  /\ lock' = [lock EXCEPT ![Target(t)] = t]
  /\ UNCHANGED op
Returns(t) ==
  /\ CanEnter(t) \/ pc[t] \in LockedLabels
  /\ \E r \in BOOLEAN : Return(t, r)
Writes(t) ==
  /\ CanEnter(t) /\ op[t] = "write"
  /\ \E l \in {"data", "enter"} : Goto(t, l)
  /\ \E o \in {"none", "wresume"} : op' = [op EXCEPT ![t] = o]
  /\ UNCHANGED lock

\* Everything else is none of its business.
Elsewhere == << obj, opened, dev, reg, walk, at, cookie, hdl, observers, bcast >>

\* Every step of ThreadStep is one of the four.
LEMMA ThreadEffect ==
  ASSUME NEW t \in Threads, ThreadStep(t)
  PROVE  UNCHANGED Elsewhere /\ (Stays(t) \/ Locks(t) \/ Returns(t) \/ Writes(t))
<1> USE DEF Elsewhere, AtPort, portVars, providerVars, sessionVars, Continue, EnterLocked
<1>1. CASE EnterSuspend(t) \/ EnterResume(t)
  BY <1>1 DEF EnterSuspend, EnterResume, Locks, LockedLabels
<1>2. CASE EnterClosing(t) \/ EnterUnsuspend(t) \/ EnterIgnored(t)
  <2>1. UNCHANGED << cookie, hdl, observers, bcast >>
    BY <1>2 DEF EnterClosing, EnterUnsuspend, EnterIgnored
  <2>2. UNCHANGED << obj, opened, dev, reg, walk, at >>
    BY <1>2 DEF EnterClosing, EnterUnsuspend, EnterIgnored, Return
  <2>3. Locks(t) \/ (Return(t, TRUE) /\ CanEnter(t))
    BY <1>2 DEF EnterClosing, EnterUnsuspend, EnterIgnored, Locks, LockedLabels
  <2> QED  BY <2>1, <2>2, <2>3 DEF Returns
<1>3. CASE EnterWrite(t)
  BY <1>3 DEF EnterWrite, Writes
<1>4. CASE Read2(t) \/ StartCheck(t) \/ SuspendCheck(t)
  <2>1. UNCHANGED << cookie, hdl, observers, bcast >>
    BY <1>4 DEF Read2, StartCheck, SuspendCheck
  <2>2. pc[t] \in LockedLabels
    BY <1>4 DEF Read2, StartCheck, SuspendCheck, LockedLabels
  <2>3. \/ \E r \in BOOLEAN : Return(t, r)
        \/ /\ Stays(t)
           /\ UNCHANGED << obj, opened, dev, reg, walk, at >>
    BY <1>4 DEF Read2, StartCheck, SuspendCheck, SuspendEnd, Stays, LockedLabels
  <2> QED  BY <2>1, <2>2, <2>3 DEF Returns, Return
<1>5. CASE StartSet(t) \/ SuspendSet(t) \/ StopSet(t)
  BY <1>5 DEF StartSet, SuspendSet, StopSet, SetState, Stays, LockedLabels
<1>6. CASE SetDisabled(t) \/ SetStandby(t)
  <2>1. UNCHANGED << cookie, hdl, observers, bcast >> /\ Return(t, TRUE)
    BY <1>6 DEF SetDisabled, SetStandby, SetState
  <2>2. pc[t] \in LockedLabels
    BY <1>6 DEF SetDisabled, SetStandby, LockedLabels
  <2> QED  BY <2>1, <2>2 DEF Returns, Return
<1>7. CASE StartCall(t) \/ StartWait(t) \/ SuspendCall(t) \/ SuspendWait(t) \/ StopCall(t)
  <2>1. UNCHANGED << cookie, hdl, observers, bcast >>
    BY <1>7 DEF StartCall, StartWait, SuspendCall, SuspendWait, StopCall, PortStreamCall,
                StreamCall, CondwaitState
  <2>2. pc[t] \in LockedLabels
    BY <1>7 DEF StartCall, StartWait, SuspendCall, SuspendWait, StopCall, LockedLabels
  <2>3. \/ \E r \in BOOLEAN : Return(t, r)
        \/ /\ Stays(t)
           /\ UNCHANGED << obj, opened, dev, reg, walk, at >>
    BY <1>7 DEF StartCall, StartWait, SuspendCall, SuspendWait, StopCall, SuspendEnd, Stays,
                LockedLabels
  <2> QED  BY <2>1, <2>2, <2>3 DEF Returns, Return
<1> QED  BY <1>1, <1>2, <1>3, <1>4, <1>5, <1>6, <1>7 DEF ThreadStep, Enter

\* The stack and binder leave the ports, the streams and the registrations alone,
\* and begin a walk only when there is none.
LEMMA StackEffect ==
  ASSUME NEW i \in Stacks,
         \/ StackAnswers(i) \/ StackSuspends(i) \/ StackControls(i) \/ StackForgets
         \/ BinderStep(i)
  PROVE  UNCHANGED << portVars, streamOnly, observers >> /\ (UNCHANGED bcast \/ Unlocked)
<1>1. CASE StackAnswers(i) \/ StackSuspends(i)
  BY <1>1 DEF StackAnswers, StackSuspends, streamStarted, streamSuspended, ReportControlStatus
<1>2. CASE StackControls(i)
  BY <1>2 DEF StackControls, startSession, endSession, OnSessionEnded, StackBoots, StackDies,
              sessionVars
<1>3. CASE StackForgets
  BY <1>3 DEF StackForgets
<1>4. CASE BinderStep(i)
  BY <1>4 DEF BinderStep, linkToDeath, onSessionReadySoftware, OnSessionStarted,
              endSessionClear, binderDied, OnSessionEnded, sessionVars
<1> QED  BY <1>1, <1>2, <1>3, <1>4

\* A callback only moves the walk, and the handler in it, on.
LEMMA CallbackEffect ==
  ASSUME CallbackStep
  PROVE  UNCHANGED << streamOnly, cookie, observers >>
  BY DEF CallbackStep, CallbackBegin, ControlResultHandler, SessionChangedHandler
-----------------------------------------------------------------------------
\* The calls of the framework and the steps of opening, closing and writing, which
\* move one thread and are looked at one by one.
StreamMove(p) ==
  \/ CallOpen(p) \/ CallClose(p) \/ (\E o \in StreamCalls : CallStream(p, o))
  \/ OwnStep(p)
DeviceMove == (\E o \in DeviceCalls : CallDevice(o)) \/ DeviceStep

\* The steps of the whole system, by who makes them.
LEMMA StepCases ==
  ASSUME [Next]_vars
  PROVE  \/ UNCHANGED vars
         \/ \E t \in Threads : ThreadStep(t)
         \/ \E p \in Ports : StreamMove(p)
         \/ DeviceMove
         \/ CallbackStep
         \/ UNCHANGED << portVars, streamOnly, observers >> /\ (UNCHANGED bcast \/ Unlocked)
<1>1. ASSUME NEW i \in Stacks,
             \/ StackAnswers(i) \/ StackSuspends(i) \/ StackControls(i) \/ BinderStep(i)
      PROVE  UNCHANGED << portVars, streamOnly, observers >> /\ (UNCHANGED bcast \/ Unlocked)
  BY <1>1, StackEffect
<1>2. CASE StackForgets
  BY <1>2 DEF StackForgets
<1> QED  BY <1>1, <1>2 DEF Next, EnvStep, SystemStep, StreamMove, DeviceMove

-----------------------------------------------------------------------------
\* Types of the streams' own variables.
StreamTypes ==
  /\ obj \in [Ports -> {"closed", "opening", "open", "closing"}]
  /\ opened \in SUBSET Ports
  /\ dev \in {None, Ctl}
  /\ lock \in [Ports -> Threads \union {None}]
  /\ pc \in [Threads -> Labels]
  /\ op \in [Threads -> StreamCalls \union DeviceCalls \union {"none", "wresume", "close"}]
  /\ walk \in SUBSET Ports
  /\ at \in Ports \union {None}

\* Every step keeps the types of obj, pc, op, the locks and the device.
LEMMA StreamTypesStep ==
  ASSUME StreamTypes, DeviceWalk, [Next]_vars
  PROVE  StreamTypes'
<1> USE DEF StreamTypes, Goto, Threads
<1>1. ASSUME UNCHANGED streamOnly PROVE StreamTypes'
  BY <1>1 DEF streamOnly
<1>2. ASSUME NEW t \in Threads, ThreadStep(t) PROVE StreamTypes'
  <2>1. UNCHANGED Elsewhere /\ (Stays(t) \/ Locks(t) \/ Returns(t) \/ Writes(t))
    BY <1>2, ThreadEffect
  <2>2. obj' \in [Ports -> {"closed", "opening", "open", "closing"}] /\ opened' \in SUBSET Ports
        /\ dev' \in {None, Ctl} /\ walk' \in SUBSET Ports /\ at' \in Ports \union {None}
    BY <2>1 DEF Elsewhere
  <2>3. lock' \in [Ports -> Threads \union {None}]
    BY <2>1 DEF Stays, Locks, Returns, Writes, Return
  <2>4. pc' \in [Threads -> Labels]
    BY <2>1 DEF Stays, Locks, Returns, Writes, Return, LockedLabels, Labels
  <2>5. op' \in [Threads -> StreamCalls \union DeviceCalls \union {"none", "wresume", "close"}]
    BY <2>1 DEF Stays, Locks, Returns, Writes, Return
  <2> QED  BY <2>2, <2>3, <2>4, <2>5
<1>3. ASSUME NEW p \in Ports, StreamMove(p) PROVE StreamTypes'
  <2>1. CASE CallOpen(p) \/ CallClose(p) \/ \E o \in StreamCalls : CallStream(p, o)
    BY <2>1 DEF CallOpen, CallClose, CallStream, Labels
  <2>2. CASE WriteData(p) \/ Account(p) \/ OpenSetUp(p) \/ OpenRegister(p)
    BY <2>2 DEF WriteData, Account, OpenSetUp, OpenRegister, Continue, Labels
  <2>3. CASE OpenCookie(p) \/ OpenPush(p)
    BY <2>3 DEF OpenCookie, OpenPush, Labels
  <2>4. CASE CloseRemove(p) \/ CloseRead(p) \/ CloseUnregister(p) \/ CloseDelete(p)
    BY <2>4 DEF CloseRemove, CloseRead, CloseUnregister, CloseDelete, Continue, Labels
  <2> QED  BY <1>3, <2>1, <2>2, <2>3, <2>4 DEF StreamMove, OwnStep
<1>4. ASSUME DeviceMove PROVE StreamTypes'
  <2>1. CASE \E o \in DeviceCalls : CallDevice(o)
    BY <2>1 DEF CallDevice, Labels
  <2>2. CASE DeviceLock
    BY <2>2 DEF DeviceLock, Labels
  <2>3. CASE DeviceNext
    BY <2>3 DEF DeviceNext, Labels
  <2> QED  BY <1>4, <2>1, <2>2, <2>3 DEF DeviceMove, DeviceStep
<1>5. CallbackStep => StreamTypes'
  BY <1>1, CallbackEffect
<1> HIDE DEF StreamTypes
<1> QED  BY <1>1, <1>2, <1>3, <1>4, <1>5, StepCases DEF vars

-----------------------------------------------------------------------------
\* Every step keeps a thread where the life of its stream says.
LEMMA PhasesStep ==
  ASSUME StreamTypes, Phases, DeviceWalk, [Next]_vars
  PROVE  Phases'
<1> USE DEF StreamTypes, Goto, Threads
<1>1. ASSUME UNCHANGED << obj, pc, op >> PROVE Phases'
  BY <1>1 DEF Phases, Phase
<1>o. ASSUME NEW t \in Threads, NEW q \in Ports, q # t, Phase(q), obj'[q] = obj[q],
             pc'[q] = pc[q], op'[q] = op[q]
      PROVE  Phase(q)'
  BY <1>o DEF Phase
<1>2. ASSUME NEW t \in Threads, ThreadStep(t) PROVE Phases'
  <2>1. UNCHANGED obj /\ (Stays(t) \/ Locks(t) \/ Returns(t) \/ Writes(t))
    BY <1>2, ThreadEffect DEF Elsewhere
  <2>2. ASSUME NEW q \in Ports, q # t PROVE Phase(q)'
    <3>1. pc'[q] = pc[q] /\ op'[q] = op[q]
      BY <2>1, <2>2 DEF Stays, Locks, Returns, Writes, Return
    <3> QED  BY <2>1, <2>2, <3>1, <1>o DEF Phases
  <2>3. ASSUME t \in Ports PROVE Phase(t)'
    <3>0. Phase(t) /\ t # Ctl
      BY <2>3, StreamAssumption DEF Phases
    <3>1. CASE Stays(t)
      BY <2>1, <2>3, <3>0, <3>1 DEF Stays, Phase, LockedLabels, OpenLabels, OpeningLabels, ClosingLabels
    <3>2. CASE Locks(t)
      BY <2>1, <2>3, <3>0, <3>2 DEF Locks, CanEnter, Phase, LockedLabels, OpenLabels, OpeningLabels, ClosingLabels
    <3>3. CASE Writes(t)
      BY <2>1, <2>3, <3>0, <3>3 DEF Writes, CanEnter, Phase, LockedLabels, OpenLabels, OpeningLabels, ClosingLabels
    <3>4. CASE Returns(t)
      <4>1. pc[t] \in LockedLabels \union {"enter"}
        BY <3>4 DEF Returns, CanEnter
      <4>2. obj[t] \in {"open", "closing"}
        BY <4>1, <2>3, <3>0 DEF Phase, LockedLabels, OpeningLabels
      <4>3. CASE obj[t] = "open"
        <5>1. op[t] # "close" /\ op'[t] = "none" /\ pc'[t] \in {"data", "idle"}
          BY <4>3, <2>3, <3>0, <3>4 DEF Returns, Return, Phase
        <5> QED  BY <5>1, <4>3, <2>1 DEF Phase, OpenLabels
      <4>4. CASE obj[t] = "closing"
        <5>1. op[t] = "close" /\ op'[t] = "close" /\ pc'[t] = "teardown"
          BY <4>4, <2>3, <3>0, <3>4 DEF Returns, Return, Phase
        <5> QED  BY <5>1, <4>4, <2>1 DEF Phase, ClosingLabels
      <4> QED  BY <4>2, <4>3, <4>4
    <3> QED  BY <2>1, <3>1, <3>2, <3>3, <3>4
  <2> QED  BY <2>2, <2>3 DEF Phases
<1>3. ASSUME NEW p \in Ports, StreamMove(p) PROVE Phases'
  <2>0. Phase(p)
    BY DEF Phases
  <2>1. ASSUME NEW q \in Ports, q # p PROVE Phase(q)'
    <3>1. pc'[q] = pc[q] /\ op'[q] = op[q] /\ obj'[q] = obj[q]
      BY <1>3, <2>1 DEF StreamMove, OwnStep, CallOpen, CallClose, CallStream, WriteData, Account,
         OpenSetUp, OpenRegister, OpenCookie, OpenPush, CloseRemove, CloseRead, CloseUnregister,
         CloseDelete, Continue
    <3> QED  BY <2>1, <3>1, <1>o DEF Phases
  <2>2. Phase(p)'
    <3> USE <2>0, StreamAssumption DEF Phase, OpenLabels, OpeningLabels, ClosingLabels, LockedLabels
    <3>1. CASE CallOpen(p) \/ CallClose(p) \/ \E o \in StreamCalls : CallStream(p, o)
      BY <3>1 DEF CallOpen, CallClose, CallStream
    <3>2. CASE WriteData(p) \/ Account(p) \/ OpenSetUp(p) \/ OpenRegister(p)
      BY <3>2 DEF WriteData, Account, OpenSetUp, OpenRegister, Continue
    <3>3. CASE OpenCookie(p) \/ OpenPush(p)
      BY <3>3 DEF OpenCookie, OpenPush
    <3>4. CASE CloseRemove(p) \/ CloseRead(p) \/ CloseUnregister(p) \/ CloseDelete(p)
      BY <3>4 DEF CloseRemove, CloseRead, CloseUnregister, CloseDelete, Continue
    <3> QED  BY <1>3, <3>1, <3>2, <3>3, <3>4 DEF StreamMove, OwnStep
  <2> QED  BY <2>1, <2>2 DEF Phases
<1>4. ASSUME DeviceMove PROVE Phases'
  <2>1. \A q \in Ports : pc'[q] = pc[q] /\ op'[q] = op[q] /\ obj'[q] = obj[q]
    BY <1>4, StreamAssumption DEF DeviceMove, DeviceStep, CallDevice, DeviceLock, DeviceNext
  <2> QED  BY <2>1 DEF Phases, Phase
<1>5. CallbackStep => Phases'
  BY <1>1, CallbackEffect DEF streamOnly
<1> HIDE DEF StreamTypes
<1> QED  BY <1>1, <1>2, <1>3, <1>4, <1>5, StepCases DEF vars, streamOnly
-----------------------------------------------------------------------------
\* adev_set_parameters never has a stream before it that is being taken apart: the
\* list only changes while the device's lock is free.
LEMMA DeviceWalkStep ==
  ASSUME StreamTypes, Phases, DeviceWalk, [Next]_vars
  PROVE  DeviceWalk'
<1> USE StreamAssumption DEF StreamTypes, Goto, Threads
<1>1. ASSUME UNCHANGED streamOnly PROVE DeviceWalk'
  BY <1>1 DEF DeviceWalk, Inside, streamOnly
<1>2. ASSUME NEW t \in Threads, ThreadStep(t) PROVE DeviceWalk'
  <2>1. /\ UNCHANGED << obj, opened, dev, walk, at >>
        /\ Stays(t) \/ Locks(t) \/ Returns(t) \/ Writes(t)
    BY <1>2, ThreadEffect DEF Elsewhere
  <2>2. CASE t = Ctl
    <3>1. /\ op'[Ctl] = op[Ctl]
          /\ pc[Ctl] \in LockedLabels \union {"enter"}
          /\ pc'[Ctl] \in LockedLabels \union {"next"}
      <4>1. op[Ctl] \notin {"write", "wresume", "close"}
        BY DEF DeviceWalk
      <4>2. CASE Stays(t) \/ Locks(t) \/ Writes(t)
        BY <2>2, <4>1, <4>2 DEF Stays, Locks, Writes, CanEnter
      <4>3. CASE Returns(t)
        BY <2>2, <4>1, <4>3 DEF Returns, Return, CanEnter
      <4> QED  BY <2>1, <4>2, <4>3
    <3>2. \A p \in Ports : pc'[p] = pc[p]
      BY <2>1, <2>2 DEF Stays, Locks, Returns, Writes, Return
    <3> QED  BY <2>1, <3>1, <3>2 DEF DeviceWalk, Inside, LockedLabels, DeviceLabels
  <2>3. CASE t # Ctl
    <3>1. pc'[Ctl] = pc[Ctl] /\ op'[Ctl] = op[Ctl] /\ \A p \in Ports \ {t} : pc'[p] = pc[p]
      BY <2>1, <2>3 DEF Stays, Locks, Returns, Writes, Return
    <3>2. pc[t] \in LockedLabels \union {"enter"}
      BY <2>1 DEF Stays, Locks, Returns, Writes, CanEnter
    <3>3. pc[t] # "remove"
      BY <3>2 DEF LockedLabels
    <3> QED  BY <2>1, <2>3, <3>1, <3>3 DEF DeviceWalk, Inside
  <2> QED  BY <2>2, <2>3
<1>3. ASSUME NEW p \in Ports, StreamMove(p) PROVE DeviceWalk'
  <2>0. Phase(p)
    BY DEF Phases
  <2>1. /\ pc'[Ctl] = pc[Ctl] /\ op'[Ctl] = op[Ctl] /\ UNCHANGED << dev, walk, at >>
        /\ \A q \in Ports \ {p} : pc'[q] = pc[q] /\ obj'[q] = obj[q]
    BY <1>3 DEF StreamMove, OwnStep, CallOpen, CallClose, CallStream, WriteData, Account,
       OpenSetUp, OpenRegister, OpenCookie, OpenPush, CloseRemove, CloseRead, CloseUnregister,
       CloseDelete, Continue
  <2>2. CASE CallClose(p)
    BY <2>1, <2>2 DEF CallClose, DeviceWalk, Inside
  <2>3. CASE OpenPush(p)
    BY <2>1, <2>3 DEF OpenPush, DeviceWalk, Inside
  <2>4. CASE CloseRemove(p)
    BY <2>1, <2>4 DEF CloseRemove, DeviceWalk, Inside
  <2>5. CASE WriteData(p) \/ Account(p) \/ \E o \in StreamCalls : CallStream(p, o)
    BY <2>1, <2>5 DEF WriteData, Account, CallStream, Continue, DeviceWalk, Inside
  <2>6. CASE \/ CallOpen(p) \/ OpenSetUp(p) \/ OpenRegister(p) \/ OpenCookie(p)
             \/ CloseRead(p) \/ CloseUnregister(p) \/ CloseDelete(p)
    <3>1. UNCHANGED opened
      BY <2>6 DEF CallOpen, OpenSetUp, OpenRegister, OpenCookie, CloseRead, CloseUnregister,
                  CloseDelete, Continue
    <3>2. pc[p] \in OpeningLabels \union {"close.read", "teardown", "delete"} \/ obj[p] = "closed"
      BY <2>6 DEF CallOpen, OpenSetUp, OpenRegister, OpenCookie, CloseRead, CloseUnregister,
                  CloseDelete, OpeningLabels
    <3>3. p \notin opened
      BY <2>0, <3>2 DEF Phase, DeviceWalk, OpeningLabels, OpenLabels, LockedLabels
    <3> QED  BY <2>1, <3>1, <3>3 DEF DeviceWalk, Inside
  <2> QED  BY <1>3, <2>2, <2>3, <2>4, <2>5, <2>6 DEF StreamMove, OwnStep
<1>4. ASSUME DeviceMove PROVE DeviceWalk'
  <2>1. CASE \E o \in DeviceCalls : CallDevice(o)
    BY <2>1 DEF CallDevice, DeviceWalk, Inside, DeviceLabels
  <2>2. CASE DeviceLock
    BY <2>2 DEF DeviceLock, DeviceWalk, Inside, DeviceLabels
  <2>3. CASE DeviceNext
    BY <2>3 DEF DeviceNext, DeviceWalk, Inside, DeviceLabels
  <2> QED  BY <1>4, <2>1, <2>2, <2>3 DEF DeviceMove, DeviceStep
<1>5. CallbackStep => DeviceWalk'
  BY <1>1, CallbackEffect
<1> HIDE DEF StreamTypes
<1> QED  BY <1>1, <1>2, <1>3, <1>4, <1>5, StepCases DEF vars

-----------------------------------------------------------------------------
\* A thread inside a call has the stream's lock, and none takes it from another.
LEMMA LocksHeldStep ==
  ASSUME StreamTypes, Phases, DeviceWalk, LocksHeld, [Next]_vars
  PROVE  LocksHeld'
<1> USE StreamAssumption DEF StreamTypes, Goto, Threads
<1>1. ASSUME UNCHANGED streamOnly PROVE LocksHeld'
  BY <1>1 DEF LocksHeld, Target, streamOnly
<1>2. ASSUME NEW t \in Threads, ThreadStep(t) PROVE LocksHeld'
  <2>1. UNCHANGED at /\ (Stays(t) \/ Locks(t) \/ Returns(t) \/ Writes(t))
    BY <1>2, ThreadEffect DEF Elsewhere
  <2>2. pc[t] \in LockedLabels \union {"enter"}
    BY <2>1 DEF Stays, Locks, Returns, Writes, CanEnter
  <2>3. Target(t) \in Ports
    BY <2>2 DEF Target, DeviceWalk, Inside, LockedLabels
  <2>4. CASE Stays(t) \/ Writes(t)
    BY <2>1, <2>4 DEF Stays, Writes, LocksHeld, Target, LockedLabels
  <2>5. CASE Locks(t)
    <3>1. lock'[Target(t)] = t /\ \A u \in Threads \ {t} : pc'[u] = pc[u]
      BY <2>3, <2>5 DEF Locks
    <3>2. ASSUME NEW u \in Threads \ {t}, pc[u] \in LockedLabels, op[u] # "close"
          PROVE  lock'[Target(u)] = u
      BY <2>3, <2>5, <3>2, SessionAssumption DEF Locks, CanEnter, LocksHeld
    <3> QED  BY <2>1, <2>5, <3>1, <3>2 DEF Locks, LocksHeld, Target
  <2>6. CASE Returns(t)
    <3>1. PICK r \in BOOLEAN : Return(t, r)
      BY <2>6 DEF Returns
    <3>2. pc'[t] \notin LockedLabels
      BY <3>1 DEF Return, LockedLabels
    <3>3. \A u \in Threads \ {t} : pc'[u] = pc[u] /\ op'[u] = op[u]
      BY <3>1 DEF Return
    <3>4. CASE op[t] = "close"
      <4>1. UNCHANGED lock
        BY <3>1, <3>4 DEF Return
      <4> QED  BY <2>1, <3>2, <3>3, <4>1 DEF LocksHeld, Target
    <3>5. CASE op[t] # "close"
      <4>1. lock' = [lock EXCEPT ![Target(t)] = None] /\ lock[Target(t)] \in {t, None}
        BY <2>6, <3>1, <3>5 DEF Return, Returns, CanEnter, LocksHeld
      <4>2. ASSUME NEW u \in Threads \ {t}, pc[u] \in LockedLabels, op[u] # "close"
            PROVE  lock'[Target(u)] = u
        BY <4>1, <4>2, <2>3, SessionAssumption DEF LocksHeld
      <4> QED  BY <2>1, <3>2, <3>3, <4>2 DEF LocksHeld, Target
    <3> QED  BY <3>4, <3>5
  <2> QED  BY <2>1, <2>4, <2>5, <2>6
<1>3. ASSUME NEW p \in Ports, StreamMove(p) PROVE LocksHeld'
  <2>0. Phase(p)
    BY DEF Phases
  <2>1. /\ UNCHANGED << lock, at >>
        /\ \A u \in Threads \ {p} : pc'[u] = pc[u] /\ op'[u] = op[u]
    BY <1>3 DEF StreamMove, OwnStep, CallOpen, CallClose, CallStream, WriteData, Account,
       OpenSetUp, OpenRegister, OpenCookie, OpenPush, CloseRemove, CloseRead, CloseUnregister,
       CloseDelete, Continue
  <2>2. CASE CloseRead(p)
    <3>1. op'[p] = "close"
      BY <2>0, <2>2 DEF CloseRead, Continue, Phase, OpenLabels, OpeningLabels, LockedLabels
    <3> QED  BY <2>1, <3>1 DEF LocksHeld, Target
  <2>3. CASE ~CloseRead(p)
    <3>1. pc'[p] \notin LockedLabels
      BY <1>3, <2>3 DEF StreamMove, OwnStep, CallOpen, CallClose, CallStream, WriteData, Account,
         OpenSetUp, OpenRegister, OpenCookie, OpenPush, CloseRemove, CloseUnregister,
         CloseDelete, Continue, LockedLabels
    <3> QED  BY <2>1, <3>1 DEF LocksHeld, Target
  <2> QED  BY <2>2, <2>3
<1>4. ASSUME DeviceMove PROVE LocksHeld'
  <2>1. UNCHANGED lock /\ \A u \in Ports : pc'[u] = pc[u] /\ op'[u] = op[u]
    BY <1>4 DEF DeviceMove, DeviceStep, CallDevice, DeviceLock, DeviceNext
  <2>2. pc'[Ctl] \notin LockedLabels
    BY <1>4 DEF DeviceMove, DeviceStep, CallDevice, DeviceLock, DeviceNext, LockedLabels
  <2> QED  BY <2>1, <2>2 DEF LocksHeld, Target
<1>5. CallbackStep => LocksHeld'
  BY <1>1, CallbackEffect
<1> HIDE DEF StreamTypes
<1> QED  BY <1>1, <1>2, <1>3, <1>4, <1>5, StepCases DEF vars
-----------------------------------------------------------------------------
\* The registrations of the ports, seen from one port.
EnrolledAs(p) ==
  /\ \A c \in Cookies : observers[c] = p <=> (Enrolled(p) /\ MyCookie(p) = c)
  /\ Enrolled(p) /\ pc[p] # "cookie" => cookie[p] # Undefined

\* Only SetUp and TearDown register and unregister, each its own port, and the
\* cookie that RegisterStatusCback gives out is free.
LEMMA RegistrationStep ==
  ASSUME SessionTypeOK, CookieTypes, StreamTypes, Phases, Registration, [Next]_vars
  PROVE  Registration'
<1> USE StreamAssumption DEF Goto, Threads, Undefined
<1>0. Registration <=> \A p \in Ports : EnrolledAs(p)
  BY DEF Registration, EnrolledAs
<1>0p. Registration' <=> \A p \in Ports : EnrolledAs(p)'
  BY DEF Registration, EnrolledAs
<1>1. ASSUME UNCHANGED << obj, pc, reg, cookie, observers >> PROVE Registration'
  BY <1>1 DEF Registration, Enrolled, MyCookie
<1>2. ASSUME NEW t \in Threads, ThreadStep(t) PROVE Registration'
  <2>1. /\ UNCHANGED << obj, reg, cookie, observers >>
        /\ Stays(t) \/ Locks(t) \/ Returns(t) \/ Writes(t)
    BY <1>2, ThreadEffect DEF Elsewhere
  <2>2. \A q \in Threads \ {t} : pc'[q] = pc[q]
    BY <2>1 DEF Stays, Locks, Returns, Writes, Return, StreamTypes
  <2>3. /\ pc[t] \notin {"cookie", "push", "delete"}
        /\ pc'[t] \notin {"cookie", "push", "delete"}
    BY <2>1 DEF Stays, Locks, Returns, Writes, Return, CanEnter, LockedLabels, StreamTypes
  <2> QED  BY <2>1, <2>2, <2>3 DEF Registration, Enrolled, MyCookie
<1>3. ASSUME NEW p \in Ports, StreamMove(p) PROVE Registration'
  <2>0. Phase(p) /\ EnrolledAs(p) /\ obj[p] \in {"closed", "opening", "open", "closing"}
    BY <1>0 DEF Phases, StreamTypes
  <2>1. \A q \in Ports \ {p} : /\ pc'[q] = pc[q] /\ obj'[q] = obj[q]
                              /\ reg'[q] = reg[q] /\ cookie'[q] = cookie[q]
    BY <1>3 DEF StreamMove, OwnStep, CallOpen, CallClose, CallStream, WriteData, Account,
       OpenSetUp, OpenRegister, OpenCookie, OpenPush, CloseRemove, CloseRead, CloseUnregister,
       CloseDelete, Continue, StreamTypes, CookieTypes, AtPort, portVars, SetUpBegin,
       SetUpRegister, SetUpCookie, TearDownUnregister, TearDownCookie
  <2>2. CASE UNCHANGED observers
    <3>1. ASSUME NEW q \in Ports \ {p} PROVE EnrolledAs(q)'
      BY <1>0, <2>1, <2>2 DEF EnrolledAs, Enrolled, MyCookie
    <3>2. EnrolledAs(p)'
      <4> USE <2>0, <2>2 DEF Phase, EnrolledAs, Enrolled, MyCookie, OpenLabels, OpeningLabels,
                             ClosingLabels, LockedLabels, CookieTypes, StreamTypes
      <4>1. CASE CallOpen(p) \/ CallClose(p) \/ \E o \in StreamCalls : CallStream(p, o)
        BY <4>1 DEF CallOpen, CallClose, CallStream, AtPort, portVars
      <4>2. CASE WriteData(p) \/ Account(p) \/ CloseRemove(p) \/ CloseRead(p)
        BY <4>2 DEF WriteData, Account, CloseRemove, CloseRead, Continue, AtPort, portVars
      <4>3. CASE OpenSetUp(p)
        BY <4>3 DEF OpenSetUp, SetUpBegin
      <4>4. CASE OpenRegister(p)
        <5>1. PICK c \in Cookies \union {Undefined} :
                     SetUpRegister(p, c) /\ reg' = [reg EXCEPT ![p] = c]
          BY <4>4 DEF OpenRegister
        <5>2. obj[p] = "opening" /\ pc[p] = "register" /\ pc'[p] = "cookie" /\ UNCHANGED obj
          BY <4>4 DEF OpenRegister
        <5>3. \A d \in Cookies : observers[d] # p
          BY <5>2
        <5>4. c \notin Cookies
          <6>1. ASSUME c \in Cookies PROVE observers'[c] = p
            BY <5>1, <6>1 DEF SetUpRegister, RegisterStatusCback, SessionTypeOK, Cookies
          <6> QED  BY <5>3, <6>1
        <5> QED  BY <5>1, <5>2, <5>3, <5>4
      <4>5. CASE OpenCookie(p)
        <5>1. obj[p] = "opening" /\ pc[p] = "cookie"
          BY <4>5 DEF OpenCookie
        <5>2. CASE reg[p] = Undefined
          BY <4>5, <5>1, <5>2 DEF OpenCookie, SetUpCookie, Cookies
        <5>3. CASE reg[p] # Undefined
          BY <4>5, <5>1, <5>3 DEF OpenCookie, SetUpCookie
        <5> QED  BY <5>2, <5>3
      <4>6. CASE OpenPush(p)
        BY <4>6 DEF OpenPush, AtPort, portVars
      <4>7. CASE CloseUnregister(p)
        <5>1. obj[p] = "closing" /\ pc[p] = "teardown" /\ cookie[p] \in Cookies
          BY <4>7 DEF CloseUnregister, TearDownUnregister, in_use
        <5>2. observers[cookie[p]] = p /\ observers'[cookie[p]] = None
          BY <4>7, <5>1 DEF CloseUnregister, TearDownUnregister, UnregisterStatusCback
        <5> QED  BY <5>2, SessionAssumption
      <4>8. CASE CloseDelete(p)
        BY <4>8 DEF CloseDelete, TearDownCookie
      <4> QED  BY <1>3, <4>1, <4>2, <4>3, <4>4, <4>5, <4>6, <4>7, <4>8 DEF StreamMove, OwnStep
    <3> QED  BY <1>0p, <3>1, <3>2
  <2>3. CASE OpenRegister(p) /\ ~UNCHANGED observers
    <3>1. PICK c \in Cookies \union {Undefined} :
                 SetUpRegister(p, c) /\ reg' = [reg EXCEPT ![p] = c]
      BY <2>3 DEF OpenRegister
    <3>2. /\ c \in Cookies /\ observers[c] = None
          /\ observers' = [observers EXCEPT ![c] = p] /\ UNCHANGED cookie
      BY <2>3, <3>1 DEF SetUpRegister, RegisterStatusCback, Registered, portVars
    <3>3. obj[p] = "opening" /\ pc[p] = "register" /\ pc'[p] = "cookie"
      BY <2>0, <2>3 DEF OpenRegister, Phase, OpenLabels, ClosingLabels, LockedLabels, StreamTypes
    <3>4. ASSUME NEW q \in Ports \ {p} PROVE EnrolledAs(q)'
      <4>1. EnrolledAs(q) /\ observers[c] # q
        BY <1>0, <3>2, SessionAssumption
      <4> QED  BY <2>1, <3>2, <4>1 DEF EnrolledAs, Enrolled, MyCookie, SessionTypeOK
    <3>5. EnrolledAs(p)'
      <4>1. \A d \in Cookies : observers[d] # p
        BY <2>0, <3>3 DEF EnrolledAs, Enrolled
      <4>2. reg'[p] = c
        BY <3>1 DEF CookieTypes
      <4> QED  BY <3>2, <3>3, <4>1, <4>2 DEF EnrolledAs, Enrolled, MyCookie, SessionTypeOK
    <3> QED  BY <1>0p, <3>4, <3>5
  <2>4. CASE CloseUnregister(p)
    <3>1. /\ obj[p] = "closing" /\ pc[p] = "teardown" /\ pc'[p] = "delete"
          /\ UNCHANGED << obj, cookie, reg >> /\ cookie[p] \in Cookies
      BY <2>0, <2>4 DEF CloseUnregister, TearDownUnregister, in_use, Continue, Phase, OpenLabels,
         OpeningLabels, LockedLabels, CookieTypes, StreamTypes, portVars
    <3>2. observers' = [c \in Cookies |-> IF c = cookie[p] THEN None ELSE observers[c]]
      BY <2>4 DEF CloseUnregister, TearDownUnregister, UnregisterStatusCback
    <3>3. observers[cookie[p]] = p
      BY <2>0, <3>1 DEF EnrolledAs, Enrolled, MyCookie
    <3>4. ASSUME NEW q \in Ports \ {p} PROVE EnrolledAs(q)'
      <4>1. EnrolledAs(q)
        BY <1>0
      <4> QED  BY <2>1, <3>1, <3>2, <3>3, <4>1, SessionAssumption DEF EnrolledAs, Enrolled, MyCookie
    <3>5. EnrolledAs(p)'
      BY <2>0, <3>1, <3>2, <3>3, SessionAssumption DEF EnrolledAs, Enrolled, MyCookie
    <3> QED  BY <1>0p, <3>4, <3>5
  <2>5. CASE ~OpenRegister(p) /\ ~CloseUnregister(p)
    <3>1. UNCHANGED observers
      BY <1>3, <2>5 DEF StreamMove, OwnStep, CallOpen, CallClose, CallStream, WriteData, Account,
         OpenSetUp, OpenCookie, OpenPush, CloseRemove, CloseRead, CloseDelete, AtPort, SetUpBegin,
         SetUpCookie, TearDownCookie, providerVars, sessionVars
    <3> QED  BY <2>2, <3>1
  <2> QED  BY <2>2, <2>3, <2>4, <2>5
<1>4. ASSUME DeviceMove PROVE Registration'
  <2>1. /\ UNCHANGED << obj, reg, cookie, observers >>
        /\ \A q \in Ports : pc'[q] = pc[q]
    BY <1>4 DEF DeviceMove, DeviceStep, CallDevice, DeviceLock, DeviceNext, AtPort, portVars,
                providerVars, sessionVars, StreamTypes
  <2> QED  BY <2>1 DEF Registration, Enrolled, MyCookie
<1>5. CallbackStep => Registration'
  BY <1>1, CallbackEffect DEF streamOnly
<1> QED  BY <1>1, <1>2, <1>3, <1>4, <1>5, StepCases
         DEF vars, streamOnly, portVars, providerVars, sessionVars

-----------------------------------------------------------------------------
\* Registrations change, and walks begin, only while no callback is in progress.
LEMMA HandlerInWalkStep ==
  ASSUME SessionTypeOK, CallbacksRegistered, HandlerInWalk, [Next]_vars
  PROVE  HandlerInWalk'
<1>1. ASSUME UNCHANGED << hdl, observers, bcast >> PROVE HandlerInWalk'
  BY <1>1 DEF HandlerInWalk
<1>2. ASSUME UNCHANGED hdl, Unlocked PROVE HandlerInWalk'
  BY <1>2 DEF HandlerInWalk, Unlocked
<1>3. ASSUME NEW t \in Threads, ThreadStep(t) PROVE HandlerInWalk'
  BY <1>1, <1>3, ThreadEffect DEF Elsewhere
<1>4. ASSUME NEW p \in Ports, StreamMove(p) PROVE HandlerInWalk'
  <2>1. CASE OpenRegister(p) \/ CloseUnregister(p)
    <3>1. UNCHANGED hdl /\ Unlocked
      BY <2>1 DEF OpenRegister, SetUpRegister, RegisterStatusCback, CloseUnregister,
                  TearDownUnregister, UnregisterStatusCback, portVars
    <3> QED  BY <3>1, <1>2
  <2>2. CASE ~OpenRegister(p) /\ ~CloseUnregister(p)
    <3>1. UNCHANGED << hdl, observers, bcast >>
      BY <1>4, <2>2 DEF StreamMove, OwnStep, CallOpen, CallClose, CallStream, WriteData, Account,
         OpenSetUp, OpenCookie, OpenPush, CloseRemove, CloseRead, CloseDelete, AtPort, SetUpBegin,
         SetUpCookie, TearDownCookie, portVars, providerVars, sessionVars
    <3> QED  BY <3>1, <1>1
  <2> QED  BY <2>1, <2>2
<1>5. ASSUME DeviceMove PROVE HandlerInWalk'
  BY <1>1, <1>5 DEF DeviceMove, DeviceStep, CallDevice, DeviceLock, DeviceNext, AtPort, portVars,
                    providerVars, sessionVars
<1>6. ASSUME CallbackStep PROVE HandlerInWalk'
  <2>1. ASSUME NEW c \in Cookies, CallbackBegin(c) PROVE HandlerInWalk'
    BY <2>1 DEF CallbackBegin, HandlerInWalk, NoHandler, CallbacksRegistered, Registered,
                SessionTypeOK
  <2>2. CASE ControlResultHandler \/ SessionChangedHandler
    BY <2>2 DEF ControlResultHandler, SessionChangedHandler, HandlerInWalk
  <2> QED  BY <1>6, <2>1, <2>2 DEF CallbackStep
<1> QED  BY <1>1, <1>2, <1>3, <1>4, <1>5, <1>6, StepCases
         DEF vars, portVars, providerVars, sessionVars
-----------------------------------------------------------------------------
\* Types of the ports' state_ and of the callback in progress.
PortTypes ==
  /\ state \in [Ports -> StreamStates]
  /\ hdl \in [port : Ports \union {None}, cookie : Cookies \union {Undefined},
              prev : StreamStates]

\* Every step keeps the types of state_ and of the handler.
LEMMA PortTypesStep ==
  ASSUME SessionTypeOK, CallbacksRegistered, PortTypes, DeviceWalk, StreamTypes, [Next]_vars
  PROVE  PortTypes'
<1> USE DEF PortTypes
<1>1. ASSUME UNCHANGED << state, hdl >> PROVE PortTypes'
  BY <1>1
<1>2. ASSUME NEW t \in Threads, ThreadStep(t) PROVE PortTypes'
  <2>1. UNCHANGED hdl
    BY <1>2, ThreadEffect DEF Elsewhere
  <2>2. CASE StartSet(t) \/ SuspendSet(t) \/ StopSet(t) \/ SetDisabled(t) \/ SetStandby(t)
    <3>1. \E s \in StreamStates : state' = [state EXCEPT ![Target(t)] = s]
      BY <2>2 DEF StartSet, SuspendSet, StopSet, SetDisabled, SetStandby, SetState, StreamStates
    <3> QED  BY <2>1, <3>1
  <2>3. CASE Enter(t) \/ Read2(t) \/ StartCheck(t) \/ SuspendCheck(t)
    BY <2>3 DEF Enter, EnterSuspend, EnterResume, EnterClosing, EnterUnsuspend, EnterIgnored,
                EnterWrite, Read2, StartCheck, SuspendCheck, AtPort, portVars
  <2>4. CASE StartCall(t) \/ StartWait(t) \/ SuspendCall(t) \/ SuspendWait(t) \/ StopCall(t)
    BY <2>4 DEF StartCall, StartWait, SuspendCall, SuspendWait, StopCall, PortStreamCall,
                CondwaitState, portVars
  <2> QED  BY <1>2, <2>2, <2>3, <2>4 DEF ThreadStep
<1>3. ASSUME NEW p \in Ports, StreamMove(p) PROVE PortTypes'
  <2>1. UNCHANGED hdl /\ \/ UNCHANGED state
                         \/ \E s \in StreamStates : state' = [state EXCEPT ![p] = s]
    BY <1>3 DEF StreamMove, OwnStep, CallOpen, CallClose, CallStream, WriteData, Account,
       OpenSetUp, OpenRegister, OpenCookie, OpenPush, CloseRemove, CloseRead, CloseUnregister,
       CloseDelete, AtPort, portVars, SetUpBegin, SetUpRegister, SetUpCookie,
       TearDownUnregister, TearDownCookie, StreamStates
  <2> QED  BY <2>1
<1>4. ASSUME DeviceMove PROVE PortTypes'
  BY <1>4 DEF DeviceMove, DeviceStep, CallDevice, DeviceLock, DeviceNext, AtPort, portVars
<1>5. ASSUME CallbackStep PROVE PortTypes'
  <2>1. ASSUME NEW c \in Cookies, CallbackBegin(c) PROVE PortTypes'
    <3>1. observers[c] \in Ports
      BY <2>1 DEF CallbackBegin, CallbacksRegistered, Registered, SessionTypeOK
    <3> QED  BY <2>1, <3>1 DEF CallbackBegin
  <2>2. CASE ControlResultHandler \/ SessionChangedHandler
    <3>1. \/ UNCHANGED state
          \/ \E s \in StreamStates : state' = [state EXCEPT ![hdl.port] = s]
      BY <2>2 DEF ControlResultHandler, SessionChangedHandler, HandlerState, StreamStates
    <3>2. NoHandler \in [port : Ports \union {None}, cookie : Cookies \union {Undefined},
                         prev : StreamStates]
      BY DEF NoHandler, StreamStates
    <3>3. state' \in [Ports -> StreamStates]
      BY <3>1
    <3>4. hdl' = NoHandler
      BY <2>2 DEF ControlResultHandler, SessionChangedHandler
    <3> QED  BY <3>2, <3>3, <3>4, Zenon
  <2> QED  BY <1>5, <2>1, <2>2 DEF CallbackStep
<1> QED  BY <1>1, <1>2, <1>3, <1>4, <1>5, StepCases DEF vars, portVars

-----------------------------------------------------------------------------
\* The invariant holds before the first stream is opened.
LEMMA StreamInitInv == Init => StreamInv
<1> SUFFICES ASSUME Init PROVE StreamInv
  OBVIOUS
<1> USE StreamAssumption, SessionAssumption DEF Init, PortInit
<1>1. ProviderTypeOK /\ observers = [c \in Cookies |-> None]
  BY ProviderInitInv DEF ProviderInv, ProviderInit, SessionInit
<1>2. TypeOK
  BY <1>1 DEF TypeOK, Threads, Labels, NoHandler, StreamStates
<1>3. Phases /\ DeviceWalk
  BY DEF Phases, Phase, DeviceWalk, DeviceLabels, Inside, Threads
<1>4. Registration /\ HandlerInWalk
  BY <1>1 DEF Registration, Enrolled, HandlerInWalk, Threads
<1>5. LocksHeld
  BY DEF LocksHeld, LockedLabels
<1> QED  BY <1>2, <1>3, <1>4, <1>5 DEF StreamInv

\* Every step of the whole system preserves it.
LEMMA StreamStepInv ==
  ASSUME ProviderInv, ProviderInv', StreamInv, [Next]_vars
  PROVE  StreamInv'
<1>1. /\ SessionTypeOK /\ CallbacksRegistered /\ ProviderTypeOK'
      /\ CookieTypes /\ PortTypes /\ StreamTypes
  BY DEF ProviderInv, SessionInv, ProviderTypeOK, StreamInv, TypeOK, CookieTypes, PortTypes,
         StreamTypes
<1>2. Phases /\ DeviceWalk /\ Registration /\ HandlerInWalk /\ LocksHeld
  BY DEF StreamInv
<1>3. CookieTypes' /\ PortTypes' /\ StreamTypes'
  BY <1>1, <1>2, CookieTypesStep, PortTypesStep, StreamTypesStep
<1>4. TypeOK'
  BY <1>1, <1>3 DEF TypeOK, CookieTypes, PortTypes, StreamTypes
<1>5. Phases' /\ DeviceWalk' /\ LocksHeld'
  BY <1>1, <1>2, PhasesStep, DeviceWalkStep, LocksHeldStep
<1>6. Registration' /\ HandlerInWalk'
  BY <1>1, <1>2, RegistrationStep, HandlerInWalkStep
<1> QED  BY <1>4, <1>5, <1>6 DEF StreamInv

\* The invariant holds of the whole control path.
THEOREM StreamInvariant == Spec => []StreamInv
<1>1. ProviderInv /\ ProviderInv' /\ StreamInv /\ [Next]_vars => StreamInv'
  BY StreamStepInv
<1> QED  BY <1>1, StreamInitInv, StreamsImplementProviders, ProviderInvariant, PTL DEF Spec

\* Type correctness of the streams, ports, providers and the session.
THEOREM StreamTypeCorrect == Spec => []TypeOK
<1>1. StreamInv => TypeOK
  BY DEF StreamInv
<1> QED  BY <1>1, StreamInvariant, PTL

\* No callback, walk or device call reaches a stream that has been deleted
\* (adev_close_output_stream, TearDown).
THEOREM NeverUsedAfterFree == Spec => []NoUseAfterFree
<1>1. StreamInv => NoUseAfterFree
  <2> SUFFICES ASSUME StreamInv, NEW p \in Ports, obj[p] = "closed"
               PROVE  /\ \A c \in Cookies : observers[c] # p
                      /\ hdl.port # p
                      /\ p \notin opened \union walk
                      /\ Inside(Ctl) => at # p
    BY DEF NoUseAfterFree
  <2>1. \A c \in Cookies : observers[c] # p
    BY DEF StreamInv, Phases, Phase, Registration, Enrolled
  <2>2. hdl.port # p
    <3>1. NoHandler.port # p
      BY SessionAssumption DEF NoHandler
    <3>2. bcast.todo \subseteq Cookies
      BY DEF StreamInv, TypeOK, ProviderTypeOK, SessionTypeOK
    <3> QED  BY <2>1, <3>1, <3>2 DEF StreamInv, HandlerInWalk
  <2>3. p \notin opened
    BY DEF StreamInv, DeviceWalk
  <2> QED  BY <2>1, <2>2, <2>3 DEF StreamInv, DeviceWalk
<1> QED  BY <1>1, StreamInvariant, PTL

\* The callbacks of an open stream are registered once, under the cookie its port
\* compares them with (SetUp, RegisterStatusCback).
THEOREM OpenStreamsHear == Spec => []OpenStreamHears
<1>1. StreamInv => OpenStreamHears
  <2> SUFFICES ASSUME StreamInv, NEW p \in Ports, obj[p] = "open", NEW c \in Cookies
               PROVE  observers[c] = p <=> cookie[p] = c
    BY DEF OpenStreamHears
  <2>1. pc[p] # "cookie"
    BY DEF StreamInv, Phases, Phase, OpenLabels, LockedLabels
  <2> QED  BY <2>1 DEF StreamInv, Registration, Enrolled, MyCookie
<1> QED  BY <1>1, StreamInvariant, PTL

\* Start, Suspend, Stop and SetState of one port never overlap, the call that
\* closes the stream without its lock included.
THEOREM CallsNeverOverlap == Spec => []CallsExclusive
<1>1. StreamInv => CallsExclusive
  <2> SUFFICES ASSUME StreamInv PROVE CallsExclusive
    OBVIOUS
  <2> USE StreamAssumption DEF StreamInv, Threads
  <2>1. ASSUME NEW p \in Ports, Controls(Ctl), Controls(p), at = p PROVE FALSE
    <3>1. pc[Ctl] \in LockedLabels /\ op[Ctl] # "close"
      BY <2>1 DEF DeviceWalk, DeviceLabels, Controls, Inside
    <3>2. lock[p] = Ctl
      BY <2>1, <3>1 DEF LocksHeld, Target
    <3>3. obj[p] = "open"
      BY <2>1 DEF DeviceWalk, Controls, Inside
    <3>4. pc[p] \in LockedLabels /\ op[p] # "close"
      BY <2>1, <3>3 DEF Phases, Phase, OpenLabels, Controls, Inside
    <3>5. lock[p] = p
      BY <3>4 DEF LocksHeld, Target
    <3> QED  BY <3>2, <3>5
  <2> QED  BY <2>1 DEF CallsExclusive, Target
<1> QED  BY <1>1, StreamInvariant, PTL

-----------------------------------------------------------------------------
\* A stream that is STARTED has a session.  Two events are excepted, after which
\* the session is gone while its stack is alive and may still answer: a notice of
\* death that is delivered while the next process is up (late_death), and a start
\* of the session that fails at its queue.
Undisturbed ==
  \A i \in Stacks : /\ binderDied(i) => Alive = {}
                    /\ onSessionReadySoftware(i) => IsSessionReady'

\* There is one process at a time, a process that has not yet come up has no
\* session, and the session of a process that is up and between two calls is ready.
OneProcess == \A i, j \in Alive : i = j
Unborn == \A i \in Stacks : proc[i] = "new" => ~p_iface[i] /\ p_pc[i] = "idle"
OwnerReady == \A i \in Alive : p_pc[i] = "idle" /\ p_iface[i] => IsSessionReady

\* So results are only reported in a session that is ready.
ReportReady == bcast.kind \in {"started", "suspended"} /\ ~Unlocked => IsSessionReady

\* A stream that is being opened has not been started.
Fresh ==
  \A p \in Ports : obj[p] \in {"closed", "opening"} =>
    /\ state[p] \in {"STANDBY", "DISABLED"}
    /\ hdl.port = p => hdl.prev \in {"STANDBY", "DISABLED"}

\* A stream that is STARTED without a session is about to be told.
Told ==
  \A p \in Ports : obj[p] = "open" /\ state[p] = "STARTED" /\ ~IsSessionReady =>
    bcast.kind = "session" /\ cookie[p] \in bcast.todo

StartedInv == OneProcess /\ Unborn /\ OwnerReady /\ ReportReady /\ Fresh /\ Told

\* The steps that are not the stack's or binder's leave the session and the
\* providers alone; only a callback moves a walk on.
LEMMA OwnSideEffect ==
  /\ \A t \in Threads : ThreadStep(t) => UNCHANGED << sessionCore, providerOnly, bcast >>
  /\ \A p \in Ports : StreamMove(p) => UNCHANGED << sessionCore, providerOnly, bcast >>
  /\ DeviceMove => UNCHANGED << sessionCore, providerOnly, bcast >>
  /\ CallbackStep => UNCHANGED << sessionCore, providerOnly >>
<1> USE DEF AtPort, providerVars, sessionVars, sessionCore
<1>1. ASSUME NEW t \in Threads, ThreadStep(t)
      PROVE  UNCHANGED << sessionCore, providerOnly, bcast >>
  <2>1. CASE StartSet(t) \/ SuspendSet(t) \/ StopSet(t) \/ SetDisabled(t) \/ SetStandby(t)
    BY <2>1 DEF StartSet, SuspendSet, StopSet, SetDisabled, SetStandby, SetState
  <2>2. CASE Enter(t) \/ Read2(t) \/ StartCheck(t) \/ SuspendCheck(t)
    BY <2>2 DEF Enter, EnterSuspend, EnterResume, EnterClosing, EnterUnsuspend, EnterIgnored,
                EnterWrite, Read2, StartCheck, SuspendCheck
  <2>3. CASE StartCall(t) \/ StartWait(t) \/ SuspendCall(t) \/ SuspendWait(t) \/ StopCall(t)
    BY <2>3 DEF StartCall, StartWait, SuspendCall, SuspendWait, StopCall, PortStreamCall,
                StreamCall, CondwaitState
  <2> QED  BY <1>1, <2>1, <2>2, <2>3 DEF ThreadStep
<1>2. ASSUME NEW p \in Ports, StreamMove(p)
      PROVE  UNCHANGED << sessionCore, providerOnly, bcast >>
  BY <1>2 DEF StreamMove, OwnStep, CallOpen, CallClose, CallStream, WriteData, Account,
     OpenSetUp, OpenRegister, OpenCookie, OpenPush, CloseRemove, CloseRead, CloseUnregister,
     CloseDelete, SetUpBegin, SetUpRegister, RegisterStatusCback, SetUpCookie,
     TearDownUnregister, UnregisterStatusCback, TearDownCookie
<1>3. DeviceMove => UNCHANGED << sessionCore, providerOnly, bcast >>
  BY DEF DeviceMove, DeviceStep, CallDevice, DeviceLock, DeviceNext
<1>4. CallbackStep => UNCHANGED << sessionCore, providerOnly >>
  BY DEF CallbackStep, CallbackBegin, ControlResultHandler, SessionChangedHandler
<1> QED  BY <1>1, <1>2, <1>3, <1>4

\* The threads of the streams never write STARTED, and never write into a stream
\* that is closed or being opened, but for what SetUp and TearDown give it.
LEMMA WrittenStates ==
  ASSUME StreamInv
  PROVE  /\ \A t \in Threads : ThreadStep(t) =>
              \/ UNCHANGED state
              \/ \E s \in StreamStates \ {"STARTED"}, q \in Ports :
                   obj[q] \notin {"closed", "opening"} /\ state' = [state EXCEPT ![q] = s]
         /\ \A p \in Ports : StreamMove(p) =>
              \/ UNCHANGED state
              \/ \E s \in {"STANDBY", "DISABLED"} : state' = [state EXCEPT ![p] = s]
<1> USE StreamAssumption DEF StreamInv, TypeOK, Threads
<1>1. ASSUME NEW t \in Threads, ThreadStep(t)
      PROVE  \/ UNCHANGED state
             \/ \E s \in StreamStates \ {"STARTED"}, q \in Ports :
                  obj[q] \notin {"closed", "opening"} /\ state' = [state EXCEPT ![q] = s]
  <2>1. CASE StartSet(t) \/ SuspendSet(t) \/ StopSet(t) \/ SetDisabled(t) \/ SetStandby(t)
    <3>1. \E s \in StreamStates \ {"STARTED"} : state' = [state EXCEPT ![Target(t)] = s]
      BY <2>1 DEF StartSet, SuspendSet, StopSet, SetDisabled, SetStandby, SetState, StreamStates
    <3>2. pc[t] \in LockedLabels
      BY <2>1 DEF StartSet, SuspendSet, StopSet, SetDisabled, SetStandby, LockedLabels
    <3>3. Target(t) \in Ports /\ obj[Target(t)] \notin {"closed", "opening"}
      <4>1. CASE t = Ctl
        <5>1. Inside(Ctl)
          BY <3>2, <4>1 DEF Inside, LockedLabels
        <5>2. at \in opened /\ at \in Ports
          BY <5>1 DEF DeviceWalk
        <5> QED  BY <4>1, <5>2 DEF DeviceWalk, Target
      <4>2. CASE t \in Ports
        <5>1. Phase(t) /\ Target(t) = t
          BY <4>2 DEF Phases, Target
        <5> QED  BY <3>2, <4>2, <5>1 DEF Phase, LockedLabels, OpeningLabels
      <4> QED  BY <4>1, <4>2
    <3> QED  BY <3>1, <3>3
  <2>2. CASE Enter(t) \/ Read2(t) \/ StartCheck(t) \/ SuspendCheck(t)
    BY <2>2 DEF Enter, EnterSuspend, EnterResume, EnterClosing, EnterUnsuspend, EnterIgnored,
                EnterWrite, Read2, StartCheck, SuspendCheck, AtPort, portVars
  <2>3. CASE StartCall(t) \/ StartWait(t) \/ SuspendCall(t) \/ SuspendWait(t) \/ StopCall(t)
    BY <2>3 DEF StartCall, StartWait, SuspendCall, SuspendWait, StopCall, PortStreamCall,
                CondwaitState, portVars
  <2> QED  BY <1>1, <2>1, <2>2, <2>3 DEF ThreadStep
<1>2. ASSUME NEW p \in Ports, StreamMove(p)
      PROVE  \/ UNCHANGED state
             \/ \E s \in {"STANDBY", "DISABLED"} : state' = [state EXCEPT ![p] = s]
  BY <1>2 DEF StreamMove, OwnStep, CallOpen, CallClose, CallStream, WriteData, Account,
     OpenSetUp, OpenRegister, OpenCookie, OpenPush, CloseRemove, CloseRead, CloseUnregister,
     CloseDelete, AtPort, portVars, SetUpBegin, SetUpRegister, SetUpCookie,
     TearDownUnregister, TearDownCookie
<1> QED  BY <1>1, <1>2

\* The processes and their providers: only a start makes the session of a live
\* process ready, and only its own end takes it away.
LEMMA OwnerReadyStep ==
  ASSUME ProviderInv, OneProcess, Unborn, OwnerReady, Undisturbed, [Next]_vars
  PROVE  OneProcess' /\ Unborn' /\ OwnerReady'
<1>0. ProviderTypeOK
  BY DEF ProviderInv
<1>1. ASSUME UNCHANGED << sessionCore, providerOnly >>
      PROVE  OneProcess' /\ Unborn' /\ OwnerReady'
  BY <1>1 DEF sessionCore, providerOnly, OneProcess, Unborn, OwnerReady, Alive, IsSessionReady
<1>2. ASSUME NEW i \in Stacks, StackAnswers(i) \/ StackSuspends(i)
      PROVE  UNCHANGED << sessionCore, providerOnly >>
  BY <1>2 DEF StackAnswers, StackSuspends, streamStarted, streamSuspended, ReportControlStatus,
              sessionCore, providerOnly
<1>3. StackForgets => UNCHANGED << sessionCore, providerOnly >>
  BY DEF StackForgets
<1>4. ASSUME NEW i \in Stacks, StackControls(i)
      PROVE  OneProcess' /\ Unborn' /\ OwnerReady'
  <2> USE <1>0 DEF ProviderTypeOK, OneProcess, Unborn, OwnerReady, Alive
  <2>1. CASE startSession(i, "pcmConfig", {})
    BY <2>1 DEF startSession, CanCall, sessionVars, IsSessionReady
  <2>2. CASE endSession(i)
    BY <2>2 DEF endSession, CanCall
  <2>3. CASE StackBoots(i)
    BY <2>3 DEF StackBoots, sessionVars, IsSessionReady
  <2>4. CASE StackDies(i)
    BY <2>4 DEF StackDies, sessionVars, IsSessionReady
  <2> QED  BY <1>4, <2>1, <2>2, <2>3, <2>4 DEF StackControls
<1>5. ASSUME NEW i \in Stacks, BinderStep(i)
      PROVE  OneProcess' /\ Unborn' /\ OwnerReady'
  <2> USE <1>0 DEF ProviderTypeOK, OneProcess, Unborn, OwnerReady, Alive
  <2>1. CASE linkToDeath(i)
    BY <2>1 DEF linkToDeath, sessionVars, IsSessionReady
  <2>2. CASE onSessionReadySoftware(i)
    <3>1. IsSessionReady'
      BY <2>2 DEF Undisturbed
    <3> QED  BY <2>2, <3>1 DEF onSessionReadySoftware
  <2>3. CASE endSessionClear(i)
    BY <2>3 DEF endSessionClear, sessionVars, IsSessionReady
  <2>4. CASE binderDied(i)
    <3>1. Alive = {}
      BY <2>4 DEF Undisturbed
    <3> QED  BY <2>4, <3>1 DEF binderDied
  <2> QED  BY <1>5, <2>1, <2>2, <2>3, <2>4 DEF BinderStep
<1>6. CASE UNCHANGED vars
  BY <1>1, <1>6 DEF vars, providerVars, sessionVars, sessionCore
<1>7. CASE EnvStep
  BY <1>1, <1>2, <1>3, <1>4, <1>7, OwnSideEffect DEF EnvStep, StreamMove, DeviceMove
<1>8. CASE SystemStep
  BY <1>1, <1>5, <1>8, OwnSideEffect DEF SystemStep, StreamMove, DeviceMove
<1> QED  BY <1>6, <1>7, <1>8 DEF Next

\* What the stack's steps do to the session: they begin a walk with results in a
\* session that is ready, or change the session and tell everybody, or leave it.
LEMMA SessionEffect ==
  ASSUME ProviderTypeOK, OwnerReady, Undisturbed, NEW i \in Stacks,
         StackAnswers(i) \/ StackSuspends(i) \/ StackControls(i) \/ BinderStep(i)
  PROVE  \/ UNCHANGED << sessionCore, bcast >>
         \/ Unlocked /\ IsSessionReady'
         \/ Unlocked /\ ~IsSessionReady /\ UNCHANGED bcast
         \/ Unlocked /\ bcast' = [kind |-> "session", status |-> "none", todo |-> Registered]
         \/ Unlocked /\ Registered = {} /\ bcast' = NoBcast
<1> USE DEF sessionCore, sessionVars
<1>1. CASE StackAnswers(i) \/ StackSuspends(i)
  <2>1. CanCall(i) /\ p_iface[i] /\ UNCHANGED sessionCore
    BY <1>1 DEF StackAnswers, StackSuspends, streamStarted, streamSuspended, ReportControlStatus
  <2>2. Unlocked /\ IsSessionReady
    BY <2>1 DEF CanCall, OwnerReady
  <2> QED  BY <2>1, <2>2 DEF IsSessionReady
<1>2. ASSUME OnSessionEnded
      PROVE  \/ Unlocked /\ ~IsSessionReady /\ UNCHANGED bcast
             \/ Unlocked /\ bcast' = [kind |-> "session", status |-> "none", todo |-> Registered]
             \/ Unlocked /\ Registered = {} /\ bcast' = NoBcast
  BY <1>2 DEF OnSessionEnded, Notify
<1>3. CASE StackControls(i)
  BY <1>2, <1>3 DEF StackControls, startSession, endSession, StackBoots, StackDies
<1>4. CASE BinderStep(i)
  <2>1. CASE onSessionReadySoftware(i)
    BY <2>1 DEF Undisturbed, onSessionReadySoftware, OnSessionStarted
  <2> QED  BY <1>2, <1>4, <2>1 DEF BinderStep, linkToDeath, endSessionClear, binderDied
<1> QED  BY <1>1, <1>3, <1>4

\* A walk with results begins in a session that is ready, and the session does not
\* change while the walk has its mutex.
LEMMA ReportReadyStep ==
  ASSUME ProviderTypeOK, OwnerReady, ReportReady, Undisturbed, [Next]_vars
  PROVE  ReportReady'
<1> USE DEF ReportReady, Unlocked
<1>1. ASSUME UNCHANGED << sessionCore, bcast >> PROVE ReportReady'
  BY <1>1 DEF sessionCore, IsSessionReady
<1>2. ASSUME CallbackStep PROVE ReportReady'
  <2>1. IsSessionReady' = IsSessionReady
    BY <1>2, OwnSideEffect DEF sessionCore, IsSessionReady
  <2>2. ~Unlocked /\ (bcast' = bcast \/ \E c \in bcast.todo : CallbackDone(c))
    BY <1>2 DEF CallbackStep, CallbackBegin, ControlResultHandler, SessionChangedHandler,
                CallbackDone
  <2>3. bcast'.kind = bcast.kind \/ bcast' = NoBcast
    BY <2>2 DEF CallbackDone, ProviderTypeOK, SessionTypeOK
  <2> QED  BY <2>1, <2>2, <2>3 DEF NoBcast
<1>3. ASSUME NEW i \in Stacks,
             StackAnswers(i) \/ StackSuspends(i) \/ StackControls(i) \/ BinderStep(i)
      PROVE  ReportReady'
  BY <1>1, <1>3, SessionEffect DEF NoBcast
<1>4. StackForgets => UNCHANGED << sessionCore, bcast >>
  BY DEF StackForgets
<1>5. UNCHANGED vars => UNCHANGED << sessionCore, bcast >>
  BY DEF vars, providerVars, sessionVars, sessionCore
<1>6. CASE EnvStep
  BY <1>1, <1>3, <1>4, <1>6, OwnSideEffect DEF EnvStep, StreamMove, DeviceMove
<1>7. CASE SystemStep
  BY <1>1, <1>2, <1>3, <1>7, OwnSideEffect DEF SystemStep, StreamMove, DeviceMove
<1> QED  BY <1>1, <1>5, <1>6, <1>7 DEF Next

\* The life of a stream object: closed, opening, open, closing, closed, or back
\* from opening to closed.
LEMMA MovedObject ==
  ASSUME StreamInv, NEW p \in Ports, StreamMove(p)
  PROVE  /\ \A q \in Ports \ {p} : obj'[q] = obj[q]
         /\ \/ obj'[p] = obj[p]
            \/ obj[p] = "closed" /\ obj'[p] = "opening"
            \/ obj[p] = "opening" /\ obj'[p] \in {"open", "closed"}
            \/ obj[p] = "open" /\ obj'[p] = "closing"
            \/ CloseDelete(p) /\ obj'[p] = "closed"
         /\ obj[p] \in {"closed", "opening", "open", "closing"}
<1>0. obj \in [Ports -> {"closed", "opening", "open", "closing"}] /\ Phase(p)
  BY DEF StreamInv, TypeOK, Phases
<1>1. CASE CallOpen(p) \/ CallClose(p) \/ CloseDelete(p)
  BY <1>0, <1>1 DEF CallOpen, CallClose, CloseDelete
<1>2. CASE OpenSetUp(p) \/ OpenCookie(p) \/ OpenPush(p)
  <2>1. obj[p] = "opening"
    BY <1>0, <1>2 DEF OpenSetUp, OpenCookie, OpenPush, Phase, OpenLabels, LockedLabels,
                      ClosingLabels
  <2> QED  BY <1>0, <1>2, <2>1 DEF OpenSetUp, OpenCookie, OpenPush
<1>3. CASE (\E o \in StreamCalls : CallStream(p, o)) \/ WriteData(p) \/ Account(p)
           \/ OpenRegister(p) \/ CloseRemove(p) \/ CloseRead(p) \/ CloseUnregister(p)
  BY <1>0, <1>3 DEF CallStream, WriteData, Account, OpenRegister, CloseRemove, CloseRead,
                    CloseUnregister, Continue
<1> QED  BY <1>1, <1>2, <1>3 DEF StreamMove, OwnStep

\* A stream that is opened has been given STANDBY or DISABLED, and no callback that
\* reads one of these writes anything else.
LEMMA FreshStep ==
  ASSUME ProviderInv, StreamInv, Fresh, [Next]_vars
  PROVE  Fresh'
<1> USE StreamAssumption DEF StreamInv, TypeOK
<1>1. ASSUME UNCHANGED << state, hdl, obj >> PROVE Fresh'
  BY <1>1 DEF Fresh
<1>2. ASSUME NEW t \in Threads, ThreadStep(t) PROVE Fresh'
  <2>1. UNCHANGED << obj, hdl >>
    BY <1>2, ThreadEffect DEF Elsewhere
  <2> QED  BY <1>2, <2>1, WrittenStates DEF Fresh
<1>3. ASSUME NEW p \in Ports, StreamMove(p) PROVE Fresh'
  <2>1. /\ UNCHANGED hdl
        /\ \A q \in Ports \ {p} : obj'[q] = obj[q] /\ state'[q] = state[q]
    BY <1>3, WrittenStates DEF StreamMove, OwnStep, CallOpen, CallClose, CallStream, WriteData,
       Account, OpenSetUp, OpenRegister, OpenCookie, OpenPush, CloseRemove, CloseRead,
       CloseUnregister, CloseDelete, Continue, AtPort, portVars, SetUpBegin, SetUpRegister,
       SetUpCookie, TearDownUnregister, TearDownCookie
  <2>2. \/ obj'[p] \in {"open", "closing"}
        \/ obj[p] \in {"closed", "opening"}
        \/ CloseDelete(p)
    BY <1>3, MovedObject
  <2>3. obj'[p] \in {"closed", "opening"} =>
          /\ state'[p] \in {"STANDBY", "DISABLED"}
          /\ hdl.port = p => hdl.prev \in {"STANDBY", "DISABLED"}
    <3>1. CASE obj[p] \in {"closed", "opening"}
      BY <1>3, <3>1, WrittenStates DEF Fresh
    <3>2. CASE CloseDelete(p)
      <4>1. pc[p] = "delete" /\ state'[p] = "DISABLED"
        BY <3>2 DEF CloseDelete, TearDownCookie
      <4>2. \A c \in Cookies : observers[c] # p
        BY <4>1 DEF Registration, Enrolled, Phases, Phase, OpenLabels, LockedLabels
      <4>3. bcast.todo \subseteq Cookies
        BY DEF ProviderTypeOK, SessionTypeOK
      <4>4. hdl.port # p
        BY <4>2, <4>3, SessionAssumption DEF HandlerInWalk, NoHandler
      <4> QED  BY <4>1, <4>4
    <3> QED  BY <2>2, <3>1, <3>2
  <2> QED  BY <2>1, <2>3 DEF Fresh
<1>4. DeviceMove => UNCHANGED << state, hdl, obj >>
  BY DEF DeviceMove, DeviceStep, CallDevice, DeviceLock, DeviceNext, AtPort, portVars
<1>5. ASSUME CallbackStep PROVE Fresh'
  <2>0. UNCHANGED obj
    BY <1>5, CallbackEffect DEF streamOnly
  <2>1. ASSUME NEW c \in Cookies, CallbackBegin(c) PROVE Fresh'
    BY <2>0, <2>1 DEF CallbackBegin, Fresh
  <2>2. CASE ControlResultHandler
    <3>1. hdl'.port = None /\ None \notin Ports
      BY <2>2, SessionAssumption DEF ControlResultHandler, NoHandler
    <3>2. ASSUME NEW p \in Ports, obj[p] \in {"closed", "opening"} PROVE state'[p] = state[p]
      BY <2>2, <3>2 DEF ControlResultHandler, HandlerAssigns, Fresh
    <3> QED  BY <2>0, <3>1, <3>2 DEF Fresh
  <2>3. CASE SessionChangedHandler
    <3>1. hdl'.port = None /\ None \notin Ports
      BY <2>3, SessionAssumption DEF SessionChangedHandler, NoHandler
    <3>2. \A p \in Ports : state'[p] \in {state[p], "DISABLED"}
      BY <2>3 DEF SessionChangedHandler
    <3> QED  BY <2>0, <3>1, <3>2 DEF Fresh
  <2> QED  BY <1>5, <2>1, <2>2, <2>3 DEF CallbackStep
<1> QED  BY <1>1, <1>2, <1>3, <1>4, <1>5, StepCases DEF vars, portVars, streamOnly

\* The session of a STARTED stream is taken away only together with a walk that
\* is to call the stream back, and the walk does not pass it by.
LEMMA ToldStep ==
  ASSUME ProviderInv, StreamInv, OwnerReady, ReportReady, Fresh, Told, Undisturbed, [Next]_vars
  PROVE  Told'
<1>0. /\ ProviderTypeOK /\ TypeOK /\ Phases /\ Registration /\ HandlerInWalk
      /\ bcast.todo \subseteq Cookies
  BY DEF ProviderInv, StreamInv, ProviderTypeOK, SessionTypeOK
<1>a. ASSUME NEW p \in Ports, obj[p] = "open"
      PROVE  cookie[p] \in Cookies /\ \A c \in Cookies : observers[c] = p <=> cookie[p] = c
  <2>1. pc[p] # "cookie"
    BY <1>0, <1>a DEF Phases, Phase, OpenLabels, LockedLabels
  <2> QED  BY <1>0, <1>a, <2>1 DEF Registration, Enrolled, MyCookie, TypeOK
<1>1. ASSUME UNCHANGED << sessionCore, bcast, cookie >>,
             \A p \in Ports : obj'[p] = "open" /\ state'[p] = "STARTED" =>
                                obj[p] = "open" /\ state[p] = "STARTED"
      PROVE  Told'
  BY <1>1 DEF Told, sessionCore, IsSessionReady
<1>2. ASSUME NEW t \in Threads, ThreadStep(t) PROVE Told'
  <2>1. UNCHANGED << sessionCore, bcast, cookie, obj >>
    BY <1>2, ThreadEffect, OwnSideEffect DEF Elsewhere
  <2>2. \A p \in Ports : state'[p] = "STARTED" => state[p] = "STARTED"
    BY <1>0, <1>2, WrittenStates DEF TypeOK
  <2> QED  BY <1>1, <2>1, <2>2
<1>3. ASSUME NEW p \in Ports, StreamMove(p) PROVE Told'
  <2>1. UNCHANGED << sessionCore, bcast >>
    BY <1>3, OwnSideEffect
  <2>2. ASSUME NEW q \in Ports, obj'[q] = "open", state'[q] = "STARTED"
        PROVE  obj[q] = "open" /\ state[q] = "STARTED" /\ cookie'[q] = cookie[q]
    <3>1. state[q] = "STARTED"
      BY <1>0, <1>3, <2>2, WrittenStates DEF TypeOK
    <3>2. obj[q] \notin {"closed", "opening"}
      BY <3>1 DEF Fresh
    <3>3. obj[q] = "open"
      BY <1>3, <2>2, <3>2, MovedObject
    <3>4. \/ UNCHANGED cookie
          \/ OpenCookie(p) \/ CloseDelete(p)
      BY <1>3 DEF StreamMove, OwnStep, CallOpen, CallClose, CallStream, WriteData,
         Account, OpenSetUp, OpenRegister, OpenPush, CloseRemove, CloseRead,
         CloseUnregister, AtPort, portVars, SetUpBegin, SetUpRegister, TearDownUnregister
    <3>5. OpenCookie(p) \/ CloseDelete(p) => p # q
      BY <1>0, <3>3 DEF OpenCookie, CloseDelete, Phases, Phase, OpenLabels, LockedLabels
    <3>6. cookie'[q] = cookie[q]
      BY <1>0, <3>4, <3>5 DEF OpenCookie, CloseDelete, SetUpCookie, TearDownCookie, TypeOK
    <3> QED  BY <3>1, <3>3, <3>6
  <2> QED  BY <2>1, <2>2 DEF Told, sessionCore, IsSessionReady
<1>4. ASSUME DeviceMove PROVE Told'
  <2>1. UNCHANGED << sessionCore, bcast, cookie, obj, state >>
    BY <1>4, OwnSideEffect DEF DeviceMove, DeviceStep, CallDevice, DeviceLock, DeviceNext,
                               AtPort, portVars
  <2> QED  BY <1>1, <2>1
<1>5. ASSUME CallbackStep PROVE Told'
  <2>1. UNCHANGED << sessionCore, obj, cookie, observers >>
    BY <1>5, CallbackEffect, OwnSideEffect DEF streamOnly
  <2>2. ASSUME NEW c \in Cookies, CallbackBegin(c) PROVE Told'
    <3>1. UNCHANGED state
      BY <2>2 DEF CallbackBegin
    <3>2. CASE UNCHANGED bcast
      BY <1>1, <2>1, <3>1, <3>2
    <3>3. CASE cookie[observers[c]] # c /\ CallbackDone(c)
      <4>1. ASSUME NEW p \in Ports, obj[p] = "open", cookie[p] \in bcast.todo,
                   bcast.kind = "session"
            PROVE  bcast'.kind = "session" /\ cookie[p] \in bcast'.todo
        <5>1. cookie[p] # c
          BY <1>a, <3>3, <4>1
        <5> QED  BY <1>0, <3>3, <4>1, <5>1 DEF CallbackDone, ProviderTypeOK, SessionTypeOK
      <4> QED  BY <2>1, <3>1, <4>1 DEF Told, sessionCore, IsSessionReady
    <3> QED  BY <2>2, <3>2, <3>3 DEF CallbackBegin
  <2>3. CASE ControlResultHandler
    <3>1. IsSessionReady
      BY <2>3 DEF ControlResultHandler, CallbackDone, ReportReady, Unlocked
    <3> QED  BY <2>1, <3>1 DEF Told, sessionCore, IsSessionReady
  <2>4. CASE SessionChangedHandler
    <3>1. /\ hdl.port \in Ports /\ hdl.cookie \in bcast.todo /\ observers[hdl.cookie] = hdl.port
          /\ CallbackDone(hdl.cookie) /\ state' = [state EXCEPT ![hdl.port] = "DISABLED"]
      BY <1>0, <2>4 DEF SessionChangedHandler, HandlerInWalk
    <3>2. ASSUME NEW p \in Ports, obj[p] = "open", state'[p] = "STARTED",
                 cookie[p] \in bcast.todo, bcast.kind = "session"
          PROVE  bcast'.kind = "session" /\ cookie[p] \in bcast'.todo
      <4>1. p # hdl.port /\ state[p] = "STARTED"
        BY <1>0, <3>1, <3>2 DEF TypeOK
      <4>2. cookie[p] # hdl.cookie
        BY <1>0, <1>a, <3>1, <3>2, <4>1
      <4> QED  BY <1>0, <3>1, <3>2, <4>2 DEF CallbackDone, ProviderTypeOK, SessionTypeOK
    <3>3. \A p \in Ports : state'[p] = "STARTED" => state[p] = "STARTED"
      BY <1>0, <3>1 DEF TypeOK
    <3> QED  BY <2>1, <3>2, <3>3 DEF Told, sessionCore, IsSessionReady
  <2> QED  BY <1>5, <2>2, <2>3, <2>4 DEF CallbackStep
<1>6. ASSUME NEW i \in Stacks,
             StackAnswers(i) \/ StackSuspends(i) \/ StackControls(i) \/ BinderStep(i)
      PROVE  Told'
  <2>1. UNCHANGED << portVars, streamOnly, observers >>
    BY <1>6, StackEffect
  <2>2. UNCHANGED << obj, state, cookie >>
    BY <2>1 DEF portVars, streamOnly
  <2>3. Unlocked /\ ~IsSessionReady => \A p \in Ports : ~(obj[p] = "open" /\ state[p] = "STARTED")
    BY DEF Told, Unlocked
  <2>4. CASE UNCHANGED << sessionCore, bcast >>
    BY <1>1, <2>2, <2>4
  <2>5. CASE bcast' = [kind |-> "session", status |-> "none", todo |-> Registered]
    <3>1. \A p \in Ports : obj[p] = "open" => cookie[p] \in Registered
      BY <1>a, SessionAssumption DEF Registered
    <3> QED  BY <2>2, <2>5, <3>1 DEF Told
  <2>6. CASE Registered = {}
    <3>1. \A p \in Ports : obj[p] # "open"
      BY <1>a, <2>6, SessionAssumption DEF Registered
    <3> QED  BY <2>2, <3>1 DEF Told
  <2>7. CASE IsSessionReady' \/ (Unlocked /\ ~IsSessionReady)
    BY <2>2, <2>3, <2>7 DEF Told
  <2> QED  BY <1>0, <1>6, <2>4, <2>5, <2>6, <2>7, SessionEffect
<1>7. StackForgets => Told'
  BY <1>1 DEF StackForgets, portVars, streamOnly
<1>8. UNCHANGED vars => Told'
  BY <1>1 DEF vars, providerVars, sessionVars, sessionCore, portVars, streamOnly
<1>9. CASE EnvStep
  BY <1>3, <1>4, <1>6, <1>7, <1>9 DEF EnvStep, StreamMove, DeviceMove
<1>10. CASE SystemStep
  BY <1>2, <1>3, <1>4, <1>5, <1>6, <1>10 DEF SystemStep, StreamMove, DeviceMove
<1> QED  BY <1>8, <1>9, <1>10 DEF Next

\* A stream that is STARTED has a session once the session's callbacks have been
\* delivered, for any number of streams, lives of the process and sessions, as long
\* as neither of the two exceptions occurs (BluetoothAudioPortAidl, streamStarted,
\* OnSessionEnded).
THEOREM StartedKeepsSession == Spec /\ [][Undisturbed]_vars => []StartedHasSession
<1>1. Init => StartedInv
  BY SessionAssumption DEF Init, ProviderInit, SessionInit, PortInit, NoBcast, NoHandler, StartedInv,
         OneProcess, Unborn, OwnerReady, ReportReady, Fresh, Told, Alive, Unlocked
<1>2. ASSUME ProviderInv, StreamInv, StartedInv, Undisturbed, [Next]_vars
      PROVE  StartedInv'
  <2>1. ProviderTypeOK
    BY <1>2 DEF ProviderInv
  <2> QED  BY <1>2, <2>1, OwnerReadyStep, ReportReadyStep, FreshStep, ToldStep DEF StartedInv
<1>3. StartedInv /\ UNCHANGED vars => StartedInv'
  BY DEF StartedInv, OneProcess, Unborn, OwnerReady, ReportReady, Fresh, Told, Alive, Unlocked,
         IsSessionReady, vars, providerVars, providerOnly, sessionVars, portVars, streamOnly
<1>4. ProviderInv /\ StreamInv /\ StartedInv /\ [Next]_vars /\ [Undisturbed]_vars => StartedInv'
  BY <1>2, <1>3
<1>5. StartedInv => StartedHasSession
  BY DEF StartedInv, Told, StartedHasSession, Unlocked
<1> QED  BY <1>1, <1>4, <1>5, StreamInvariant, StreamsImplementProviders, ProviderInvariant, PTL
         DEF Spec

\* With one life of the process and queues that can be mapped, which is what the
\* runs check, there are no exceptions.
THEOREM StartedHasSessionInOneLife ==
  ASSUME NEW CONSTANT s, Stacks = {s}, MqResults \subseteq {"good"}
  PROVE  Spec => []StartedHasSession
<1>1. ASSUME ProviderInv, [Next]_vars PROVE [Undisturbed]_vars
  <2>1. ASSUME NEW i \in Stacks, binderDied(i) PROVE Alive = {}
    BY <2>1 DEF binderDied, Alive
  <2>2. ASSUME NEW i \in Stacks, onSessionReadySoftware(i) PROVE IsSessionReady'
    <3>1. TagFits(session_type, p_config[i]) /\ p_config[i] \in ConfigTags
      BY <1>1, <2>2 DEF ProviderInv, StartPrepared, onSessionReadySoftware
    <3>2. OnSessionStarted(i, "good", p_config[i], p_modes[i])
      BY <2>2 DEF onSessionReadySoftware
    <3>3. stack_iface' = i /\ data_mq' = "valid" /\ audio_config' = p_config[i]
      BY <3>1, <3>2 DEF OnSessionStarted
    <3> QED  BY <3>1, <3>3, SessionAssumption DEF IsSessionReady, ConfigTags
  <2> QED  BY <2>1, <2>2 DEF Undisturbed
<1> QED  BY <1>1, StartedKeepsSession, StreamsImplementProviders, ProviderInvariant, PTL DEF Spec
=============================================================================
