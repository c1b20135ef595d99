--------------------- MODULE BluetoothAudioSessionProofs ---------------------
(***************************************************************************)
(* What the session object guarantees to any callers, for any number of    *)
(* stacks, ports and cookies.                                              *)
(***************************************************************************)
EXTENDS BluetoothAudioSession, TLAPS

\* A configuration that was stored was accepted by UpdateAudioConfig.
StoredFits == audio_config # None => TagFits(session_type, audio_config)

\* The inductive invariant: SessionTypeOK makes the two other parts
\* meaningful; CallbacksRegistered and StoredFits are inductive with it.
SessionInv == SessionTypeOK /\ CallbacksRegistered /\ StoredFits

-----------------------------------------------------------------------------
\* Every type has a default configuration of its own variant (GetAudioConfig's
\* switch over the session type).
LEMMA DefaultFits ==
  ASSUME NEW type \in AllTypes
  PROVE  TagFits(type, DefaultTag(type))
  BY DEF TagFits, DefaultTag, AllTypes, SoftwareTypes, OffloadTypes,
         A2dpOffloadTypes, HfpOffloadTypes, LeUnicastTypes, LeBroadcastTypes

\* A walk starts with registered cookies only, and of a known kind.
LEMMA NotifyType ==
  ASSUME SessionTypeOK,
         NEW kind \in {"session", "started", "suspended", "config", "latency"},
         NEW status \in Statuses \union {"none"},
         Notify(kind, status)
  PROVE  /\ bcast' \in [kind : {"none", "session", "started", "suspended", "config", "latency"},
                        status : Statuses \union {"none"},
                        todo : SUBSET Cookies]
         /\ bcast'.todo = Registered
  BY DEF Notify, NoBcast, Registered, SessionTypeOK, Statuses

\* The session as it is made satisfies the invariant.
LEMMA SessionInitInv == SessionInit => SessionInv
  BY SessionAssumption
  DEF SessionInit, SessionInv, SessionTypeOK, CallbacksRegistered, StoredFits,
      NoBcast, Registered, Statuses

\* Every method of the session, called by anyone, preserves the invariant.
LEMMA SessionStepInv == SessionInv /\ [SessionNext]_sessionVars => SessionInv'
<1> SUFFICES ASSUME SessionInv, [SessionNext]_sessionVars
             PROVE  SessionInv'
  OBVIOUS
<1> USE SessionAssumption
    DEF SessionInv, SessionTypeOK, CallbacksRegistered, StoredFits
<1>1. CASE UNCHANGED sessionVars
  BY <1>1 DEF sessionVars, Registered
<1>2. ASSUME NEW i \in Stacks, NEW mq \in {"null", "bad", "good"}, NEW tag \in ConfigTags,
             NEW modes \in SUBSET LatencyModes, OnSessionStarted(i, mq, tag, modes)
      PROVE  SessionInv'
  <2>1. CASE ~TagFits(session_type, tag)
    BY <1>2, <2>1 DEF OnSessionStarted, Registered
  <2>2. CASE TagFits(session_type, tag) /\ mq = "bad"
    BY <1>2, <2>2 DEF OnSessionStarted, Registered
  <2>3. CASE TagFits(session_type, tag) /\ mq # "bad"
    <3>1. /\ Notify("session", "none") /\ UNCHANGED << session_type, observers >>
          /\ audio_config' = tag /\ stack_iface' = i /\ latency_modes' = modes
          /\ data_mq' \in {"none", "valid"}
          /\ UNCHANGED << low_latency_allowed, requests >>
      BY <1>2, <2>3 DEF OnSessionStarted
    <3> QED  BY <2>3, <3>1, NotifyType DEF Registered
  <2> QED  BY <2>1, <2>2, <2>3
<1>3. CASE OnSessionEnded
  <2>1. CASE IsSessionReady
    BY <1>3, <2>1, NotifyType DEF OnSessionEnded, Registered
  <2>2. CASE ~IsSessionReady
    BY <1>3, <2>2 DEF OnSessionEnded, Registered
  <2> QED  BY <2>1, <2>2
<1>4. ASSUME NEW start_resp \in BOOLEAN, NEW status \in Statuses, Report(start_resp, status)
      PROVE  SessionInv'
  <2> DEFINE kind == IF start_resp THEN "started" ELSE "suspended"
  <2>1. kind \in {"started", "suspended"} /\ Notify(kind, status)
    BY <1>4 DEF Report, ReportControlStatus
  <2> QED  BY <1>4, <2>1, NotifyType DEF Report, ReportControlStatus, Registered
<1>5. ASSUME NEW tag \in ConfigTags, ReportAudioConfigChanged(tag)
      PROVE  SessionInv'
  <2>1. TagFits(session_type, tag)
    BY <1>5 DEF ReportAudioConfigChanged, TagFits
  <2> QED  BY <1>5, <2>1, NotifyType DEF ReportAudioConfigChanged, Registered
<1>6. ASSUME NEW allowed \in BOOLEAN, ReportLowLatencyModeAllowedChanged(allowed)
      PROVE  SessionInv'
  BY <1>6, NotifyType DEF ReportLowLatencyModeAllowedChanged, Registered
<1>7. ASSUME NEW p \in Ports, NEW c \in Cookies \union {Undefined}, RegisterStatusCback(p, c)
      PROVE  SessionInv'
  BY <1>7 DEF RegisterStatusCback, Registered, Unlocked
<1>8. ASSUME NEW c \in Cookies, UnregisterStatusCback(c)
      PROVE  SessionInv'
  BY <1>8 DEF UnregisterStatusCback, Registered, Unlocked
<1>9. ASSUME NEW kind \in RequestKinds, NEW ret \in BOOLEAN, StreamCall(kind, ret)
      PROVE  SessionInv'
  <2>1. CASE UNCHANGED requests
    BY <1>9, <2>1 DEF StreamCall, Registered
  <2>2. CASE IsSessionReady /\ requests' = Append(requests, [stack |-> stack_iface, kind |-> kind])
    <3>1. stack_iface \in Stacks
      BY <2>2 DEF IsSessionReady
    <3>2. requests' \in Seq([stack : Stacks, kind : RequestKinds])
      BY <2>2, <3>1
    <3> QED  BY <1>9, <3>2 DEF StreamCall, Registered
  <2> QED  BY <1>9, <2>1, <2>2 DEF StreamCall
<1>10. ASSUME NEW c \in Cookies, Callback(c)
       PROVE  SessionInv'
  BY <1>10 DEF Callback, CallbackDone, NoBcast, Registered, Statuses
<1>11. CASE StackTakes
  <2>1. requests' \in Seq([stack : Stacks, kind : RequestKinds])
    BY <1>11 DEF StackTakes
  <2> QED  BY <1>11, <2>1 DEF StackTakes, Registered
<1> QED
  BY <1>1, <1>2, <1>3, <1>4, <1>5, <1>6, <1>7, <1>8, <1>9, <1>10, <1>11 DEF SessionNext

-----------------------------------------------------------------------------
\* The session object keeps its types and the invariant whatever its callers do.
THEOREM SessionInvariant == SessionSpec => []SessionInv
  BY SessionInitInv, SessionStepInv, PTL DEF SessionSpec

\* Type correctness of the session object.
THEOREM SessionTypeCorrect == SessionSpec => []SessionTypeOK
  BY SessionInvariant, PTL DEF SessionInv

\* A walk over observers_ only calls back cookies that are still registered.
THEOREM CallbacksAlwaysRegistered == SessionSpec => []CallbacksRegistered
  BY SessionInvariant, PTL DEF SessionInv

\* GetAudioConfig returns a configuration of the variant of the session type.
THEOREM ConfigAlwaysFits == SessionSpec => []ConfigFitsType
<1>1. SessionInv => ConfigFitsType
  <2> SUFFICES ASSUME SessionInv PROVE ConfigFitsType
    OBVIOUS
  <2>1. session_type \in AllTypes
    BY SessionAssumption DEF SessionInv, SessionTypeOK
  <2>2. CASE IsSessionReady
    BY <2>2 DEF SessionInv, StoredFits, ConfigFitsType, GetAudioConfig, IsSessionReady
  <2>3. CASE ~IsSessionReady
    BY <2>1, <2>3, DefaultFits DEF ConfigFitsType, GetAudioConfig
  <2> QED  BY <2>2, <2>3
<1> QED  BY <1>1, SessionInvariant, PTL

\* A ready session changes hands, or ends, only together with a walk that calls
\* session_changed_cb_ of every registered port.
THEOREM ChangesAnnounced == SessionSpec => ChangeAnnounced
<1> DEFINE A == IsSessionReady /\ stack_iface' # stack_iface =>
                  /\ bcast'.todo = Registered
                  /\ Registered # {} => bcast'.kind = "session"
<1>1. SessionInv /\ [SessionNext]_sessionVars => [A]_sessionVars
  <2> SUFFICES ASSUME SessionInv, SessionNext, IsSessionReady, stack_iface' # stack_iface
               PROVE  A
    OBVIOUS
  <2>1. Notify("session", "none")
    BY DEF SessionNext, OnSessionStarted, OnSessionEnded, Report, ReportControlStatus,
           ReportAudioConfigChanged, ReportLowLatencyModeAllowedChanged,
           RegisterStatusCback, UnregisterStatusCback, StreamCall, Callback, StackTakes
  <2> QED  BY <2>1 DEF Notify, NoBcast
<1> QED  BY <1>1, SessionInvariant, PTL DEF SessionSpec, ChangeAnnounced
=============================================================================
