----------------------- MODULE CodecsAndMiddlewareProofs -----------------------
(***************************************************************************)
(* Two components of the AIDL side.  The middleware uses the AIDL session  *)
(* as its specification allows, knows every port that is registered and    *)
(* calls back no port that has gone, for any number of ports and cookies.  *)
(* The A2DP codecs propose what both sides support and what they parse     *)
(* themselves, for any remote device and any hint.                         *)
(***************************************************************************)
EXTENDS HidlToAidlMiddleware, BluetoothAudioSessionProofs, A2dpOffloadCodecs,
        SequenceTheorems, WellFoundedInduction

\* A port is an observer of the session exactly from the first half of its
\* registration to the first half of its unregistration, under its cookie.
AtSession ==
  /\ \A c \in Cookies, p \in Ports :
       observers[c] = p <=> m_pc[p] \in {"filing", "live"} /\ m_cookie[p] = c
  /\ \A p \in Ports : m_pc[p] \in {"live", "erasing"} => m_cookie[p] \in Cookies

\* A cookie that has a new owner while the former one is still to erase its entry
\* is marked; the entry of any other live port is its own.
Filed ==
  /\ \A p, q \in Ports :
       /\ m_pc[p] \in {"filing", "live"} /\ m_pc[q] = "erasing" /\ m_cookie[p] = m_cookie[q]
       => m_cookie[p] \in crossed
  /\ \A p \in Ports :
       m_pc[p] = "live" /\ m_cookie[p] \notin crossed => legacy_callback_table[m_cookie[p]] = p

\* A callback runs while the walk over the observers holds the session's mutex.
CallInWalk == calling # NoCall => calling.cookie \in bcast.todo /\ bcast.kind \in Heard

\* The inductive invariant.
MiddlewareInv == SessionInv /\ MiddlewareTypeOK /\ AtSession /\ Filed /\ CallInWalk
-----------------------------------------------------------------------------
\* The session below.

\* Every step of the middleware is a call of one of the session's methods, or
\* nothing to it.
LEMMA MiddlewareStepBelow ==
  ASSUME MiddlewareTypeOK, AtSession, [MiddlewareNext]_middlewareVars
  PROVE  [SessionNext]_sessionVars
<1>1. CASE UNCHANGED middlewareVars \/ Answered
  BY <1>1 DEF middlewareVars, Answered
<1>2. CASE StackStep
  BY <1>2 DEF StackStep, SessionNext
<1>3. CASE CallbackStep
  <2>1. CASE \E c \in Cookies : InvokeCallback(c)
    BY <2>1 DEF InvokeCallback
  <2>2. CASE \E c \in Cookies : UnknownCallback(c) \/ NoCallback(c)
    BY <2>2 DEF UnknownCallback, NoCallback, SessionNext
  <2>3. CASE CallbackReturns
    <3>1. calling.cookie \in Cookies
      BY <2>3 DEF CallbackReturns, MiddlewareTypeOK
    <3> QED  BY <2>3, <3>1 DEF CallbackReturns, SessionNext
  <2> QED  BY <1>3, <2>1, <2>2, <2>3 DEF CallbackStep
<1>4. ASSUME NEW p \in Ports, PortStep(p)
      PROVE  [SessionNext]_sessionVars
  <2>1. CASE RegisterControlResultCback(p)
    BY <2>1 DEF RegisterControlResultCback, SessionNext
  <2>2. CASE UnregisterControlResultCback(p)
    BY <2>2 DEF UnregisterControlResultCback, AtSession, SessionNext
  <2>3. CASE \E kind \in RequestKinds : ForwardStream(p, kind)
    BY <2>3 DEF ForwardStream, SessionNext
  <2> QED
    BY <1>4, <2>1, <2>2, <2>3 DEF PortStep, FileCallbacks, EraseCallbacks, GetAudioConfigAs
<1> QED  BY <1>1, <1>2, <1>3, <1>4 DEF MiddlewareNext

\* A step that is none of the four halves of registering and unregistering leaves
\* the observers and the table alone.
Bystander == UNCHANGED << legacy_callback_table, m_pc, m_cookie, crossed, observers >>

LEMMA MiddlewareCases ==
  ASSUME [MiddlewareNext]_middlewareVars
  PROVE  \/ Bystander
         \/ \E p \in Ports : \/ RegisterControlResultCback(p) \/ FileCallbacks(p)
                             \/ UnregisterControlResultCback(p) \/ EraseCallbacks(p)
<1> USE DEF Bystander, portVars, middlewareOnly
<1>1. CASE UNCHANGED middlewareVars \/ Answered
  BY <1>1 DEF middlewareVars, sessionVars, Answered
<1>2. CASE StackStep
  BY <1>2 DEF StackStep, OnSessionStarted, OnSessionEnded, Report, ReportControlStatus,
              ReportAudioConfigChanged, ReportLowLatencyModeAllowedChanged, StackTakes
<1>3. CASE CallbackStep
  BY <1>3 DEF CallbackStep, InvokeCallback, UnknownCallback, NoCallback, CallbackReturns, Callback,
              sessionVars
<1>4. ASSUME NEW p \in Ports, PortStep(p)
      PROVE  \/ Bystander
             \/ RegisterControlResultCback(p) \/ FileCallbacks(p)
             \/ UnregisterControlResultCback(p) \/ EraseCallbacks(p)
  BY <1>4 DEF PortStep, ForwardStream, StreamCall, GetAudioConfigAs, sessionVars
<1> QED  BY <1>1, <1>2, <1>3, <1>4 DEF MiddlewareNext

-----------------------------------------------------------------------------
\* The table and the registrations.
TableTypes ==
  /\ legacy_callback_table \in [Cookies \union {Undefined} -> Ports \union {None}]
  /\ m_pc \in [Ports -> {"idle", "filing", "live", "erasing"}]
  /\ m_cookie \in [Ports -> Cookies \union {Undefined}]
  /\ crossed \subseteq Cookies \union {Undefined}

LEMMA TableTypesStep ==
  ASSUME TableTypes, [MiddlewareNext]_middlewareVars
  PROVE  TableTypes'
<1> USE DEF TableTypes
<1>1. CASE Bystander
  BY <1>1 DEF Bystander
<1>2. ASSUME NEW p \in Ports, RegisterControlResultCback(p)  PROVE TableTypes'
  BY <1>2 DEF RegisterControlResultCback
<1>3. ASSUME NEW p \in Ports, FileCallbacks(p)  PROVE TableTypes'
  BY <1>3 DEF FileCallbacks
<1>4. ASSUME NEW p \in Ports, UnregisterControlResultCback(p)  PROVE TableTypes'
  BY <1>4 DEF UnregisterControlResultCback
<1>5. ASSUME NEW p \in Ports, EraseCallbacks(p)  PROVE TableTypes'
  BY <1>5 DEF EraseCallbacks
<1> QED  BY <1>1, <1>2, <1>3, <1>4, <1>5, MiddlewareCases

LEMMA AtSessionStep ==
  ASSUME SessionTypeOK, TableTypes, AtSession, [MiddlewareNext]_middlewareVars
  PROVE  AtSession'
<1>a. observers \in [Cookies -> Ports \union {None}] /\ Undefined \notin Cookies /\ None \notin Ports
  BY SessionAssumption DEF SessionTypeOK, Cookies, Undefined
<1>b. m_pc \in [Ports -> {"idle", "filing", "live", "erasing"}]
      /\ m_cookie \in [Ports -> Cookies \union {Undefined}]
  BY DEF TableTypes
<1>1. CASE Bystander
  BY <1>1 DEF Bystander, AtSession
<1>2. ASSUME NEW p \in Ports, RegisterControlResultCback(p)  PROVE AtSession'
  <2>1. PICK c \in Cookies \union {Undefined} :
          RegisterStatusCback(p, c) /\ m_cookie' = [m_cookie EXCEPT ![p] = c]
    BY <1>2 DEF RegisterControlResultCback
  <2>2. m_pc[p] = "idle" /\ m_pc' = [m_pc EXCEPT ![p] = "filing"]
    BY <1>2 DEF RegisterControlResultCback
  <2>3. \/ c = Undefined /\ UNCHANGED observers
        \/ c \in Cookies /\ observers[c] = None /\ observers' = [observers EXCEPT ![c] = p]
    BY <2>1 DEF RegisterStatusCback, Registered
  <2>4. \A d \in Cookies : observers[d] # p
    BY <2>2 DEF AtSession
  <2> QED  BY <1>a, <1>b, <2>1, <2>2, <2>3, <2>4 DEF AtSession
<1>3. ASSUME NEW p \in Ports, FileCallbacks(p)  PROVE AtSession'
  BY <1>a, <1>b, <1>3 DEF FileCallbacks, AtSession, sessionVars
<1>4. ASSUME NEW p \in Ports, UnregisterControlResultCback(p)  PROVE AtSession'
  <2>1. /\ m_pc[p] = "live" /\ m_pc' = [m_pc EXCEPT ![p] = "erasing"] /\ UNCHANGED m_cookie
        /\ observers' = [c \in Cookies |-> IF c = m_cookie[p] THEN None ELSE observers[c]]
    BY <1>4 DEF UnregisterControlResultCback, UnregisterStatusCback
  <2> QED  BY <1>a, <1>b, <2>1 DEF AtSession
<1>5. ASSUME NEW p \in Ports, EraseCallbacks(p)  PROVE AtSession'
  BY <1>a, <1>b, <1>5 DEF EraseCallbacks, AtSession, sessionVars
<1> QED  BY <1>1, <1>2, <1>3, <1>4, <1>5, MiddlewareCases

LEMMA FiledStep ==
  ASSUME SessionTypeOK, TableTypes, AtSession, Filed, [MiddlewareNext]_middlewareVars
  PROVE  Filed'
<1>a. /\ m_pc \in [Ports -> {"idle", "filing", "live", "erasing"}]
      /\ m_cookie \in [Ports -> Cookies \union {Undefined}]
      /\ legacy_callback_table \in [Cookies \union {Undefined} -> Ports \union {None}]
  BY DEF TableTypes
<1>b. Undefined \notin Cookies  BY DEF Cookies, Undefined
<1>1. CASE Bystander
  BY <1>1 DEF Bystander, Filed
<1>2. ASSUME NEW p \in Ports, RegisterControlResultCback(p)  PROVE Filed'
  <2>1. PICK c \in Cookies \union {Undefined} :
          /\ RegisterStatusCback(p, c) /\ m_cookie' = [m_cookie EXCEPT ![p] = c]
          /\ crossed' = IF \E q \in Ports : m_pc[q] = "erasing" /\ m_cookie[q] = c
                        THEN crossed \union {c} ELSE crossed \ {c}
    BY <1>2 DEF RegisterControlResultCback
  <2>2. m_pc[p] = "idle" /\ m_pc' = [m_pc EXCEPT ![p] = "filing"] /\ UNCHANGED legacy_callback_table
    BY <1>2 DEF RegisterControlResultCback
  <2>3. \A q \in Ports : m_pc[q] \in {"filing", "live"} /\ m_cookie[q] = c => c = Undefined
    <3>1. c = Undefined \/ (c \in Cookies /\ observers[c] = None)
      BY <2>1 DEF RegisterStatusCback, Registered
    <3> QED  BY <3>1, SessionAssumption DEF AtSession
  <2>4. \A q \in Ports : m_pc[q] \in {"live", "erasing"} => m_cookie[q] # Undefined
    BY <1>b DEF AtSession
  <2>5. ASSUME NEW q \in Ports, NEW r \in Ports, m_pc'[q] \in {"filing", "live"}, m_pc'[r] = "erasing",
               m_cookie'[q] = m_cookie'[r]
        PROVE  m_cookie'[q] \in crossed'
    <3>1. r # p /\ m_pc[r] = "erasing" /\ m_cookie'[r] = m_cookie[r]
      BY <1>a, <2>1, <2>2, <2>5
    <3>2. CASE q = p
      BY <1>a, <2>1, <2>5, <3>1, <3>2
    <3>3. CASE q # p
      <4>1. m_pc[q] \in {"filing", "live"} /\ m_cookie'[q] = m_cookie[q] /\ m_cookie[q] = m_cookie[r]
        BY <1>a, <2>1, <2>2, <2>5, <3>1, <3>3
      <4>2. m_cookie[q] \in crossed
        BY <3>1, <4>1 DEF Filed
      <4>3. m_cookie[q] # c
        BY <2>3, <2>4, <3>1, <4>1
      <4> QED  BY <2>1, <4>1, <4>2, <4>3
    <3> QED  BY <3>2, <3>3
  <2>6. ASSUME NEW q \in Ports, m_pc'[q] = "live", m_cookie'[q] \notin crossed'
        PROVE  legacy_callback_table'[m_cookie'[q]] = q
    <3>1. q # p /\ m_pc[q] = "live" /\ m_cookie'[q] = m_cookie[q]
      BY <1>a, <2>1, <2>2, <2>6
    <3>2. m_cookie[q] # c
      BY <2>3, <2>4, <3>1
    <3>3. m_cookie[q] \notin crossed
      BY <2>1, <2>6, <3>1, <3>2
    <3> QED  BY <2>2, <3>1, <3>3 DEF Filed
  <2> QED  BY <2>5, <2>6 DEF Filed
<1>3. ASSUME NEW p \in Ports, FileCallbacks(p)  PROVE Filed'
  <2>1. /\ m_pc[p] = "filing" /\ UNCHANGED << m_cookie, crossed, observers >>
        /\ legacy_callback_table' = [legacy_callback_table EXCEPT ![m_cookie[p]] = p]
        /\ m_pc' = [m_pc EXCEPT ![p] = IF m_cookie[p] = Undefined THEN "idle" ELSE "live"]
    BY <1>3 DEF FileCallbacks, sessionVars
  <2>2. \A q \in Ports : m_pc[q] = "live" => m_cookie[q] # m_cookie[p]
    BY <1>a, <2>1 DEF AtSession
  <2>3. ASSUME NEW q \in Ports, NEW r \in Ports, m_pc'[q] \in {"filing", "live"}, m_pc'[r] = "erasing",
               m_cookie'[q] = m_cookie'[r]
        PROVE  m_cookie'[q] \in crossed'
    BY <1>a, <2>1, <2>3 DEF Filed
  <2>4. ASSUME NEW q \in Ports, m_pc'[q] = "live", m_cookie'[q] \notin crossed'
        PROVE  legacy_callback_table'[m_cookie'[q]] = q
    <3>1. CASE q = p
      BY <1>a, <2>1, <3>1
    <3>2. CASE q # p
      BY <1>a, <2>1, <2>2, <2>4, <3>2 DEF Filed
    <3> QED  BY <3>1, <3>2
  <2> QED  BY <2>3, <2>4 DEF Filed
<1>4. ASSUME NEW p \in Ports, UnregisterControlResultCback(p)  PROVE Filed'
  <2>1. /\ m_pc[p] = "live" /\ m_pc' = [m_pc EXCEPT ![p] = "erasing"]
        /\ UNCHANGED << m_cookie, crossed, legacy_callback_table >>
    BY <1>4 DEF UnregisterControlResultCback
  <2>2. \A q \in Ports : m_pc[q] \in {"filing", "live"} /\ m_cookie[q] = m_cookie[p] => q = p
    BY <2>1 DEF AtSession
  <2> QED  BY <1>a, <2>1, <2>2 DEF Filed
<1>5. ASSUME NEW p \in Ports, EraseCallbacks(p)  PROVE Filed'
  <2>1. /\ m_pc[p] = "erasing" /\ UNCHANGED << m_cookie, crossed >>
        /\ legacy_callback_table' = [legacy_callback_table EXCEPT ![m_cookie[p]] = None]
        /\ m_pc' = [m_pc EXCEPT ![p] = "idle"]
    BY <1>5 DEF EraseCallbacks
  <2>2. \A q \in Ports : m_pc[q] = "live" /\ m_cookie[q] \notin crossed => m_cookie[q] # m_cookie[p]
    BY <2>1 DEF Filed
  <2> QED  BY <1>a, <2>1, <2>2 DEF Filed
<1> QED  BY <1>1, <1>2, <1>3, <1>4, <1>5, MiddlewareCases

-----------------------------------------------------------------------------
\* The callback that runs.
CallTypes == calling \in [ cookie : Cookies, to : Ports,
                           status : {"SUCCESS", "FAILURE", "none"} ] \union {NoCall}

LEMMA CallingStep ==
  ASSUME SessionTypeOK, TableTypes, CallTypes, CallInWalk, [MiddlewareNext]_middlewareVars
  PROVE  CallTypes' /\ CallInWalk'
<1>a. calling # NoCall => ~Unlocked
  BY DEF CallInWalk, Unlocked
<1>b. CASE UNCHANGED << calling, bcast >>
  BY <1>b DEF CallTypes, CallInWalk
<1>1. CASE UNCHANGED middlewareVars \/ Answered
  BY <1>b, <1>1 DEF middlewareVars, middlewareOnly, sessionVars, Answered
<1>2. CASE StackStep
  <2>0. UNCHANGED calling
    BY <1>2 DEF StackStep, middlewareOnly
  <2>1. CASE StackTakes
    BY <1>b, <2>0, <2>1 DEF StackTakes
  <2>2. CASE Unlocked
    BY <1>a, <2>0, <2>2 DEF CallTypes, CallInWalk
  <2> QED  BY <1>2, <2>1, <2>2 DEF StackStep, OnSessionStarted, OnSessionEnded, Report, ReportControlStatus,
              ReportAudioConfigChanged, ReportLowLatencyModeAllowedChanged
<1>3. CASE \E c \in Cookies : InvokeCallback(c)
  <2> PICK c \in Cookies : InvokeCallback(c)  BY <1>3
  <2>1. HidlResult \in {"SUCCESS", "FAILURE", "none"}
    BY DEF HidlResult, to_hidl_status, SessionTypeOK, Statuses
  <2>2. legacy_callback_table[c] \in Ports
    BY DEF InvokeCallback, TableTypes
  <2>3. /\ calling' = [ cookie |-> c, to |-> legacy_callback_table[c], status |-> HidlResult ]
        /\ c \in bcast.todo /\ bcast.kind \in Heard /\ UNCHANGED bcast
    BY DEF InvokeCallback, sessionVars
  <2> QED  BY <2>1, <2>2, <2>3 DEF CallTypes, CallInWalk
<1>4. CASE CallbackReturns
  BY <1>4 DEF CallbackReturns, CallTypes, CallInWalk
<1>5. CASE \E c \in Cookies : UnknownCallback(c) \/ NoCallback(c)
  <2>1. calling = NoCall /\ UNCHANGED calling
    BY <1>5 DEF UnknownCallback, NoCallback, CallInWalk, middlewareOnly
  <2> QED  BY <2>1 DEF CallTypes, CallInWalk
<1>6. ASSUME NEW p \in Ports, PortStep(p)
      PROVE  UNCHANGED << calling, bcast >>
  BY <1>6 DEF PortStep, RegisterControlResultCback, RegisterStatusCback, FileCallbacks,
     UnregisterControlResultCback, UnregisterStatusCback, EraseCallbacks, ForwardStream, StreamCall,
     GetAudioConfigAs, sessionVars, middlewareOnly
<1> QED  BY <1>b, <1>1, <1>2, <1>3, <1>4, <1>5, <1>6 DEF MiddlewareNext, CallbackStep

-----------------------------------------------------------------------------
LEMMA MiddlewareInitial ==
  ASSUME MiddlewareInit
  PROVE  MiddlewareInv
<1>1. SessionInv
  BY SessionInitInv DEF MiddlewareInit
<1>2. MiddlewareTypeOK
  BY DEF MiddlewareInit, MiddlewareTypeOK
<1>3. AtSession
  BY SessionAssumption DEF MiddlewareInit, SessionInit, AtSession
<1>4. Filed /\ CallInWalk
  BY DEF MiddlewareInit, Filed, CallInWalk
<1> QED  BY <1>1, <1>2, <1>3, <1>4 DEF MiddlewareInv

LEMMA MiddlewareStep ==
  ASSUME MiddlewareInv, [MiddlewareNext]_middlewareVars
  PROVE  MiddlewareInv'
<1>1. SessionTypeOK /\ TableTypes /\ CallTypes /\ AtSession /\ Filed /\ CallInWalk
  BY DEF MiddlewareInv, SessionInv, MiddlewareTypeOK, TableTypes, CallTypes
<1>2. SessionInv'
  BY MiddlewareStepBelow, SessionStepInv DEF MiddlewareInv
<1>3. TableTypes' /\ AtSession' /\ Filed'
  BY <1>1, TableTypesStep, AtSessionStep, FiledStep
<1>4. CallTypes' /\ CallInWalk'
  BY <1>1, CallingStep
<1> QED  BY <1>2, <1>3, <1>4 DEF MiddlewareInv, MiddlewareTypeOK, TableTypes, CallTypes

\* The inductive invariant of the middleware holds in every reachable state.
THEOREM MiddlewareInvariant == MiddlewareSpec => []MiddlewareInv
  BY MiddlewareInitial, MiddlewareStep, PTL DEF MiddlewareSpec

\* The middleware implements the specification of the AIDL session, so what is
\* proved of that session holds for the HIDL ports as well.
THEOREM MiddlewareImplementsSession == MiddlewareSpec => SessionSpec
<1>1. MiddlewareInit => SessionInit
  BY DEF MiddlewareInit
<1>2. MiddlewareInv /\ [MiddlewareNext]_middlewareVars => [SessionNext]_sessionVars
  BY MiddlewareStepBelow DEF MiddlewareInv
<1> QED  BY <1>1, <1>2, MiddlewareInvariant, PTL DEF MiddlewareSpec, SessionSpec

\* A ready session that the HIDL ports use never changes hands silently.
THEOREM MiddlewareAnnounces == MiddlewareSpec => ChangeAnnounced
  BY MiddlewareImplementsSession, ChangesAnnounced

\* A port whose registration has returned is known to the session and, unless its
\* cookie was given out while the former owner was still erasing, to the table.
THEOREM AlwaysKnownUnlessCrossed == MiddlewareSpec => []KnownUnlessCrossed
<1>1. MiddlewareInv => KnownUnlessCrossed
  BY DEF MiddlewareInv, AtSession, Filed, KnownUnlessCrossed
<1> QED  BY <1>1, MiddlewareInvariant, PTL

\* No callback runs on a port that has unregistered, except one that belongs to
\* the next owner of its cookie.
THEOREM NeverStrayCallback == MiddlewareSpec => []NoStrayCallback
<1>1. MiddlewareInv => NoStrayCallback
  <2> SUFFICES ASSUME MiddlewareInv, calling # NoCall
               PROVE  \/ m_pc[calling.to] # "idle"
                      \/ observers[calling.cookie] \notin {None, calling.to}
    BY DEF NoStrayCallback
  <2>1. calling.cookie \in Cookies /\ calling.to \in Ports
    BY DEF MiddlewareInv, MiddlewareTypeOK
  <2>2. observers[calling.cookie] # None
    BY DEF MiddlewareInv, CallInWalk, SessionInv, CallbacksRegistered, Registered
  <2>3. observers[calling.cookie] = calling.to => m_pc[calling.to] # "idle"
    BY <2>1 DEF MiddlewareInv, AtSession
  <2> QED  BY <2>2, <2>3
<1> QED  BY <1>1, MiddlewareInvariant, PTL

-----------------------------------------------------------------------------
\* A key that occurs once in a table is found there.
LEMMA FindsEntry ==
  ASSUME NEW table, NEW k, NEW v, NEW default,
         << k, v >> \in table, \A e \in table : e[1] = k => e[2] = v
  PROVE  Find(table, k, default) = v
<1>1. \E e \in table : e[1] = k
  OBVIOUS
<1>2. (CHOOSE e \in table : e[1] = k) \in table /\ (CHOOSE e \in table : e[1] = k)[1] = k
  BY <1>1
<1> QED  BY <1>1, <1>2 DEF Find

\* The tables of the sampling rates on the two sides are inverse to each other.
Rate(hz, name) == /\ to_hidl_sample_rate(hz) = name
                  /\ SampleRateToAudioFormat(name) = hz
LEMMA RatesConvert ==
  /\ Rate(8000, "RATE_8000")   /\ Rate(16000, "RATE_16000")   /\ Rate(24000, "RATE_24000")
  /\ Rate(32000, "RATE_32000") /\ Rate(44100, "RATE_44100")   /\ Rate(48000, "RATE_48000")
  /\ Rate(88200, "RATE_88200") /\ Rate(96000, "RATE_96000")
  /\ to_hidl_sample_rate(0) = "RATE_UNKNOWN"
<1> DEFINE back == { << "RATE_8000", 8000 >>, << "RATE_16000", 16000 >>, << "RATE_24000", 24000 >>,
         << "RATE_32000", 32000 >>, << "RATE_44100", 44100 >>, << "RATE_48000", 48000 >>,
         << "RATE_88200", 88200 >>, << "RATE_96000", 96000 >>, << "RATE_176400", 176400 >>,
         << "RATE_192000", 192000 >> }
<1>1. ASSUME NEW hz, NEW name, << hz, name >> \in sample_rate_to_hidl_2_1_map,
             << name, hz >> \in back
      PROVE  Rate(hz, name)
  <2>1. to_hidl_sample_rate(hz) = name
    <3>1. \A e \in sample_rate_to_hidl_2_1_map : e[1] = hz => e[2] = name
      BY <1>1 DEF sample_rate_to_hidl_2_1_map
    <3> QED  BY <1>1, <3>1, FindsEntry DEF to_hidl_sample_rate
  <2>2. SampleRateToAudioFormat(name) = hz
    <3>1. \A e \in back : e[1] = name => e[2] = hz
      BY <1>1
    <3>2. Find(back, name, 44100) = hz
      <4> HIDE DEF back
      <4> QED  BY <1>1, <3>1, FindsEntry
    <3> QED  BY <3>2 DEF SampleRateToAudioFormat
  <2> QED  BY <2>1, <2>2 DEF Rate
<1>2. ASSUME NEW hz, NEW name, << hz, name >> \in sample_rate_to_hidl_2_1_map
      PROVE  << name, hz >> \in back
  BY <1>2 DEF sample_rate_to_hidl_2_1_map
<1>3. \A hz, name : << hz, name >> \in sample_rate_to_hidl_2_1_map => Rate(hz, name)
  BY <1>1, <1>2
<1>4. to_hidl_sample_rate(0) = "RATE_UNKNOWN"
  BY DEF to_hidl_sample_rate, Find, sample_rate_to_hidl_2_1_map
<1> QED  BY <1>3, <1>4 DEF sample_rate_to_hidl_2_1_map

\* So are those of the sample sizes.
LEMMA BitsConvert ==
  /\ to_hidl_bits_per_sample(16) = "BITS_16" /\ BitsPerSampleToAudioFormat("BITS_16") = 16
  /\ to_hidl_bits_per_sample(24) = "BITS_24" /\ BitsPerSampleToAudioFormat("BITS_24") = 24
  /\ to_hidl_bits_per_sample(32) = "BITS_32" /\ BitsPerSampleToAudioFormat("BITS_32") = 32
<1> DEFINE there == { << 16, "BITS_16" >>, << 24, "BITS_24" >>, << 32, "BITS_32" >> }
           back  == { << "BITS_16", 16 >>, << "BITS_24", 24 >>, << "BITS_32", 32 >> }
<1>1. ASSUME NEW b, NEW name, << b, name >> \in there
      PROVE  to_hidl_bits_per_sample(b) = name /\ BitsPerSampleToAudioFormat(name) = b
  <2>1. << name, b >> \in back
    BY <1>1
  <2>2. (\A e \in there : e[1] = b => e[2] = name) /\ (\A e \in back : e[1] = name => e[2] = b)
    BY <1>1
  <2>3. Find(there, b, "BITS_UNKNOWN") = name
    <3> HIDE DEF there, back
    <3> QED  BY <1>1, <2>2, FindsEntry
  <2>4. Find(back, name, 16) = b
    <3> HIDE DEF there, back
    <3> QED  BY <2>1, <2>2, FindsEntry
  <2> QED  BY <2>3, <2>4 DEF to_hidl_bits_per_sample, BitsPerSampleToAudioFormat
<1> QED  BY <1>1

\* A PCM configuration the provider accepts survives both conversions.
LEMMA PcmConverts ==
  ASSUME NEW c \in PcmFields, IsSoftwarePcmConfigurationValid(c)
  PROVE  LoadAudioConfig(to_hidl_pcm_config(c)) = c
<1>1. /\ c.sampleRateHz \in {8000, 16000, 24000, 32000, 44100, 48000, 88200, 96000}
      /\ c.channelMode \in {"MONO", "STEREO"}
      /\ c.bitsPerSample \in {16, 24, 32}
  BY DEF IsSoftwarePcmConfigurationValid, Contained, kDefaultSoftwarePcmCapabilities
<1>2. /\ to_hidl_sample_rate(c.sampleRateHz) # "RATE_UNKNOWN"
      /\ SampleRateToAudioFormat(to_hidl_sample_rate(c.sampleRateHz)) = c.sampleRateHz
  BY <1>1, RatesConvert DEF Rate
<1>3. /\ to_hidl_bits_per_sample(c.bitsPerSample) # "BITS_UNKNOWN"
      /\ BitsPerSampleToAudioFormat(to_hidl_bits_per_sample(c.bitsPerSample)) = c.bitsPerSample
  BY <1>1, BitsConvert
<1>4. /\ to_hidl_channel_mode(c.channelMode) # "UNKNOWN"
      /\ ChannelModeToAudioFormat(to_hidl_channel_mode(c.channelMode)) = c.channelMode
  BY <1>1 DEF to_hidl_channel_mode, ChannelModeToAudioFormat
<1>5. LoadAudioConfig(to_hidl_pcm_config(c)) =
        [ sampleRateHz |-> c.sampleRateHz, channelMode |-> c.channelMode,
          bitsPerSample |-> c.bitsPerSample ]
  BY <1>2, <1>3, <1>4 DEF LoadAudioConfig, to_hidl_pcm_config
<1> QED  BY <1>5 DEF PcmFields

\* The name of a codec, and the fields of each codec, as the HIDL port gets them.
LEMMA CodecNames ==
  /\ \A c \in {"SBC", "AAC", "APTX", "APTX_HD", "LDAC"} : to_hidl_codec_type_2_0(c) = c
  /\ to_hidl_codec_type_2_0("OPUS") = "UNKNOWN"
<1>1. ASSUME NEW c \in {"SBC", "AAC", "APTX", "APTX_HD", "LDAC"}
      PROVE  to_hidl_codec_type_2_0(c) = c
  <2>1. << c, c >> \in codec_type_to_hidl_2_0_map
    BY DEF codec_type_to_hidl_2_0_map
  <2>2. \A e \in codec_type_to_hidl_2_0_map : e[1] = c => e[2] = c
    BY DEF codec_type_to_hidl_2_0_map
  <2> QED  BY <2>1, <2>2, FindsEntry DEF to_hidl_codec_type_2_0
<1>2. to_hidl_codec_type_2_0("OPUS") = "UNKNOWN"
  BY DEF to_hidl_codec_type_2_0, Find, codec_type_to_hidl_2_0_map
<1> QED  BY <1>1, <1>2

Spoilt == {Garbage, "UNKNOWN", "RATE_UNKNOWN", "BITS_UNKNOWN"}
Unspoilt(config) == \A f \in DOMAIN config \ {"minBitpool", "maxBitpool"} : config[f] \notin Spoilt

LEMMA BlocksConvert ==
  LET blocks(n) == Find(sbc_block_length_to_hidl_map, n, Garbage)
  IN  /\ blocks(4) = "BLOCKS_4"   /\ blocks(8) = "BLOCKS_8"
      /\ blocks(12) = "BLOCKS_12" /\ blocks(16) = "BLOCKS_16"
<1>1. ASSUME NEW n, NEW name, << n, name >> \in sbc_block_length_to_hidl_map
      PROVE  Find(sbc_block_length_to_hidl_map, n, Garbage) = name
  <2>1. \A e \in sbc_block_length_to_hidl_map : e[1] = n => e[2] = name
    BY <1>1 DEF sbc_block_length_to_hidl_map
  <2> QED  BY <1>1, <2>1, FindsEntry
<1> QED  BY <1>1 DEF sbc_block_length_to_hidl_map

\* SBC: no field is spoilt, and different configurations stay different.
LEMMA SbcConverts ==
  ASSUME NEW c \in [ tag : {"sbcConfig"}, fields : SbcFields ], IsOffloadSbcConfigurationValid(c)
  PROVE  /\ Unspoilt(to_hidl_sbc_config(c.fields))
         /\ \A d \in [ tag : {"sbcConfig"}, fields : SbcFields ] :
              /\ IsOffloadSbcConfigurationValid(d)
              /\ to_hidl_sbc_config(d.fields) = to_hidl_sbc_config(c.fields)
              => d = c
<1>1. ASSUME NEW d \in [ tag : {"sbcConfig"}, fields : SbcFields ],
             IsOffloadSbcConfigurationValid(d)
      PROVE  /\ d.fields.sampleRateHz = 44100 /\ d.fields.numSubbands = 8
             /\ d.fields.allocMethod = "ALLOC_MD_L" /\ d.fields.bitsPerSample = 16
             /\ d.fields.channelMode \in {"MONO", "JOINT_STEREO"}
             /\ d.fields.blockLength \in {4, 8, 12, 16}
  BY <1>1 DEF IsOffloadSbcConfigurationValid, Contained, kDefaultOffloadSbcCapability
<1>2. Find({ << 4, "SUBBAND_4" >>, << 8, "SUBBAND_8" >> }, 8, Garbage) = "SUBBAND_8"
  <2> DEFINE table == { << 4, "SUBBAND_4" >>, << 8, "SUBBAND_8" >> }
  <2>1. << 8, "SUBBAND_8" >> \in table /\ \A e \in table : e[1] = 8 => e[2] = "SUBBAND_8"
    OBVIOUS
  <2>2. Find(table, 8, Garbage) = "SUBBAND_8"
    <3> HIDE DEF table
    <3> QED  BY <2>1, FindsEntry
  <2> QED  BY <2>2
<1>3. Unspoilt(to_hidl_sbc_config(c.fields))
  BY <1>1, <1>2, RatesConvert, BitsConvert, BlocksConvert
     DEF Rate, Unspoilt, Spoilt, Garbage, to_hidl_sbc_config
<1>4. ASSUME NEW d \in [ tag : {"sbcConfig"}, fields : SbcFields ],
             IsOffloadSbcConfigurationValid(d),
             to_hidl_sbc_config(d.fields) = to_hidl_sbc_config(c.fields)
      PROVE  d = c
  <2>1. /\ d.fields.minBitpool = c.fields.minBitpool
        /\ d.fields.maxBitpool = c.fields.maxBitpool
        /\ d.fields.channelMode = c.fields.channelMode
        /\ Find(sbc_block_length_to_hidl_map, d.fields.blockLength, Garbage) =
             Find(sbc_block_length_to_hidl_map, c.fields.blockLength, Garbage)
    BY <1>1, <1>4 DEF to_hidl_sbc_config
  <2>2. d.fields.blockLength = c.fields.blockLength
    BY <1>1, <1>4, <2>1, BlocksConvert
  <2>3. d.fields = c.fields
    BY <1>1, <1>4, <2>1, <2>2 DEF SbcFields
  <2> QED  BY <2>3
<1> QED  BY <1>3, <1>4

\* AAC: only the variable bit rate is left open.
LEMMA AacConverts ==
  ASSUME NEW c \in [ tag : {"aacConfig"}, fields : AacFields ], IsOffloadAacConfigurationValid(c)
  PROVE  /\ Unspoilt(to_hidl_aac_config(c.fields))
         /\ \A d \in [ tag : {"aacConfig"}, fields : AacFields ] :
              /\ IsOffloadAacConfigurationValid(d)
              /\ to_hidl_aac_config(d.fields) = to_hidl_aac_config(c.fields)
              => d = c
<1>1. ASSUME NEW d \in [ tag : {"aacConfig"}, fields : AacFields ],
             IsOffloadAacConfigurationValid(d)
      PROVE  /\ d.fields.sampleRateHz = 44100 /\ d.fields.objectType = "MPEG2_LC"
             /\ d.fields.channelMode = "STEREO" /\ d.fields.bitsPerSample = 16
  BY <1>1 DEF IsOffloadAacConfigurationValid, Contained, kDefaultOffloadAacCapability
<1>2. Unspoilt(to_hidl_aac_config(c.fields))
  BY <1>1, RatesConvert, BitsConvert
     DEF Rate, Unspoilt, Spoilt, Garbage, to_hidl_aac_config, to_hidl_channel_mode
<1>3. ASSUME NEW d \in [ tag : {"aacConfig"}, fields : AacFields ],
             IsOffloadAacConfigurationValid(d),
             to_hidl_aac_config(d.fields) = to_hidl_aac_config(c.fields)
      PROVE  d = c
  <2>1. (IF d.fields.variableBitRateEnabled THEN "ENABLED" ELSE "DISABLED") =
          (IF c.fields.variableBitRateEnabled THEN "ENABLED" ELSE "DISABLED")
    BY <1>3 DEF to_hidl_aac_config
  <2>2. d.fields.variableBitRateEnabled = c.fields.variableBitRateEnabled
    BY <2>1 DEF AacFields
  <2>3. d.fields = c.fields
    BY <1>1, <1>3, <2>2 DEF AacFields
  <2> QED  BY <2>3
<1> QED  BY <1>2, <1>3

\* LDAC: rate, channel mode and sample size are left open.
LEMMA LdacConverts ==
  ASSUME NEW c \in [ tag : {"ldacConfig"}, fields : LdacFields ],
         IsOffloadLdacConfigurationValid(c)
  PROVE  /\ Unspoilt(to_hidl_ldac_config(c.fields))
         /\ \A d \in [ tag : {"ldacConfig"}, fields : LdacFields ] :
              /\ IsOffloadLdacConfigurationValid(d)
              /\ to_hidl_ldac_config(d.fields) = to_hidl_ldac_config(c.fields)
              => d = c
<1> DEFINE table == { << "HIGH", "QUALITY_HIGH" >>, << "MID", "QUALITY_MID" >>,
                      << "LOW", "QUALITY_LOW" >>, << "ABR", "QUALITY_ABR" >> }
<1>1. ASSUME NEW d \in [ tag : {"ldacConfig"}, fields : LdacFields ],
             IsOffloadLdacConfigurationValid(d)
      PROVE  /\ d.fields.sampleRateHz \in {44100, 48000, 88200, 96000}
             /\ d.fields.channelMode \in {"DUAL", "STEREO"} /\ d.fields.qualityIndex = "HIGH"
             /\ d.fields.bitsPerSample \in {16, 24, 32}
  BY <1>1 DEF IsOffloadLdacConfigurationValid, Contained, kDefaultOffloadLdacCapability
<1>2. Find(table, "HIGH", Garbage) = "QUALITY_HIGH"
  <2>1. << "HIGH", "QUALITY_HIGH" >> \in table
        /\ \A e \in table : e[1] = "HIGH" => e[2] = "QUALITY_HIGH"
    OBVIOUS
  <2> HIDE DEF table
  <2> QED  BY <2>1, FindsEntry
<1>3. Unspoilt(to_hidl_ldac_config(c.fields))
  BY <1>1, <1>2, RatesConvert, BitsConvert
     DEF Rate, Unspoilt, Spoilt, Garbage, to_hidl_ldac_config
<1>4. ASSUME NEW d \in [ tag : {"ldacConfig"}, fields : LdacFields ],
             IsOffloadLdacConfigurationValid(d),
             to_hidl_ldac_config(d.fields) = to_hidl_ldac_config(c.fields)
      PROVE  d = c
  <2>1. /\ to_hidl_sample_rate(d.fields.sampleRateHz) = to_hidl_sample_rate(c.fields.sampleRateHz)
        /\ to_hidl_bits_per_sample(d.fields.bitsPerSample) =
             to_hidl_bits_per_sample(c.fields.bitsPerSample)
        /\ d.fields.channelMode = c.fields.channelMode
    BY <1>1, <1>4 DEF to_hidl_ldac_config
  <2>2. d.fields.sampleRateHz = c.fields.sampleRateHz
    BY <1>1, <1>4, <2>1, RatesConvert DEF Rate
  <2>3. d.fields.bitsPerSample = c.fields.bitsPerSample
    BY <1>1, <1>4, <2>1, BitsConvert
  <2>4. d.fields = c.fields
    BY <1>1, <1>4, <2>1, <2>2, <2>3 DEF LdacFields
  <2> QED  BY <2>4
<1> QED  BY <1>3, <1>4

\* aptX and aptX HD share a variant and differ in the codec's name.
ValidAptx(c) == IsOffloadAptxConfigurationValid(c) \/ IsOffloadAptxHdConfigurationValid(c)
LEMMA AptxConverts ==
  ASSUME NEW c \in [ tag : {"aptxConfig"}, fields : PcmFields ], ValidAptx(c)
  PROVE  /\ Unspoilt(to_hidl_aptx_config(c.fields))
         /\ \A d \in [ tag : {"aptxConfig"}, fields : PcmFields ] :
              ValidAptx(d) /\ to_hidl_aptx_config(d.fields) = to_hidl_aptx_config(c.fields)
              => d = c
<1>1. ASSUME NEW d \in [ tag : {"aptxConfig"}, fields : PcmFields ], ValidAptx(d)
      PROVE  /\ d.fields.sampleRateHz \in {44100, 48000} /\ d.fields.channelMode = "STEREO"
             /\ d.fields.bitsPerSample \in {16, 24}
  BY <1>1 DEF ValidAptx, IsOffloadAptxConfigurationValid, IsOffloadAptxHdConfigurationValid,
              Contained, kDefaultOffloadAptxCapability, kDefaultOffloadAptxHdCapability
<1>2. Unspoilt(to_hidl_aptx_config(c.fields))
  BY <1>1, RatesConvert, BitsConvert
     DEF Rate, Unspoilt, Spoilt, Garbage, to_hidl_aptx_config, to_hidl_channel_mode
<1>3. ASSUME NEW d \in [ tag : {"aptxConfig"}, fields : PcmFields ], ValidAptx(d),
             to_hidl_aptx_config(d.fields) = to_hidl_aptx_config(c.fields)
      PROVE  d = c
  <2>1. /\ to_hidl_sample_rate(d.fields.sampleRateHz) = to_hidl_sample_rate(c.fields.sampleRateHz)
        /\ to_hidl_bits_per_sample(d.fields.bitsPerSample) =
             to_hidl_bits_per_sample(c.fields.bitsPerSample)
    BY <1>3 DEF to_hidl_aptx_config
  <2>2. d.fields.sampleRateHz = c.fields.sampleRateHz
    BY <1>1, <1>3, <2>1, RatesConvert DEF Rate
  <2>3. d.fields.bitsPerSample = c.fields.bitsPerSample
    BY <1>1, <1>3, <2>1, BitsConvert
  <2>4. d.fields = c.fields
    BY <1>1, <1>3, <2>2, <2>3 DEF PcmFields
  <2> QED  BY <2>4
<1> QED  BY <1>2, <1>3

\* A codec configuration a provider accepts, by its codec.
Codecs == [ codecType : STRING, config : CodecVariants ]
Converts(d, tag, fields) ==
  /\ d.config \in [ tag : {tag}, fields : fields ]
  /\ to_hidl_codec_config_2_0(d).codecType = d.codecType
LEMMA CodecCases ==
  ASSUME NEW type, NEW d \in Codecs, IsOffloadCodecConfigurationValid(type, d)
  PROVE  \/ to_hidl_codec_config_2_0(d).codecType = "UNKNOWN"
         \/ /\ d.codecType = "SBC" /\ Converts(d, "sbcConfig", SbcFields)
            /\ IsOffloadSbcConfigurationValid(d.config)
            /\ to_hidl_codec_config_2_0(d).config = to_hidl_sbc_config(d.config.fields)
         \/ /\ d.codecType = "AAC" /\ Converts(d, "aacConfig", AacFields)
            /\ IsOffloadAacConfigurationValid(d.config)
            /\ to_hidl_codec_config_2_0(d).config = to_hidl_aac_config(d.config.fields)
         \/ /\ d.codecType = "LDAC" /\ Converts(d, "ldacConfig", LdacFields)
            /\ IsOffloadLdacConfigurationValid(d.config)
            /\ to_hidl_codec_config_2_0(d).config = to_hidl_ldac_config(d.config.fields)
         \/ /\ d.codecType \in {"APTX", "APTX_HD"} /\ Converts(d, "aptxConfig", PcmFields)
            /\ ValidAptx(d.config)
            /\ to_hidl_codec_config_2_0(d).config = to_hidl_aptx_config(d.config.fields)
<1>0. d.config \in CodecVariants
  BY DEF Codecs
<1>1. CASE d.codecType = "SBC" /\ IsOffloadSbcConfigurationValid(d.config)
  <2>1. d.config.tag = "sbcConfig"
    BY <1>1 DEF IsOffloadSbcConfigurationValid
  <2>2. d.config \in [ tag : {"sbcConfig"}, fields : SbcFields ]
    BY <1>0, <2>1 DEF CodecVariants
  <2> QED  BY <1>1, <2>1, <2>2, CodecNames DEF Converts, to_hidl_codec_config_2_0
<1>2. CASE d.codecType = "AAC" /\ IsOffloadAacConfigurationValid(d.config)
  <2>1. d.config.tag = "aacConfig"
    BY <1>2 DEF IsOffloadAacConfigurationValid
  <2>2. d.config \in [ tag : {"aacConfig"}, fields : AacFields ]
    BY <1>0, <2>1 DEF CodecVariants
  <2> QED  BY <1>2, <2>1, <2>2, CodecNames DEF Converts, to_hidl_codec_config_2_0
<1>3. CASE d.codecType = "LDAC" /\ IsOffloadLdacConfigurationValid(d.config)
  <2>1. d.config.tag = "ldacConfig"
    BY <1>3 DEF IsOffloadLdacConfigurationValid
  <2>2. d.config \in [ tag : {"ldacConfig"}, fields : LdacFields ]
    BY <1>0, <2>1 DEF CodecVariants
  <2> QED  BY <1>3, <2>1, <2>2, CodecNames DEF Converts, to_hidl_codec_config_2_0
<1>4. CASE d.codecType \in {"APTX", "APTX_HD"} /\ ValidAptx(d.config)
  <2>1. d.config.tag = "aptxConfig"
    BY <1>4 DEF ValidAptx, IsOffloadAptxConfigurationValid, IsOffloadAptxHdConfigurationValid
  <2>2. d.config \in [ tag : {"aptxConfig"}, fields : PcmFields ]
    BY <1>0, <2>1 DEF CodecVariants
  <2> QED  BY <1>4, <2>1, <2>2, CodecNames DEF Converts, to_hidl_codec_config_2_0
<1>5. CASE d.codecType = "OPUS"
  BY <1>5, CodecNames DEF to_hidl_codec_config_2_0
<1> QED  BY <1>1, <1>2, <1>3, <1>4, <1>5 DEF IsOffloadCodecConfigurationValid, ValidAptx

\* A codec configuration HIDL has a name for arrives whole.
LEMMA CodecConverts ==
  ASSUME NEW type, NEW c \in Codecs, IsOffloadCodecConfigurationValid(type, c),
         to_hidl_codec_config_2_0(c).codecType # "UNKNOWN"
  PROVE  /\ Unspoilt(to_hidl_codec_config_2_0(c).config)
         /\ \A d \in Codecs : IsOffloadCodecConfigurationValid(type, d) /\ d # c =>
              to_hidl_codec_config_2_0(d) # to_hidl_codec_config_2_0(c)
<1> USE DEF Converts
<1>1. Unspoilt(to_hidl_codec_config_2_0(c).config)
  BY CodecCases, SbcConverts, AacConverts, LdacConverts, AptxConverts
<1>2. ASSUME NEW d \in Codecs, IsOffloadCodecConfigurationValid(type, d),
             to_hidl_codec_config_2_0(d) = to_hidl_codec_config_2_0(c)
      PROVE  d = c
  <2>1. d.codecType = c.codecType
    BY <1>2, CodecCases
  <2>2. CASE c.codecType = "SBC"
    BY <1>2, <2>1, <2>2, CodecCases, SbcConverts DEF Codecs
  <2>3. CASE c.codecType = "AAC"
    BY <1>2, <2>1, <2>3, CodecCases, AacConverts DEF Codecs
  <2>4. CASE c.codecType = "LDAC"
    BY <1>2, <2>1, <2>4, CodecCases, LdacConverts DEF Codecs
  <2>5. CASE c.codecType \in {"APTX", "APTX_HD"}
    BY <1>2, <2>1, <2>5, CodecCases, AptxConverts DEF Codecs
  <2> QED  BY <2>2, <2>3, <2>4, <2>5, CodecCases
<1> QED  BY <1>1, <1>2

-----------------------------------------------------------------------------
\* What GetAudioConfig was given to convert is what the session still holds: the
\* next call comes after it has returned.  The session's type is one of HIDL's.
Held == IF IsSessionReady THEN Contents(GetAudioConfig) ELSE { DefaultContent(GetAudioConfig) }
Answer(version, content) ==
  [ version |-> version, tag |-> GetAudioConfig, content |-> content,
    hidl |-> IF version = "2_0" THEN to_hidl_audio_config_2_0(GetAudioConfig, content)
             ELSE to_hidl_audio_config_2_1(GetAudioConfig, content) ]
AnswerHeld ==
  got # None => \E version \in {"2_0", "2_1"}, content \in Held : got = Answer(version, content)
HidlTypes == { "A2DP_SOFTWARE_ENCODING", "A2DP_HARDWARE_OFFLOAD_ENCODING",
               "HEARING_AID_SOFTWARE_ENCODING", "LE_AUDIO_SOFTWARE_ENCODING",
               "LE_AUDIO_SOFTWARE_DECODING", "LE_AUDIO_HARDWARE_OFFLOAD_ENCODING",
               "LE_AUDIO_HARDWARE_OFFLOAD_DECODING" }
AnswerInv == session_type \in HidlTypes /\ AnswerHeld

LEMMA AnswerInitial == MiddlewareInit => AnswerInv
<1> SUFFICES ASSUME MiddlewareInit PROVE AnswerInv
  OBVIOUS
<1>1. got = None
  BY DEF MiddlewareInit
<1>2. session_type \in AllTypes
  BY SessionAssumption DEF MiddlewareInit, SessionInit
<1>3. PICK t \in LegacyTypes : session_type = from_session_type_2_1(t)
  BY DEF MiddlewareInit
<1>4. session_type \in HidlTypes \union {"UNKNOWN"}
  <2>1. CASE \E e \in session_type_2_1_to_aidl_map : e[1] = t
    <3>1. (CHOOSE e \in session_type_2_1_to_aidl_map : e[1] = t) \in session_type_2_1_to_aidl_map
      BY <2>1
    <3>2. \A e \in session_type_2_1_to_aidl_map : e[2] \in HidlTypes
      BY DEF session_type_2_1_to_aidl_map, HidlTypes
    <3> QED  BY <1>3, <2>1, <3>1, <3>2 DEF from_session_type_2_1, Find
  <2> QED  BY <1>3, <2>1 DEF from_session_type_2_1, Find
<1>5. "UNKNOWN" \notin AllTypes
  BY DEF AllTypes, SoftwareTypes, OffloadTypes, A2dpOffloadTypes, HfpOffloadTypes,
         LeUnicastTypes, LeBroadcastTypes
<1> QED  BY <1>1, <1>2, <1>4, <1>5 DEF AnswerInv, AnswerHeld

LEMMA AnswerStep ==
  ASSUME AnswerInv, [MiddlewareNext]_middlewareVars
  PROVE  AnswerInv'
<1>1. ASSUME UNCHANGED << sessionVars, got >> PROVE AnswerInv'
  BY <1>1 DEF AnswerInv, AnswerHeld, Answer, Held, Contents, IsSessionReady, GetAudioConfig,
              sessionVars
<1>2. ASSUME got' = None, session_type' = session_type PROVE AnswerInv'
  BY <1>2 DEF AnswerInv, AnswerHeld
<1>3. CASE got = None /\ StackStep
  <2>1. got' = None
    BY <1>3 DEF StackStep, middlewareOnly
  <2>2. session_type' = session_type
    BY <1>3 DEF StackStep, OnSessionStarted, OnSessionEnded, Report, ReportControlStatus,
       ReportAudioConfigChanged, ReportLowLatencyModeAllowedChanged, StackTakes
  <2> QED  BY <1>2, <2>1, <2>2
<1>4. CASE got = None /\ CallbackStep
  <2>1. got' = None /\ session_type' = session_type
    BY <1>4 DEF CallbackStep, InvokeCallback, UnknownCallback, NoCallback, CallbackReturns,
       Callback, middlewareOnly, sessionVars
  <2> QED  BY <1>2, <2>1
<1>5. ASSUME NEW p \in Ports, got = None, PortStep(p) PROVE AnswerInv'
  <2>1. ASSUME NEW version \in {"2_0", "2_1"}, GetAudioConfigAs(p, version) PROVE AnswerInv'
    <3>1. UNCHANGED sessionVars
      BY <2>1 DEF GetAudioConfigAs
    <3>2. \E content \in Held : got' = Answer(version, content)
      BY <2>1 DEF GetAudioConfigAs, Held, Answer
    <3>3. /\ session_type' = session_type /\ Held' = Held
          /\ \A content : Answer(version, content)' = Answer(version, content)
      BY <3>1 DEF Held, Contents, Answer, IsSessionReady, GetAudioConfig, sessionVars
    <3>4. \E content \in Held' : got' = Answer(version, content)'
      BY <3>2, <3>3
    <3> QED  BY <3>3, <3>4 DEF AnswerInv, AnswerHeld
  <2>2. CASE ~\E version \in {"2_0", "2_1"} : GetAudioConfigAs(p, version)
    <3>1. got' = None /\ session_type' = session_type
      BY <1>5, <2>2 DEF PortStep, RegisterControlResultCback, RegisterStatusCback, FileCallbacks,
         UnregisterControlResultCback, UnregisterStatusCback, EraseCallbacks, ForwardStream,
         StreamCall, middlewareOnly, sessionVars
    <3> QED  BY <1>2, <3>1
  <2> QED  BY <2>1, <2>2
<1>6. CASE Answered
  BY <1>2, <1>6 DEF Answered, sessionVars
<1>7. CASE UNCHANGED middlewareVars
  BY <1>1, <1>7 DEF middlewareVars, middlewareOnly
<1> QED  BY <1>3, <1>4, <1>5, <1>6, <1>7 DEF MiddlewareNext

\* The variant an answer was made from fits the session's type, and its content is
\* what a provider accepted or, before the session is ready, the default.
LEMMA AnswerFacts ==
  ASSUME AnswerInv, ConfigFitsType, got # None
  PROVE  /\ \/ /\ session_type \in SoftwareTypes /\ got.tag = "pcmConfig"
               /\ got.hidl = to_hidl_pcm_config(got.content)
            \/ /\ session_type \in A2dpOffloadTypes /\ got.tag = "a2dpConfig"
               /\ got.hidl = to_hidl_codec_config_2_0(got.content)
            \/ /\ session_type \in A2dpOffloadTypes /\ got.tag = "a2dp"
               /\ got.hidl = UnsetConfig
            \/ /\ session_type \in LeUnicastTypes /\ got.tag = "leAudioConfig"
               /\ got.hidl \in {Aborted, UnsetConfig}
         /\ got.content \in Held /\ got.tag = GetAudioConfig
<1>1. PICK version \in {"2_0", "2_1"}, content \in Held : got = Answer(version, content)
  BY DEF AnswerInv, AnswerHeld
<1>2. /\ got.tag = GetAudioConfig /\ got.content = content
      /\ got.hidl = IF version = "2_0" THEN to_hidl_audio_config_2_0(got.tag, content)
                    ELSE to_hidl_audio_config_2_1(got.tag, content)
  BY <1>1 DEF Answer
<1>3. \/ session_type \in SoftwareTypes /\ got.tag = "pcmConfig"
      \/ session_type \in A2dpOffloadTypes /\ got.tag \in {"a2dp", "a2dpConfig"}
      \/ session_type \in LeUnicastTypes /\ got.tag = "leAudioConfig"
  BY <1>2 DEF AnswerInv, HidlTypes, ConfigFitsType, TagFits, HfpOffloadTypes, LeBroadcastTypes
<1>4. to_hidl_leaudio_config_2_1(content) = Aborted
  BY DEF to_hidl_leaudio_config_2_1
<1> QED  BY <1>2, <1>3, <1>4 DEF to_hidl_audio_config_2_0, to_hidl_audio_config_2_1

\* PCM configurations arrive as the stack gave them, and anything else as none.
LEMMA PcmAlwaysArrives == AnswerInv /\ ConfigFitsType => PcmArrives
<1> SUFFICES ASSUME AnswerInv, ConfigFitsType, got # None, got.hidl # Aborted
             PROVE  LoadAudioConfig(got.hidl) =
                      IF got.tag = "pcmConfig" /\ IsSoftwarePcmConfigurationValid(got.content)
                      THEN got.content ELSE None
  BY DEF PcmArrives
<1>1. CASE got.tag = "pcmConfig"
  <2>1. got.hidl = to_hidl_pcm_config(got.content)
    BY <1>1, AnswerFacts
  <2>2. CASE IsSessionReady
    <3>1. got.content \in PcmContents /\ IsSoftwarePcmConfigurationValid(got.content)
      BY <1>1, <2>2, AnswerFacts DEF Held, Contents
    <3> QED  BY <1>1, <2>1, <3>1, PcmConverts, ContentsAssumption
  <2>3. CASE ~IsSessionReady
    <3>1. got.content = [ sampleRateHz |-> 0, channelMode |-> "UNKNOWN", bitsPerSample |-> 0 ]
      BY <1>1, <2>3, AnswerFacts DEF Held, DefaultContent
    <3>2. ~IsSoftwarePcmConfigurationValid(got.content)
      BY <3>1 DEF IsSoftwarePcmConfigurationValid, Contained, kDefaultSoftwarePcmCapabilities
    <3>3. LoadAudioConfig(got.hidl) = None
      BY <2>1, <3>1, RatesConvert DEF LoadAudioConfig, to_hidl_pcm_config
    <3> QED  BY <3>2, <3>3
  <2> QED  BY <2>2, <2>3
<1>2. CASE got.tag # "pcmConfig"
  <2>1. got.hidl = UnsetConfig \/ got.hidl = to_hidl_codec_config_2_0(got.content)
    BY <1>2, AnswerFacts
  <2>2. LoadAudioConfig(got.hidl) = None
    BY <2>1 DEF LoadAudioConfig, UnsetConfig, to_hidl_codec_config_2_0
  <2> QED  BY <1>2, <2>2
<1> QED  BY <1>1, <1>2

\* No two codec configurations look alike to a HIDL port.
LEMMA CodecAlwaysArrives == AnswerInv /\ ConfigFitsType => CodecArrives
<1> SUFFICES ASSUME AnswerInv, ConfigFitsType, got # None, got.tag = "a2dpConfig", IsSessionReady,
                    got.hidl.codecType # "UNKNOWN"
             PROVE  /\ Unspoilt(got.hidl.config)
                    /\ \A other \in Contents("a2dpConfig") \ {got.content} :
                         to_hidl_codec_config_2_0(other) # got.hidl
  BY DEF CodecArrives, Unspoilt, Spoilt
<1>1. got.hidl = to_hidl_codec_config_2_0(got.content) /\ got.content \in Contents("a2dpConfig")
  BY AnswerFacts DEF Held
<1>2. \A c \in Contents("a2dpConfig") :
        c \in Codecs /\ IsOffloadCodecConfigurationValid(session_type, c)
  BY ContentsAssumption DEF Contents, Codecs
<1> QED  BY <1>1, <1>2, CodecConverts

\* Only the configuration of an LE unicast offload session ends the process.
LEMMA RarelyAborts == AnswerInv /\ ConfigFitsType => AbortsOnlyLeOffload
<1>1. to_hidl_pcm_config(got.content) # Aborted
  BY DEF to_hidl_pcm_config, Aborted
<1>2. to_hidl_codec_config_2_0(got.content) # Aborted
  BY DEF to_hidl_codec_config_2_0, Aborted
<1>3. UnsetConfig # Aborted
  BY DEF UnsetConfig, Aborted
<1> QED  BY <1>1, <1>2, <1>3, AnswerFacts DEF AbortsOnlyLeOffload

\* What the session holds arrives at a HIDL port through the chain of conversions
\* (to_hidl_audio_config_2_0 and _2_1, LoadAudioConfig): PCM and codec configurations
\* keep every field, and only an LE unicast offload session aborts the process; for
\* all configurations a stack may start a session with.
THEOREM AlwaysConfigArrives == MiddlewareSpec => []ConfigArrives
<1>1. AnswerInv /\ [MiddlewareNext]_middlewareVars => AnswerInv'
  BY AnswerStep
<1>2. AnswerInv /\ ConfigFitsType => ConfigArrives
  BY PcmAlwaysArrives, CodecAlwaysArrives, RarelyAborts DEF ConfigArrives
<1>3. MiddlewareSpec => []ConfigFitsType
  BY MiddlewareImplementsSession, ConfigAlwaysFits
<1> QED  BY <1>1, <1>2, <1>3, AnswerInitial, PTL DEF MiddlewareSpec

-----------------------------------------------------------------------------
(* The A2DP offload codecs.                                                *)

\* The search for the first element of a sequence (SelectInSeq) takes the minimum of a
\* set of positions: a non-empty set of naturals has one.
LEMMA MinOfNaturals ==
  ASSUME NEW S \in SUBSET Nat, S # {}
  PROVE  Min(S) \in S /\ \A j \in S : Min(S) <= j
<1>1. \E x \in S : \A y \in S : ~(<< y, x >> \in OpToRel(<, Nat))
  BY NatLessThanWellFounded, WFMin
<1>2. \A x, y \in S : << y, x >> \in OpToRel(<, Nat)
                        <=> << y, x >> \in Nat \X Nat /\ << y, x >>[1] < << y, x >>[2]
  BY Zenon DEF OpToRel
<1>3. PICK x \in S : \A y \in S : ~(<< y, x >> \in Nat \X Nat /\ << y, x >>[1] < << y, x >>[2])
  BY <1>1, <1>2, Zenon
<1>4. ASSUME NEW y \in S PROVE x <= y
  <2>1. x \in Nat /\ y \in Nat
    OBVIOUS
  <2>2. << y, x >> \in Nat \X Nat
    BY <2>1
  <2>3. ~(<< y, x >>[1] < << y, x >>[2])
    BY <1>3, <2>2, Zenon
  <2> QED BY <2>1, <2>3
<1> QED BY <1>4 DEF Min

\* What Select picks is common to both sides or nothing, and a hint both sides have is
\* picked.
LEMMA SelectCommon ==
  ASSUME NEW hint, NEW order, Len(order) \in Nat, NEW lcaps, NEW rcaps
  PROVE  /\ Select(hint, order, lcaps, rcaps) \in (lcaps \intersect rcaps) \cup {NoValue}
         /\ hint \in lcaps \intersect rcaps => Select(hint, order, lcaps, rcaps) = hint
<1> DEFINE both == lcaps \intersect rcaps
           I == { i \in 1 .. Len(order) : order[i] \in both }
<1>1. I \in SUBSET Nat
  OBVIOUS
<1>2. I # {} => Min(I) \in I
  BY <1>1, MinOfNaturals
<1>3. SelectInSeq(order, LAMBDA b : b \in both) = IF I # {} THEN Min(I) ELSE 0
  BY DEF SelectInSeq
<1> QED BY <1>2, <1>3 DEF Select

\* A field with one bit set has that bit as its active bit.
LEMMA FindOneBit == ASSUME NEW b PROVE find_active_bit({b}) = b
BY DEF find_active_bit

\* The divisions of GetFrameSize and GetBitrate keep the order of naturals.
LEMMA DivisionMonotone ==
  ASSUME NEW x \in Nat, NEW y \in Nat, x <= y, NEW d \in {8, 16, 32, 48, 64, 96, 128}
  PROVE  x \div d \in Nat /\ y \div d \in Nat /\ x \div d <= y \div d
<1>1. CASE d = 8 BY <1>1
<1>2. CASE d = 16 BY <1>2
<1>3. CASE d = 32 BY <1>3
<1>4. CASE d = 48 BY <1>4
<1>5. CASE d = 64 BY <1>5
<1>6. CASE d = 96 BY <1>6
<1>7. CASE d = 128 BY <1>7
<1> QED BY <1>1, <1>2, <1>3, <1>4, <1>5, <1>6, <1>7

\* The fields GetBitrate reads have one bit each, and one of the local capabilities.
OneSbc(config) ==
  /\ \E b \in {44100, 48000} : config.sampling_frequency = {b}
  /\ \E b \in {4, 8, 12, 16} : config.block_length = {b}
  /\ \E b \in {4, 8} : config.subbands = {b}

\* A frame does not get smaller with a larger bitpool.
LEMMA FrameSizeMonotone ==
  ASSUME NEW config, OneSbc(config), NEW p \in Nat, NEW q \in Nat, p <= q
  PROVE  /\ GetFrameSize(config, p) \in Nat
         /\ GetFrameSize(config, q) \in Nat
         /\ GetFrameSize(config, p) <= GetFrameSize(config, q)
<1>1. PICK bl \in {4, 8, 12, 16} : config.block_length = {bl}
  BY DEF OneSbc
<1>2. PICK sb \in {4, 8} : config.subbands = {sb}
  BY DEF OneSbc
<1> DEFINE mono == IF "MONO" \in config.channel_mode THEN 1 ELSE 2
           dual == IF "DUAL" \in config.channel_mode THEN 2 ELSE 1
           joint == IF "JOINT" \in config.channel_mode THEN sb ELSE 0
           bits(n) == 4 * sb * mono + bl * n * dual + joint
<1>3. ASSUME NEW n \in Nat PROVE GetFrameSize(config, n) = 4 + (bits(n) + 7) \div 8
  BY <1>1, <1>2, FindOneBit DEF GetFrameSize
<1>4. mono \in {1, 2} /\ dual \in {1, 2} /\ joint \in {0, 4, 8}
  OBVIOUS
<1> HIDE DEF mono, dual, joint
<1>5. bits(p) + 7 \in Nat /\ bits(q) + 7 \in Nat /\ bits(p) + 7 <= bits(q) + 7
  <2>1. 4 * sb * mono \in Nat
    BY <1>4
  <2>2. ASSUME NEW b \in {4, 8, 12, 16} PROVE b * p * dual \in Nat /\ b * q * dual \in Nat /\ b * p * dual <= b * q * dual
    <3>1. CASE dual = 1
      BY <3>1
    <3>2. CASE dual = 2
      BY <3>2
    <3> QED BY <3>1, <3>2, <1>4
  <2> QED BY <2>1, <2>2, <1>4
<1> HIDE DEF bits
<1> QED BY <1>3, <1>5, DivisionMonotone

\* Nor does the bit rate, whatever the channel mode.
LEMMA BitrateMonotone ==
  ASSUME NEW config, OneSbc(config), NEW p \in Nat, NEW q \in Nat, p <= q
  PROVE  /\ GetBitrate(config, p) \in Nat
         /\ GetBitrate(config, q) \in Nat
         /\ GetBitrate(config, p) <= GetBitrate(config, q)
<1>1. PICK sf \in {44100, 48000} : config.sampling_frequency = {sf}
  BY DEF OneSbc
<1>2. PICK bl \in {4, 8, 12, 16} : config.block_length = {bl}
  BY DEF OneSbc
<1>3. PICK sb \in {4, 8} : config.subbands = {sb}
  BY DEF OneSbc
<1>4. ASSUME NEW n \in Nat
      PROVE  GetBitrate(config, n) = (8 * GetFrameSize(config, n) * sf) \div (bl * sb)
  <2>1. /\ find_active_bit(config.sampling_frequency) = sf
        /\ find_active_bit(config.block_length) = bl
        /\ find_active_bit(config.subbands) = sb
    BY <1>1, <1>2, <1>3 DEF find_active_bit
  <2> DEFINE PerFrame(f, s, b, w) == (8 * f * s) \div (b * w)
  <2>2. GetBitrate(config, n) = PerFrame(GetFrameSize(config, n), find_active_bit(config.sampling_frequency),
                 find_active_bit(config.block_length), find_active_bit(config.subbands))
    BY DEF GetBitrate
  <2> HIDE DEF PerFrame
  <2>3. GetBitrate(config, n) = PerFrame(GetFrameSize(config, n), sf, bl, sb)
    BY <2>1, <2>2
  <2> QED BY <2>3 DEF PerFrame
<1> DEFINE x == 8 * GetFrameSize(config, p) * sf
           y == 8 * GetFrameSize(config, q) * sf
<1>5. x \in Nat /\ y \in Nat /\ x <= y
  BY FrameSizeMonotone
<1>6. bl * sb \in {16, 32, 48, 64, 96, 128}
  OBVIOUS
<1> HIDE DEF x, y
<1>7. x \div (bl * sb) \in Nat /\ y \div (bl * sb) \in Nat /\ x \div (bl * sb) <= y \div (bl * sb)
  BY <1>5, <1>6, DivisionMonotone
<1> QED BY <1>4, <1>7 DEF x, y

\* After the step of size i of GetBitpool's search: the bit rate of the bitpool found so
\* far is below the hint, and that of the bitpool i above it, if it has 8 bits, is not.
SearchInv(config, rate, i, b) ==
  /\ b \in 0 .. 256 - i
  /\ b > 0 => GetBitrate(config, b) < rate
  /\ b + i < 256 => GetBitrate(config, b + i) >= rate

\* A step of the search halves the interval in which the answer lies.
LEMMA SearchStepHalves ==
  ASSUME NEW config, OneSbc(config), NEW rate \in Int, NEW i \in {1, 2, 4, 8, 16, 32, 64, 128},
         NEW b, SearchInv(config, rate, 2 * i, b)
  PROVE  SearchInv(config, rate, i, SearchStep(config, rate, i, b))
<1>1. b \in Nat /\ b <= 256 - 2 * i
  BY DEF SearchInv
<1>2. b + i \in Nat
  BY <1>1
<1>3. GetBitrate(config, b + i) \in Nat
  BY <1>2, BitrateMonotone
<1>4. CASE rate > GetBitrate(config, b + i)
  <2>1. SearchStep(config, rate, i, b) = b + i
    BY <1>4 DEF SearchStep
  <2>2. (b + i) + i = b + 2 * i /\ b + i \in 0 .. 256 - i
    BY <1>1
  <2>3. (b + i) + i < 256 => GetBitrate(config, (b + i) + i) >= rate
    BY <2>2 DEF SearchInv
  <2> QED BY <2>1, <2>2, <2>3, <1>3, <1>4 DEF SearchInv
<1>5. CASE ~(rate > GetBitrate(config, b + i))
  <2>1. SearchStep(config, rate, i, b) = b
    BY <1>5 DEF SearchStep
  <2>2. b \in 0 .. 256 - i
    BY <1>1
  <2>3. GetBitrate(config, b + i) >= rate
    BY <1>5, <1>3
  <2> QED BY <2>1, <2>2, <2>3 DEF SearchInv
<1> QED BY <1>4, <1>5

\* The eight steps leave an interval of one bitpool.
LEMMA SearchFinds ==
  ASSUME NEW config, OneSbc(config), NEW rate \in Int
  PROVE  SearchInv(config, rate, 1, BitpoolSearch(config, rate))
<1> DEFINE Step(i, b) == SearchStep(config, rate, i, b)
           Inv(i, b) == SearchInv(config, rate, i, b)
<1>0. Inv(2 * 128, 0)
  BY DEF SearchInv
<1>1. ASSUME NEW i \in {1, 2, 4, 8, 16, 32, 64, 128}, NEW b, Inv(2 * i, b)
      PROVE  Inv(i, Step(i, b))
  BY <1>1, SearchStepHalves
<1>2. 2 * 64 = 128 /\ 2 * 32 = 64 /\ 2 * 16 = 32 /\ 2 * 8 = 16 /\ 2 * 4 = 8 /\ 2 * 2 = 4 /\ 2 * 1 = 2
  OBVIOUS
<1> HIDE DEF Inv, Step
<1>3. Inv(128, Step(128, 0))
  BY <1>0, <1>1
<1> DEFINE b64 == Step(64, Step(128, 0))
           b32 == Step(32, b64)
           b16 == Step(16, b32)
           b8  == Step(8, b16)
           b4  == Step(4, b8)
           b2  == Step(2, b4)
<1>4. Inv(64, b64)
  BY <1>3, <1>2, <1>1
<1> HIDE DEF b64
<1>5. Inv(32, b32)
  BY <1>4, <1>2, <1>1
<1> HIDE DEF b32
<1>6. Inv(16, b16)
  BY <1>5, <1>2, <1>1
<1> HIDE DEF b16
<1>7. Inv(8, b8)
  BY <1>6, <1>2, <1>1
<1> HIDE DEF b8
<1>8. Inv(4, b4)
  BY <1>7, <1>2, <1>1
<1> HIDE DEF b4
<1>9. Inv(2, b2)
  BY <1>8, <1>2, <1>1
<1>10. b2 = EvenBitpool(config, rate)
  BY Zenon DEF b4, b8, b16, b32, b64, Step, EvenBitpool
<1> HIDE DEF b2
<1>11. Inv(1, Step(1, b2))
  BY <1>9, <1>2, <1>1
<1> QED BY <1>10, <1>11, Zenon DEF BitpoolSearch, Inv, Step

\* GetBitpool finds, within 2 to 250, the largest bitpool whose bit rate is below the
\* hint: the clamping is where the order of the bit rates is needed.
LEMMA GetBitpoolExact ==
  ASSUME NEW config, OneSbc(config), NEW rate \in Int
  PROVE  LET found == GetBitpool(config, rate)
         IN  /\ found \in 2 .. 250
             /\ found > 2   => GetBitrate(config, found) < rate
             /\ found < 250 => GetBitrate(config, found + 1) >= rate
<1> DEFINE raw == BitpoolSearch(config, rate)
           G(n) == GetBitrate(config, n)
           found == GetBitpool(config, rate)
<1>1. /\ raw \in 0 .. 255
      /\ raw > 0 => G(raw) < rate
      /\ raw < 255 => G(raw + 1) >= rate
  BY SearchFinds DEF SearchInv
<1>2. found = IF raw < 2 THEN 2 ELSE IF raw > 250 THEN 250 ELSE raw
  BY DEF GetBitpool, Clamp
<1>3. ASSUME NEW p \in Nat, NEW q \in Nat, p <= q
      PROVE  G(p) \in Nat /\ G(q) \in Nat /\ G(p) <= G(q)
  BY <1>3, BitrateMonotone
<1> HIDE DEF raw, G, found
<1>4. CASE raw < 2
  <2>1. G(raw + 1) <= G(3) /\ G(raw + 1) \in Nat /\ G(3) \in Nat
    BY <1>1, <1>3, <1>4
  <2>2. found = 2 /\ G(found + 1) >= rate
    BY <1>1, <1>2, <1>4, <2>1
  <2> QED BY <2>2 DEF found, G
<1>5. CASE raw > 250
  <2>1. G(250) <= G(raw) /\ G(raw) \in Nat /\ G(250) \in Nat
    BY <1>1, <1>3, <1>5
  <2>2. found = 250 /\ G(found) < rate
    BY <1>1, <1>2, <1>5, <2>1
  <2> QED BY <2>2 DEF found, G
<1>6. CASE raw \in 2 .. 250
  <2>1. found = raw
    BY <1>2, <1>6
  <2> QED BY <2>1, <1>1, <1>6 DEF found, G
<1> QED BY <1>1, <1>4, <1>5, <1>6

\* SBC.  Each field was chosen, from what both sides have.
ChosenSbc(s, rcaps) ==
  /\ s.sampling_frequency \in SbcCapabilities.sampling_frequency \intersect rcaps.sampling_frequency
  /\ s.channel_mode \in SbcCapabilities.channel_mode \intersect rcaps.channel_mode
  /\ s.block_length \in SbcCapabilities.block_length \intersect rcaps.block_length
  /\ s.subbands \in SbcCapabilities.subbands \intersect rcaps.subbands
  /\ s.allocation_method \in SbcCapabilities.allocation_method \intersect rcaps.allocation_method

\* The selection either leaves a field without a bit or takes all from both sides, and
\* follows the hinted sampling frequency where both sides have it.
LEMMA SbcSelectCommon ==
  ASSUME NEW rcaps, NEW hint
  PROVE  LET s == SbcSelect(rcaps, hint)
         IN  /\ (\A f \in DOMAIN s : s[f] # NoValue) => ChosenSbc(s, rcaps)
             /\ hint # NoValue /\ SbcGetSamplingFrequencyBit(hint.samplingFrequencyHz)
                    \in SbcCapabilities.sampling_frequency \intersect rcaps.sampling_frequency
                  => s.sampling_frequency = SbcGetSamplingFrequencyBit(hint.samplingFrequencyHz)
<1> DEFINE s == SbcSelect(rcaps, hint)
           l == SbcCapabilities
           sf_hint == IF hint = NoValue THEN NoValue
                      ELSE SbcGetSamplingFrequencyBit(hint.samplingFrequencyHz)
           cm_hint == IF hint = NoValue THEN NoValue ELSE SbcGetChannelModeBit(hint.channelMode)
           sf == Select(sf_hint, <<44100, 48000>>, l.sampling_frequency, rcaps.sampling_frequency)
           cm == Select(cm_hint, <<"JOINT", "STEREO", "DUAL", "MONO">>, l.channel_mode, rcaps.channel_mode)
           bl == Select(NoValue, <<16, 12, 8, 4>>, l.block_length, rcaps.block_length)
           sb == Select(NoValue, <<8, 4>>, l.subbands, rcaps.subbands)
           am == Select(NoValue, <<"LOUDNESS", "SNR">>, l.allocation_method, rcaps.allocation_method)
<1>1. s = [ sampling_frequency |-> sf, channel_mode |-> cm, block_length |-> bl,
            subbands |-> sb, allocation_method |-> am ]
  BY DEF SbcSelect
<1>2. /\ sf \in (l.sampling_frequency \intersect rcaps.sampling_frequency) \cup {NoValue}
      /\ sf_hint \in l.sampling_frequency \intersect rcaps.sampling_frequency => sf = sf_hint
  <2>1. Len(<<44100, 48000>>) \in Nat OBVIOUS
  <2> HIDE DEF l, sf_hint
  <2> QED BY <2>1, SelectCommon
<1>3. cm \in (l.channel_mode \intersect rcaps.channel_mode) \cup {NoValue}
  <2>1. Len(<<"JOINT", "STEREO", "DUAL", "MONO">>) \in Nat OBVIOUS
  <2> HIDE DEF l, cm_hint
  <2> QED BY <2>1, SelectCommon
<1>4. bl \in (l.block_length \intersect rcaps.block_length) \cup {NoValue}
  <2>1. Len(<<16, 12, 8, 4>>) \in Nat OBVIOUS
  <2> HIDE DEF l
  <2> QED BY <2>1, SelectCommon
<1>5. sb \in (l.subbands \intersect rcaps.subbands) \cup {NoValue}
  <2>1. Len(<<8, 4>>) \in Nat OBVIOUS
  <2> HIDE DEF l
  <2> QED BY <2>1, SelectCommon
<1>6. am \in (l.allocation_method \intersect rcaps.allocation_method) \cup {NoValue}
  <2>1. Len(<<"LOUDNESS", "SNR">>) \in Nat OBVIOUS
  <2> HIDE DEF l
  <2> QED BY <2>1, SelectCommon
<1> HIDE DEF sf, cm, bl, sb, am, s
<1>7. ASSUME \A f \in DOMAIN s : s[f] # NoValue PROVE ChosenSbc(s, rcaps)
  <2>1. sf # NoValue /\ cm # NoValue /\ bl # NoValue /\ sb # NoValue /\ am # NoValue
    BY <1>1, <1>7
  <2> HIDE DEF l
  <2>2. /\ s.sampling_frequency \in l.sampling_frequency \intersect rcaps.sampling_frequency
        /\ s.channel_mode \in l.channel_mode \intersect rcaps.channel_mode
        /\ s.block_length \in l.block_length \intersect rcaps.block_length
        /\ s.subbands \in l.subbands \intersect rcaps.subbands
        /\ s.allocation_method \in l.allocation_method \intersect rcaps.allocation_method
    BY <1>1, <2>1, <1>2, <1>3, <1>4, <1>5, <1>6
  <2> QED BY <2>2 DEF ChosenSbc, l
<1>8. s.sampling_frequency = sf
  BY <1>1
<1> QED BY <1>2, <1>7, <1>8 DEF s

\* The bitpool range is made of legal bitpools, and a sound hint sets its maximum.
LEMMA SbcBitpoolsRange ==
  ASSUME NEW config, OneSbc(config), NEW rcaps, NEW hint \in {NoValue} \cup HintParameters
  PROVE  LET bp == SbcBitpools(config, rcaps, hint)
         IN  /\ bp.min \in 2 .. 250
             /\ bp.max \in 2 .. 250
             /\ hint # NoValue /\ hint.maxBitrate > 0 /\ hint.maxBitrate >= hint.minBitrate
                  => bp.max = GetBitpool(config, hint.maxBitrate)
<1> DEFINE bp == SbcBitpools(config, rcaps, hint)
           Sane == /\ rcaps.min_bitpool \in 2 .. 250
                   /\ rcaps.max_bitpool \in 2 .. 250
                   /\ rcaps.min_bitpool <= rcaps.max_bitpool
           min == Larger(IF Sane THEN rcaps.min_bitpool ELSE 2, 2)
           max == Larger(IF Sane THEN rcaps.max_bitpool ELSE 250, 250)
           bound == hint.maxBitrate # 0 /\ hint.maxBitrate >= hint.minBitrate
<1>1. /\ bp.min = IF hint = NoValue THEN min ELSE Larger(min, GetBitpool(config, hint.minBitrate))
      /\ bp.max = IF hint # NoValue /\ bound THEN Smaller(max, GetBitpool(config, hint.maxBitrate))
                  ELSE max
  BY DEF SbcBitpools, SbcCapabilities
<1>2. min \in 2 .. 250 /\ max = 250
  BY DEF Larger
<1> HIDE DEF min, max, bp
<1>3. CASE hint = NoValue
  BY <1>1, <1>2, <1>3 DEF bp
<1>4. CASE hint # NoValue
  <2>1. hint \in HintParameters
    BY <1>4
  <2>2. hint.minBitrate \in Int /\ hint.maxBitrate \in Int
    BY <2>1 DEF HintParameters
  <2>3. /\ GetBitpool(config, hint.minBitrate) \in 2 .. 250
        /\ GetBitpool(config, hint.maxBitrate) \in 2 .. 250
    BY <2>2, GetBitpoolExact
  <2>4. bp.min \in 2 .. 250 /\ bp.max \in 2 .. 250
    BY <1>1, <1>2, <2>3 DEF Larger, Smaller
  <2>5. hint.maxBitrate > 0 /\ hint.maxBitrate >= hint.minBitrate
          => bp.max = GetBitpool(config, hint.maxBitrate)
    BY <1>1, <1>2, <1>4, <2>2, <2>3 DEF Smaller
  <2> QED BY <2>4, <2>5 DEF bp
<1> QED BY <1>3, <1>4

\* A parser that finds nothing wrong returns OK.
LEMMA NoFault ==
  ASSUME NEW checks, \A i \in 1 .. Len(checks) : ~checks[i][1]
  PROVE  FirstFault(checks) = Ok
<1>1. { i \in 1 .. Len(checks) : checks[i][1] } = {}
  OBVIOUS
<1>2. SelectInSeq(checks, LAMBDA check : check[1]) = 0
  BY <1>1 DEF SelectInSeq
<1> QED BY <1>2 DEF FirstFault

\* The octets BuildConfiguration writes for a selection.
BuiltSbc(c, s) ==
  c = [ size |-> SbcSize,
        bits |-> [ sampling_frequency |-> {s.sampling_frequency},
                   channel_mode       |-> {s.channel_mode},
                   block_length       |-> {s.block_length},
                   subbands           |-> {s.subbands},
                   allocation_method  |-> {s.allocation_method},
                   min_bitpool        |-> c.bits.min_bitpool,
                   max_bitpool        |-> c.bits.max_bitpool ] ]

\* What SBC's BuildConfiguration returns when it returns true.
LEMMA SbcBuilt ==
  ASSUME NEW remote, NEW hint \in {NoValue} \cup HintParameters,
         SbcBuildConfiguration(remote, hint) # NoValue
  PROVE  LET c == SbcBuildConfiguration(remote, hint)
             s == SbcSelect(remote.bits, hint)
         IN  /\ ChosenSbc(s, remote.bits)
             /\ BuiltSbc(c, s)
             /\ OneSbc(c.bits)
             /\ c.bits.min_bitpool \in 2 .. 250
             /\ c.bits.max_bitpool \in 2 .. 250
             /\ hint # NoValue /\ hint.maxBitrate > 0 /\ hint.maxBitrate >= hint.minBitrate
                  => \/ c.bits.max_bitpool = 2
                     \/ GetBitrate(c.bits, c.bits.max_bitpool) < hint.maxBitrate
<1> DEFINE c == SbcBuildConfiguration(remote, hint)
           s == SbcSelect(remote.bits, hint)
           config == [ sampling_frequency |-> {s.sampling_frequency},
                       channel_mode       |-> {s.channel_mode},
                       block_length       |-> {s.block_length},
                       subbands           |-> {s.subbands},
                       allocation_method  |-> {s.allocation_method},
                       min_bitpool        |-> 0,
                       max_bitpool        |-> 0 ]
           bp == SbcBitpools(config, remote.bits, hint)
<1>1. /\ ~(\E f \in DOMAIN s : s[f] = NoValue)
      /\ c = [ size |-> SbcSize,
               bits |-> [config EXCEPT !.min_bitpool = SetRange(8, bp.min),
                                       !.max_bitpool = SetRange(8, bp.max)] ]
  <2> HIDE DEF s
  <2> QED BY Zenon DEF SbcBuildConfiguration, s
<1> HIDE DEF s, c, bp
<1>2. ChosenSbc(s, remote.bits)
  BY <1>1, SbcSelectCommon DEF s
<1>3. /\ s.sampling_frequency \in {44100, 48000}
      /\ s.block_length \in {4, 8, 12, 16}
      /\ s.subbands \in {4, 8}
  BY <1>2 DEF ChosenSbc, SbcCapabilities
<1>4. OneSbc(config)
  BY <1>3 DEF OneSbc
<1> HIDE DEF config
<1>5. /\ bp.min \in 2 .. 250
      /\ bp.max \in 2 .. 250
      /\ hint # NoValue /\ hint.maxBitrate > 0 /\ hint.maxBitrate >= hint.minBitrate
           => bp.max = GetBitpool(config, hint.maxBitrate)
  BY <1>4, SbcBitpoolsRange DEF bp
<1>6. SetRange(8, bp.min) = bp.min /\ SetRange(8, bp.max) = bp.max
  <2>1. 2^8 = 256
    OBVIOUS
  <2>2. \A v \in 2 .. 250 : v % 256 = v
    OBVIOUS
  <2> QED BY <1>5, <2>1, <2>2 DEF SetRange
<1>7. c = [ size |-> SbcSize,
            bits |-> [ sampling_frequency |-> {s.sampling_frequency},
                       channel_mode       |-> {s.channel_mode},
                       block_length       |-> {s.block_length},
                       subbands           |-> {s.subbands},
                       allocation_method  |-> {s.allocation_method},
                       min_bitpool        |-> bp.min,
                       max_bitpool        |-> bp.max ] ]
  BY <1>1, <1>6 DEF config
<1>8. BuiltSbc(c, s) /\ c.bits.min_bitpool = bp.min /\ c.bits.max_bitpool = bp.max
  BY <1>7 DEF BuiltSbc
<1>9. OneSbc(c.bits)
  BY <1>3, <1>7 DEF OneSbc
<1>10. ASSUME NEW n PROVE GetBitrate(c.bits, n) = GetBitrate(config, n)
  <2>1. /\ c.bits.sampling_frequency = config.sampling_frequency
        /\ c.bits.channel_mode = config.channel_mode
        /\ c.bits.block_length = config.block_length
        /\ c.bits.subbands = config.subbands
    BY <1>7 DEF config
  <2>2. GetFrameSize(c.bits, n) = GetFrameSize(config, n)
    BY <2>1, Zenon DEF GetFrameSize
  <2> QED BY <2>1, <2>2, Zenon DEF GetBitrate
<1>11. ASSUME hint # NoValue, hint.maxBitrate > 0, hint.maxBitrate >= hint.minBitrate
       PROVE  c.bits.max_bitpool = 2 \/ GetBitrate(c.bits, c.bits.max_bitpool) < hint.maxBitrate
  <2>1. hint.maxBitrate \in Int
    BY <1>11 DEF HintParameters
  <2>2. c.bits.max_bitpool = GetBitpool(config, hint.maxBitrate)
    BY <1>5, <1>8, <1>11
  <2>3. c.bits.max_bitpool > 2 => GetBitrate(config, c.bits.max_bitpool) < hint.maxBitrate
    BY <2>1, <2>2, <1>4, GetBitpoolExact
  <2> QED BY <2>3, <1>10, <1>8, <1>5
<1> QED BY <1>2, <1>8, <1>9, <1>5, <1>11 DEF c, s

\* ParseConfiguration finds no fault with it.
LEMMA SbcBuiltParses ==
  ASSUME NEW s, NEW rcaps, ChosenSbc(s, rcaps), NEW c, BuiltSbc(c, s),
         c.bits.min_bitpool \in 2 .. 250, c.bits.max_bitpool \in 2 .. 250
  PROVE  FirstFault(SbcChecks(c.size, c.bits)) = Ok
<1> DEFINE checks == SbcChecks(c.size, c.bits)
<1>1. /\ c.size = SbcSize
      /\ c.bits.sampling_frequency = {s.sampling_frequency}
      /\ c.bits.channel_mode = {s.channel_mode}
      /\ c.bits.block_length = {s.block_length}
      /\ c.bits.subbands = {s.subbands}
      /\ c.bits.allocation_method = {s.allocation_method}
  BY DEF BuiltSbc
<1>2. /\ s.sampling_frequency \in SbcCapabilities.sampling_frequency
      /\ s.channel_mode \in SbcCapabilities.channel_mode
      /\ s.block_length \in SbcCapabilities.block_length
      /\ s.subbands \in SbcCapabilities.subbands
      /\ s.allocation_method \in SbcCapabilities.allocation_method
  BY DEF ChosenSbc
<1>3. /\ s.sampling_frequency # NoValue
      /\ s.channel_mode # NoValue
      /\ s.block_length # NoValue
      /\ s.subbands # NoValue
      /\ s.allocation_method # NoValue
  <2>1. /\ s.sampling_frequency \in Int
        /\ s.block_length \in Int
        /\ s.subbands \in Int
    BY <1>2 DEF SbcCapabilities
  <2>2. /\ s.channel_mode \in {"MONO", "DUAL", "STEREO", "JOINT"}
        /\ s.allocation_method \in {"SNR", "LOUDNESS"}
    BY <1>2 DEF SbcCapabilities
  <2> QED BY <2>1, <2>2, NoValueAssumption
<1>4. /\ find_active_bit(c.bits.sampling_frequency) = s.sampling_frequency
      /\ find_active_bit(c.bits.channel_mode) = s.channel_mode
      /\ find_active_bit(c.bits.block_length) = s.block_length
      /\ find_active_bit(c.bits.subbands) = s.subbands
      /\ find_active_bit(c.bits.allocation_method) = s.allocation_method
  BY <1>1 DEF find_active_bit
<1>5. SbcCapabilities.min_bitpool = 2 /\ SbcCapabilities.max_bitpool = 250
  BY DEF SbcCapabilities
<1>6. Len(checks) = 14
  BY DEF SbcChecks
<1>7. \A i \in 1 .. 14 : ~checks[i][1]
  <2>1. ~checks[1][1] /\ ~checks[2][1] /\ ~checks[3][1] /\ ~checks[4][1] /\ ~checks[5][1]
    BY <1>1, <1>2, <1>3, <1>4 DEF SbcChecks, NotOneBit, NotLocal
  <2>2. ~checks[6][1] /\ ~checks[7][1] /\ ~checks[8][1] /\ ~checks[9][1] /\ ~checks[10][1]
    BY <1>1, <1>2, <1>3, <1>4 DEF SbcChecks, NotOneBit, NotLocal
  <2>3. /\ checks[11][1] <=> c.bits.min_bitpool < 2 \/ c.bits.min_bitpool > 250
        /\ checks[12][1] <=> c.bits.min_bitpool < SbcCapabilities.min_bitpool
        /\ checks[13][1] <=> c.bits.max_bitpool < 2 \/ c.bits.max_bitpool > 250
        /\ checks[14][1] <=> c.bits.max_bitpool > SbcCapabilities.max_bitpool
    BY DEF SbcChecks
  <2>4. ~checks[11][1] /\ ~checks[12][1] /\ ~checks[13][1] /\ ~checks[14][1]
    <3> HIDE DEF checks
    <3> QED BY <2>3, <1>5
  <2> HIDE DEF checks
  <2> QED BY <2>1, <2>2, <2>4
<1> QED BY <1>6, <1>7, NoFault

\* AAC, the same way.
ChosenAac(s, rcaps) ==
  /\ s.object_type \in AacCapabilities.object_type \intersect rcaps.object_type
  /\ s.sampling_frequency \in AacCapabilities.sampling_frequency \intersect rcaps.sampling_frequency
  /\ s.channels \in AacCapabilities.channels \intersect rcaps.channels

\* The selection takes all fields from both sides or leaves one without a bit, and
\* follows the hinted sampling frequency.
LEMMA AacSelectCommon ==
  ASSUME NEW rcaps, NEW hint
  PROVE  LET s == AacSelect(rcaps, hint)
         IN  /\ (\A f \in DOMAIN s : s[f] # NoValue) => ChosenAac(s, rcaps)
             /\ hint # NoValue /\ AacGetSamplingFrequencyBit(hint.samplingFrequencyHz)
                    \in AacCapabilities.sampling_frequency \intersect rcaps.sampling_frequency
                  => s.sampling_frequency = AacGetSamplingFrequencyBit(hint.samplingFrequencyHz)
<1> DEFINE s == AacSelect(rcaps, hint)
           l == AacCapabilities
           sf_hint == IF hint = NoValue THEN NoValue
                      ELSE AacGetSamplingFrequencyBit(hint.samplingFrequencyHz)
           ch_hint == IF hint = NoValue THEN NoValue ELSE GetChannelsBit(hint.channelMode)
           ot == Select(NoValue, <<"MPEG2_LC", "MPEG4_LC">>, l.object_type, rcaps.object_type)
           sf == Select(sf_hint, <<96000, 88200, 48000, 44100>>,
                        l.sampling_frequency, rcaps.sampling_frequency)
           ch == Select(ch_hint, <<2, 1>>, l.channels, rcaps.channels)
<1>1. s = [ object_type |-> ot, sampling_frequency |-> sf, channels |-> ch ]
  BY DEF AacSelect
<1>2. ot \in (l.object_type \intersect rcaps.object_type) \cup {NoValue}
  <2>1. Len(<<"MPEG2_LC", "MPEG4_LC">>) \in Nat OBVIOUS
  <2> HIDE DEF l
  <2> QED BY <2>1, SelectCommon
<1>3. /\ sf \in (l.sampling_frequency \intersect rcaps.sampling_frequency) \cup {NoValue}
      /\ sf_hint \in l.sampling_frequency \intersect rcaps.sampling_frequency => sf = sf_hint
  <2>1. Len(<<96000, 88200, 48000, 44100>>) \in Nat OBVIOUS
  <2> HIDE DEF l, sf_hint
  <2> QED BY <2>1, SelectCommon
<1>4. ch \in (l.channels \intersect rcaps.channels) \cup {NoValue}
  <2>1. Len(<<2, 1>>) \in Nat OBVIOUS
  <2> HIDE DEF l, ch_hint
  <2> QED BY <2>1, SelectCommon
<1> HIDE DEF ot, sf, ch, s
<1>5. ASSUME \A f \in DOMAIN s : s[f] # NoValue PROVE ChosenAac(s, rcaps)
  <2>1. ot # NoValue /\ sf # NoValue /\ ch # NoValue
    BY <1>1, <1>5
  <2> HIDE DEF l
  <2>2. /\ s.object_type \in l.object_type \intersect rcaps.object_type
        /\ s.sampling_frequency \in l.sampling_frequency \intersect rcaps.sampling_frequency
        /\ s.channels \in l.channels \intersect rcaps.channels
    BY <1>1, <2>1, <1>2, <1>3, <1>4
  <2> QED BY <2>2 DEF ChosenAac, l
<1>6. s.sampling_frequency = sf
  BY <1>1
<1> QED BY <1>3, <1>5, <1>6 DEF s

\* Writing a number to a range of bits does not make it larger.
LEMMA RemainderBound ==
  ASSUME NEW n \in Nat, NEW k \in Nat, k > 0
  PROVE  n % k \in 0 .. k - 1 /\ n % k <= n
OBVIOUS

\* The octets BuildConfiguration writes for a selection.
BuiltAac(c, s) ==
  c = [ size |-> AacSize,
        bits |-> [ object_type        |-> {s.object_type},
                   sampling_frequency |-> {s.sampling_frequency},
                   channels           |-> {s.channels},
                   vbr                |-> c.bits.vbr,
                   bitrate            |-> c.bits.bitrate ] ]

\* What AAC's BuildConfiguration returns when it returns true.
LEMMA AacBuilt ==
  ASSUME NEW remote, remote.bits.vbr \in BOOLEAN, NEW hint \in {NoValue} \cup HintParameters,
         AacBuildConfiguration(remote, hint) # NoValue
  PROVE  LET c == AacBuildConfiguration(remote, hint)
             s == AacSelect(remote.bits, hint)
         IN  /\ ChosenAac(s, remote.bits)
             /\ BuiltAac(c, s)
             /\ c.bits.vbr \in BOOLEAN
             /\ c.bits.bitrate \in Bitrates
             /\ hint # NoValue /\ hint.maxBitrate > 0 => c.bits.bitrate <= hint.maxBitrate
<1> DEFINE c == AacBuildConfiguration(remote, hint)
           s == AacSelect(remote.bits, hint)
           v == AacVbr(remote.bits, hint)
           r == SetRange(23, AacBitrate(hint))
<1>1. /\ ~(\E f \in DOMAIN s : s[f] = NoValue)
      /\ c = [ size |-> AacSize,
               bits |-> [ object_type        |-> {s.object_type},
                          sampling_frequency |-> {s.sampling_frequency},
                          channels           |-> {s.channels},
                          vbr                |-> v,
                          bitrate            |-> r ] ]
  BY Zenon DEF AacBuildConfiguration
<1>2. v \in BOOLEAN
  BY DEF AacVbr, AacCapabilities
<1> HIDE DEF s, c, v
<1>3. ChosenAac(s, remote.bits)
  BY <1>1, AacSelectCommon DEF s
<1>4. /\ r \in Bitrates
      /\ hint # NoValue /\ hint.maxBitrate > 0 => r <= hint.maxBitrate
  <2>1. AacBitrate(hint) \in Nat
    BY DEF AacBitrate, AacCapabilities, HintParameters, Smaller
  <2>2. hint # NoValue /\ hint.maxBitrate > 0 => AacBitrate(hint) = hint.maxBitrate
    BY DEF AacBitrate, AacCapabilities, HintParameters
  <2>3. 2^23 \in Nat /\ 2^23 > 0
    BY SMT
  <2>4. r = AacBitrate(hint) % 2^23
    BY DEF SetRange
  <2>5. r \in 0 .. 2^23 - 1 /\ r <= AacBitrate(hint)
    BY <2>1, <2>3, <2>4, RemainderBound
  <2> QED BY <2>2, <2>5 DEF Bitrates
<1> HIDE DEF r
<1>5. BuiltAac(c, s) /\ c.bits.vbr = v /\ c.bits.bitrate = r
  BY <1>1 DEF BuiltAac
<1> QED BY <1>2, <1>3, <1>4, <1>5 DEF c, s

\* ParseConfiguration finds no fault with it.
LEMMA AacBuiltParses ==
  ASSUME NEW s, NEW rcaps, ChosenAac(s, rcaps), NEW c, BuiltAac(c, s)
  PROVE  FirstFault(AacChecks(c.size, c.bits)) = Ok
<1> DEFINE checks == AacChecks(c.size, c.bits)
<1>1. /\ c.size = AacSize
      /\ c.bits.object_type = {s.object_type}
      /\ c.bits.sampling_frequency = {s.sampling_frequency}
      /\ c.bits.channels = {s.channels}
  BY DEF BuiltAac
<1>2. /\ s.object_type \in AacCapabilities.object_type
      /\ s.sampling_frequency \in AacCapabilities.sampling_frequency
      /\ s.channels \in AacCapabilities.channels
  BY DEF ChosenAac
<1>3. /\ s.object_type # NoValue
      /\ s.sampling_frequency # NoValue
      /\ s.channels # NoValue
  <2>1. s.sampling_frequency \in Int /\ s.channels \in Int
    BY <1>2 DEF AacCapabilities
  <2>2. s.object_type \in {"MPEG2_LC", "MPEG4_LC"}
    BY <1>2 DEF AacCapabilities
  <2> QED BY <2>1, <2>2, NoValueAssumption
<1>4. /\ find_active_bit(c.bits.object_type) = s.object_type
      /\ find_active_bit(c.bits.sampling_frequency) = s.sampling_frequency
      /\ find_active_bit(c.bits.channels) = s.channels
  BY <1>1 DEF find_active_bit
<1>5. AacCapabilities.vbr /\ AacCapabilities.bitrate = 0
  BY DEF AacCapabilities
<1>6. Len(checks) = 9
  BY DEF AacChecks
<1>7. \A i \in 1 .. 9 : ~checks[i][1]
  <2>1. ~checks[1][1] /\ ~checks[2][1] /\ ~checks[3][1] /\ ~checks[4][1] /\ ~checks[5][1]
    BY <1>1, <1>2, <1>3, <1>4 DEF AacChecks, NotOneBit, NotLocal
  <2>2. ~checks[6][1] /\ ~checks[7][1]
    BY <1>1, <1>2, <1>3, <1>4 DEF AacChecks, NotOneBit, NotLocal
  <2>3. /\ checks[8][1] => ~AacCapabilities.vbr
        /\ checks[9][1] => AacCapabilities.bitrate # 0
    BY DEF AacChecks
  <2> HIDE DEF checks
  <2> QED BY <2>1, <2>2, <2>3, <1>5
<1> QED BY <1>6, <1>7, NoFault

\* The parts of ChosenByBoth and RateUnderHint, for a codec, the remote device's bits
\* and a hint.
ChosenFields(id, rbits, bits) ==
  \A f \in { f \in DOMAIN rbits : f \notin {"min_bitpool", "max_bitpool", "vbr", "bitrate"} } :
    \E b \in LocalCapabilities(id)[f] \intersect rbits[f] : bits[f] = {b}
HintedRate(id, rbits, hint, parameters) ==
  hint # NoValue /\ hint.samplingFrequencyHz
      \in LocalCapabilities(id)["sampling_frequency"] \intersect rbits["sampling_frequency"]
    => parameters.samplingFrequencyHz = hint.samplingFrequencyHz
UnderHint(id, hint, c, parameters) ==
  hint # NoValue /\ hint.maxBitrate > 0 /\ hint.maxBitrate >= hint.minBitrate
    => \/ parameters.maxBitrate <= hint.maxBitrate
       \/ id = "SBC" /\ c.bits.max_bitpool = 2

\* An SBC configuration that was built is sound in every respect.
LEMMA SbcSound ==
  ASSUME NEW remote, remote \in Octets(SbcBits), NEW hint \in {NoValue} \cup HintParameters,
         SbcBuildConfiguration(remote, hint) # NoValue
  PROVE  LET c == SbcBuildConfiguration(remote, hint)
             p == SbcParseConfiguration(c)
         IN  /\ p.status = Ok
             /\ c \in Octets(SbcBits)
             /\ p.parameters \in CodecParameters
             /\ ChosenFields("SBC", remote.bits, c.bits)
             /\ HintedRate("SBC", remote.bits, hint, p.parameters)
             /\ UnderHint("SBC", hint, c, p.parameters)
             /\ OneSbc(c.bits)
<1> DEFINE c == SbcBuildConfiguration(remote, hint)
           s == SbcSelect(remote.bits, hint)
           p == SbcParseConfiguration(c)
<1>1. /\ ChosenSbc(s, remote.bits)
      /\ BuiltSbc(c, s)
      /\ OneSbc(c.bits)
      /\ c.bits.min_bitpool \in 2 .. 250
      /\ c.bits.max_bitpool \in 2 .. 250
      /\ hint # NoValue /\ hint.maxBitrate > 0 /\ hint.maxBitrate >= hint.minBitrate
           => \/ c.bits.max_bitpool = 2
              \/ GetBitrate(c.bits, c.bits.max_bitpool) < hint.maxBitrate
  BY SbcBuilt
<1> HIDE DEF c, s
<1>2. FirstFault(SbcChecks(c.size, c.bits)) = Ok
  BY <1>1, SbcBuiltParses
<1>3. /\ s.sampling_frequency \in {44100, 48000}
      /\ s.channel_mode \in {"MONO", "DUAL", "STEREO", "JOINT"}
      /\ s.block_length \in {4, 8, 12, 16}
      /\ s.subbands \in {4, 8}
      /\ s.allocation_method \in {"SNR", "LOUDNESS"}
  BY <1>1 DEF ChosenSbc, SbcCapabilities
<1>4. /\ c.size = 4
      /\ c.bits.sampling_frequency = {s.sampling_frequency}
      /\ c.bits.channel_mode = {s.channel_mode}
      /\ c.bits.block_length = {s.block_length}
      /\ c.bits.subbands = {s.subbands}
      /\ c.bits.allocation_method = {s.allocation_method}
  BY <1>1 DEF BuiltSbc, SbcSize
<1>5. c \in Octets(SbcBits)
  <2>1. c.bits \in SbcBits
    BY <1>1, <1>3 DEF BuiltSbc, SbcBits
  <2> QED BY <1>1, <1>4, <2>1 DEF BuiltSbc, Octets
<1>6. /\ p.status = Ok
      /\ p.parameters = [ channelMode |-> SbcGetChannelModeEnum(s.channel_mode),
                          samplingFrequencyHz |-> s.sampling_frequency,
                          bitdepth   |-> 16,
                          minBitrate |-> GetBitrate(c.bits, c.bits.min_bitpool),
                          maxBitrate |-> GetBitrate(c.bits, c.bits.max_bitpool) ]
  <2>1. /\ find_active_bit(c.bits.channel_mode) = s.channel_mode
        /\ find_active_bit(c.bits.sampling_frequency) = s.sampling_frequency
    BY <1>4 DEF find_active_bit
  <2> QED BY <1>2, <2>1 DEF SbcParseConfiguration
<1> HIDE DEF p
<1>7. /\ GetBitrate(c.bits, c.bits.min_bitpool) \in Nat
      /\ GetBitrate(c.bits, c.bits.max_bitpool) \in Nat
  <2>1. c.bits.min_bitpool \in Nat /\ c.bits.max_bitpool \in Nat
    BY <1>1
  <2>2. \A n \in Nat : n <= n
    OBVIOUS
  <2> QED BY <1>1, <2>1, <2>2, BitrateMonotone
<1>8. SbcGetChannelModeEnum(s.channel_mode) \in ChannelMode
  BY <1>3 DEF SbcGetChannelModeEnum, ChannelMode
<1>9. p.parameters \in CodecParameters
  BY <1>3, <1>6, <1>7, <1>8 DEF CodecParameters
<1>10. ChosenFields("SBC", remote.bits, c.bits)
  <2>1. DOMAIN remote.bits = { "sampling_frequency", "channel_mode", "block_length", "subbands",
                               "allocation_method", "min_bitpool", "max_bitpool" }
    BY DEF Octets, SbcBits
  <2>2. LocalCapabilities("SBC") = SbcCapabilities
    BY DEF LocalCapabilities
  <2>3. SUFFICES ASSUME NEW f \in {"sampling_frequency", "channel_mode", "block_length",
                                   "subbands", "allocation_method"}
                 PROVE  \E b \in SbcCapabilities[f] \intersect remote.bits[f] : c.bits[f] = {b}
    BY <2>1, <2>2 DEF ChosenFields
  <2>4. CASE f = "sampling_frequency" BY <2>4, <1>1, <1>4 DEF ChosenSbc
  <2>5. CASE f = "channel_mode" BY <2>5, <1>1, <1>4 DEF ChosenSbc
  <2>6. CASE f = "block_length" BY <2>6, <1>1, <1>4 DEF ChosenSbc
  <2>7. CASE f = "subbands" BY <2>7, <1>1, <1>4 DEF ChosenSbc
  <2>8. CASE f = "allocation_method" BY <2>8, <1>1, <1>4 DEF ChosenSbc
  <2> QED BY <2>4, <2>5, <2>6, <2>7, <2>8
<1>11. HintedRate("SBC", remote.bits, hint, p.parameters)
  <2>1. SUFFICES ASSUME hint # NoValue,
                        hint.samplingFrequencyHz
                          \in SbcCapabilities.sampling_frequency \intersect remote.bits.sampling_frequency
                 PROVE  p.parameters.samplingFrequencyHz = hint.samplingFrequencyHz
    BY DEF HintedRate, LocalCapabilities
  <2>2. hint.samplingFrequencyHz \in {44100, 48000}
    BY <2>1 DEF SbcCapabilities
  <2>3. SbcGetSamplingFrequencyBit(hint.samplingFrequencyHz) = hint.samplingFrequencyHz
    BY <2>2 DEF SbcGetSamplingFrequencyBit
  <2>4. s.sampling_frequency = hint.samplingFrequencyHz
    BY <2>1, <2>3, SbcSelectCommon DEF s
  <2> QED BY <2>4, <1>6
<1>12. UnderHint("SBC", hint, c, p.parameters)
  <2>1. hint # NoValue => hint.maxBitrate \in Int
    BY DEF HintParameters
  <2> QED BY <2>1, <1>1, <1>6, <1>7 DEF UnderHint
<1> QED BY <1>1, <1>5, <1>6, <1>9, <1>10, <1>11, <1>12 DEF c, p

\* So is an AAC configuration.
LEMMA AacSound ==
  ASSUME NEW remote, remote \in Octets(AacBits), NEW hint \in {NoValue} \cup HintParameters,
         AacBuildConfiguration(remote, hint) # NoValue
  PROVE  LET c == AacBuildConfiguration(remote, hint)
             p == AacParseConfiguration(c)
         IN  /\ p.status = Ok
             /\ c \in Octets(AacBits)
             /\ p.parameters \in CodecParameters
             /\ ChosenFields("AAC", remote.bits, c.bits)
             /\ HintedRate("AAC", remote.bits, hint, p.parameters)
             /\ UnderHint("AAC", hint, c, p.parameters)
<1> DEFINE c == AacBuildConfiguration(remote, hint)
           s == AacSelect(remote.bits, hint)
           p == AacParseConfiguration(c)
<1>0. remote.bits.vbr \in BOOLEAN
  BY DEF Octets, AacBits
<1>1. /\ ChosenAac(s, remote.bits)
      /\ BuiltAac(c, s)
      /\ c.bits.vbr \in BOOLEAN
      /\ c.bits.bitrate \in Bitrates
      /\ hint # NoValue /\ hint.maxBitrate > 0 => c.bits.bitrate <= hint.maxBitrate
  BY <1>0, AacBuilt
<1> HIDE DEF c, s
<1>2. FirstFault(AacChecks(c.size, c.bits)) = Ok
  BY <1>1, AacBuiltParses
<1>3. /\ s.object_type \in {"MPEG2_LC", "MPEG4_LC"}
      /\ s.sampling_frequency \in {44100, 48000}
      /\ s.channels \in {1, 2}
  BY <1>1 DEF ChosenAac, AacCapabilities
<1>4. /\ c.size = 6
      /\ c.bits.object_type = {s.object_type}
      /\ c.bits.sampling_frequency = {s.sampling_frequency}
      /\ c.bits.channels = {s.channels}
  BY <1>1 DEF BuiltAac, AacSize
<1>5. c \in Octets(AacBits)
  <2>1. c.bits \in AacBits
    BY <1>1, <1>3 DEF BuiltAac, AacBits
  <2> QED BY <1>1, <1>4, <2>1 DEF BuiltAac, Octets
<1>6. /\ p.status = Ok
      /\ p.parameters = [ channelMode |-> AacGetChannelModeEnum(s.channels),
                          samplingFrequencyHz |-> s.sampling_frequency,
                          bitdepth   |-> 24,
                          minBitrate |-> IF c.bits.vbr THEN 0 ELSE c.bits.bitrate,
                          maxBitrate |-> c.bits.bitrate ]
  <2>1. /\ find_active_bit(c.bits.channels) = s.channels
        /\ find_active_bit(c.bits.sampling_frequency) = s.sampling_frequency
    BY <1>4 DEF find_active_bit
  <2> QED BY <1>2, <2>1 DEF AacParseConfiguration
<1> HIDE DEF p
<1>7. c.bits.bitrate \in Int
  BY <1>1 DEF Bitrates
<1>8. AacGetChannelModeEnum(s.channels) \in ChannelMode
  BY <1>3 DEF AacGetChannelModeEnum, ChannelMode
<1>9. p.parameters \in CodecParameters
  BY <1>3, <1>6, <1>7, <1>8 DEF CodecParameters
<1>10. ChosenFields("AAC", remote.bits, c.bits)
  <2>1. DOMAIN remote.bits = { "object_type", "sampling_frequency", "channels", "vbr", "bitrate" }
    BY DEF Octets, AacBits
  <2>2. LocalCapabilities("AAC") = AacCapabilities
    BY DEF LocalCapabilities
  <2>3. SUFFICES ASSUME NEW f \in {"object_type", "sampling_frequency", "channels"}
                 PROVE  \E b \in AacCapabilities[f] \intersect remote.bits[f] : c.bits[f] = {b}
    BY <2>1, <2>2 DEF ChosenFields
  <2>4. CASE f = "object_type" BY <2>4, <1>1, <1>4 DEF ChosenAac
  <2>5. CASE f = "sampling_frequency" BY <2>5, <1>1, <1>4 DEF ChosenAac
  <2>6. CASE f = "channels" BY <2>6, <1>1, <1>4 DEF ChosenAac
  <2> QED BY <2>4, <2>5, <2>6
<1>11. HintedRate("AAC", remote.bits, hint, p.parameters)
  <2>1. SUFFICES ASSUME hint # NoValue,
                        hint.samplingFrequencyHz
                          \in AacCapabilities.sampling_frequency \intersect remote.bits.sampling_frequency
                 PROVE  p.parameters.samplingFrequencyHz = hint.samplingFrequencyHz
    BY DEF HintedRate, LocalCapabilities
  <2>2. hint.samplingFrequencyHz \in {44100, 48000}
    BY <2>1 DEF AacCapabilities
  <2>3. AacGetSamplingFrequencyBit(hint.samplingFrequencyHz) = hint.samplingFrequencyHz
    BY <2>2 DEF AacGetSamplingFrequencyBit
  <2>4. s.sampling_frequency = hint.samplingFrequencyHz
    BY <2>1, <2>3, AacSelectCommon DEF s
  <2> QED BY <2>4, <1>6
<1>12. UnderHint("AAC", hint, c, p.parameters)
  BY <1>1, <1>6 DEF UnderHint
<1> QED BY <1>5, <1>6, <1>9, <1>10, <1>11, <1>12 DEF c, p

\* The hinted codec in front of the other one.
LEMMA ConcatOfTwo == ASSUME NEW a, NEW b PROVE << a >> \o << b >> = << a, b >>
<1> DEFINE S == {a, b}
           s == << a >>
           t == << b >>
           u == << a, b >>
<1>1. s \in Seq(S) /\ t \in Seq(S) /\ u \in Seq(S)
  OBVIOUS
<1>2. /\ Len(s) = 1 /\ s[1] = a
      /\ Len(t) = 1 /\ t[1] = b
      /\ Len(u) = 2 /\ u[1] = a /\ u[2] = b
  OBVIOUS
<1> HIDE DEF s, t, u, S
<1>3. /\ s \o t \in Seq(S)
      /\ Len(s \o t) = Len(s) + Len(t)
      /\ \A i \in 1 .. Len(s) + Len(t) : (s \o t)[i] = IF i <= Len(s) THEN s[i] ELSE t[i - Len(s)]
  BY <1>1, ConcatProperties, Zenon
<1>4. Len(s \o t) = 2 /\ (s \o t)[1] = a /\ (s \o t)[2] = b
  BY <1>2, <1>3
<1>5. s \o t = u
  BY <1>1, <1>2, <1>3, <1>4, SeqEqual
<1> QED BY <1>5 DEF s, t, u

\* The entry the factory finds in the remote device's list is one of the codec it
\* looked for, with the octets of that codec.
LEMMA RemoteEntryListed ==
  ASSUME NEW remotes \in Seq(A2dpRemoteCapabilities), NEW id \in {"AAC", "SBC"},
         RemoteEntry(remotes, id) # NoValue
  PROVE  LET e == RemoteEntry(remotes, id)
         IN  /\ e.seid \in Int
             /\ id = "SBC" => e.capabilities \in Octets(SbcBits)
             /\ id = "AAC" => e.capabilities \in Octets(AacBits)
<1> DEFINE I == { i \in 1 .. Len(remotes) : remotes[i].id = id }
<1>1. I \in SUBSET Nat
  OBVIOUS
<1>2. SelectInSeq(remotes, LAMBDA rc : rc.id = id) = IF I # {} THEN Min(I) ELSE 0
  BY DEF SelectInSeq
<1>3. I # {} /\ RemoteEntry(remotes, id) = remotes[Min(I)]
  BY <1>2 DEF RemoteEntry
<1>4. Min(I) \in I
  BY <1>1, <1>3, MinOfNaturals
<1> DEFINE e == RemoteEntry(remotes, id)
<1>5. e \in A2dpRemoteCapabilities /\ e.id = id
  BY <1>3, <1>4
<1> HIDE DEF e
<1>6. CASE id = "SBC"
  <2>1. e \in [ id : {"SBC"}, seid : Int, capabilities : Octets(SbcBits) ]
    BY <1>5, <1>6 DEF A2dpRemoteCapabilities
  <2> QED BY <2>1, <1>6 DEF e
<1>7. CASE id = "AAC"
  <2>1. e \in [ id : {"AAC"}, seid : Int, capabilities : Octets(AacBits) ]
    BY <1>5, <1>7 DEF A2dpRemoteCapabilities
  <2> QED BY <2>1, <1>7 DEF e
<1> QED BY <1>6, <1>7

\* What the factory returns when it stops at codec c.
ProposalOf(remotes, c, params) ==
  [ id |-> c,
    configuration |-> BuildFor(remotes, c, params),
    parameters |-> ParseConfiguration(c, BuildFor(remotes, c, params)).parameters,
    remoteSeid |-> RemoteEntry(remotes, c).seid ]

\* The codecs the factory tries, for each hint.
LEMMA CodecsTried ==
  ASSUME NEW hinted, NEW stray \in {NoValue, "AAC", "SBC"}
  PROVE  /\ hinted = "AAC" => CodecsToTry(hinted, stray) = << "AAC", "SBC" >>
         /\ hinted = "SBC" => CodecsToTry(hinted, stray) = << "SBC", "AAC" >>
         /\ hinted \notin {"AAC", "SBC"} =>
              CodecsToTry(hinted, stray) = IF stray = "AAC" THEN << "SBC" >>
                                           ELSE IF stray = "SBC" THEN << "AAC" >>
                                           ELSE << "AAC", "SBC" >>
<1>1. GetCodec("AAC") # NoValue /\ GetCodec("SBC") # NoValue
  BY NoValueAssumption DEF GetCodec
<1>2. hinted \notin {"AAC", "SBC"} => GetCodec(hinted) = NoValue
  BY DEF GetCodec
<1>3. RankedWithout("AAC") = << "SBC" >> /\ RankedWithout("SBC") = << "AAC" >>
  BY DEF RankedWithout
<1>4. RankedWithout(NoValue) = << "AAC", "SBC" >>
  BY NoValueAssumption DEF RankedWithout, ranked_codecs
<1>5. << "AAC" >> \o << "SBC" >> = << "AAC", "SBC" >> /\ << "SBC" >> \o << "AAC" >> = << "SBC", "AAC" >>
  BY ConcatOfTwo
<1>6. CASE hinted = "AAC"
  BY <1>1, <1>3, <1>5, <1>6 DEF CodecsToTry
<1>7. CASE hinted = "SBC"
  BY <1>1, <1>3, <1>5, <1>7 DEF CodecsToTry
<1>8. CASE hinted \notin {"AAC", "SBC"}
  <2>1. CodecsToTry(hinted, stray) = RankedWithout(stray)
    BY <1>2, <1>8 DEF CodecsToTry
  <2> QED BY <2>1, <1>3, <1>4, <1>8, NoValueAssumption
<1> QED BY <1>6, <1>7, <1>8

\* The factory comes back without a configuration when no codec that had its turn fits,
\* and otherwise with the first that does.
LEMMA GetConfigurationCases ==
  ASSUME NEW remotes, NEW hint, NEW stray \in {NoValue, "AAC", "SBC"},
         GetCodec(hint.codecId) # NoValue => stray = NoValue
  PROVE  LET Fits(c) == BuildFor(remotes, c, hint.codecParameters) # NoValue
         IN  \/ /\ GetConfiguration(remotes, hint, stray) = NoValue
                /\ \A c \in {"AAC", "SBC"} : Fits(c) => c = stray
             \/ \E c \in {"AAC", "SBC"} :
                  /\ Fits(c)
                  /\ GetConfiguration(remotes, hint, stray)
                       = ProposalOf(remotes, c, hint.codecParameters)
                  /\ hint.codecId \in {"AAC", "SBC"} /\ c # hint.codecId => ~Fits(hint.codecId)
<1> DEFINE Fits(c) == BuildFor(remotes, c, hint.codecParameters) # NoValue
           codecs == CodecsToTry(hint.codecId, stray)
           I == { i \in 1 .. Len(codecs) : Fits(codecs[i]) }
           P == GetConfiguration(remotes, hint, stray)
<1>1. SelectInSeq(codecs, LAMBDA c : BuildFor(remotes, c, hint.codecParameters) # NoValue)
        = IF I # {} THEN Min(I) ELSE 0
  BY DEF SelectInSeq
<1>2. codecs \in { << "AAC", "SBC" >>, << "SBC", "AAC" >>, << "AAC" >>, << "SBC" >> }
  BY CodecsTried
<1>3. Len(codecs) \in {1, 2}
  <2> HIDE DEF codecs
  <2> QED BY <1>2
<1> HIDE DEF codecs
<1>4. I \in SUBSET Nat
  BY <1>3
<1>5. I # {} => Min(I) \in I /\ \A j \in I : Min(I) <= j
  BY <1>4, MinOfNaturals
<1>6. CASE I = {}
  <2>1. P = NoValue
    BY <1>1, <1>6 DEF GetConfiguration, codecs
  <2>2. ASSUME NEW c \in {"AAC", "SBC"}, Fits(c) PROVE c = stray
    <3>1. \A i \in 1 .. Len(codecs) : codecs[i] # c
      BY <1>6, <2>2
    <3>2. hint.codecId \notin {"AAC", "SBC"}
      <4>1. ASSUME codecs \in { << "AAC", "SBC" >>, << "SBC", "AAC" >> } PROVE FALSE
        BY <3>1, <4>1
      <4> QED BY <4>1, CodecsTried DEF codecs
    <3>3. codecs = IF stray = "AAC" THEN << "SBC" >>
                   ELSE IF stray = "SBC" THEN << "AAC" >> ELSE << "AAC", "SBC" >>
      BY <3>2, CodecsTried DEF codecs
    <3> QED BY <3>1, <3>3
  <2> QED BY <2>1, <2>2
<1>7. CASE I # {}
  <2> DEFINE m == Min(I)
             c == codecs[m]
  <2>1. m \in 1 .. Len(codecs) /\ Fits(c) /\ \A j \in I : m <= j
    BY <1>5, <1>7
  <2>2. m # 0
    BY <2>1, <1>3
  <2>3. P = ProposalOf(remotes, c, hint.codecParameters)
    BY <1>1, <1>7, <2>2 DEF GetConfiguration, codecs, ProposalOf
  <2>4. c \in {"AAC", "SBC"}
    BY <2>1, <1>2
  <2>5. ASSUME hint.codecId \in {"AAC", "SBC"}, c # hint.codecId PROVE ~Fits(hint.codecId)
    <3>1. codecs[1] = hint.codecId /\ Len(codecs) = 2
      BY <2>5, CodecsTried DEF codecs
    <3>2. ~(m <= 1)
      BY <3>1, <2>1, <2>5
    <3>3. 1 \notin I
      BY <3>2, <2>1
    <3> QED BY <3>1, <3>3
  <2> HIDE DEF m, P
  <2> QED BY <2>1, <2>3, <2>4, <2>5 DEF P
<1> QED BY <1>6, <1>7

\* What was started: its outcome is the parser's or the table's, and after a proposal
\* it is what was proposed.
StartedOK ==
  started # NoValue =>
    /\ started.accepted \in BOOLEAN
    /\ started.tag \in {"a2dp", "a2dpConfig"}
    /\ started.tag = "a2dp" =>
         started.accepted = ( GetCodec(started.id) # NoValue
                              /\ ParseConfiguration(started.id, started.config).status = Ok )
    /\ started.tag = "a2dpConfig" =>
         \E type \in A2dpOffload, c \in Legacy :
           /\ started.id = c.codecType
           /\ started.config = c
           /\ started.accepted = IsOffloadCodecConfigurationValid(type, c)
    /\ proposal # NoValue =>
         started.tag = "a2dp" /\ started.id = proposal.id /\ started.config = proposal.configuration

\* A proposal is the factory's answer to the request.
NegotiatedOK ==
  \/ request = NoValue /\ proposal = NoValue
  \/ /\ request \in Requests
     /\ GetCodec(request.hint.codecId) # NoValue => request.stray = NoValue
     /\ proposal = GetConfiguration(request.remotes, request.hint, request.stray)

\* The inductive invariant.  None of the properties is inductive: each speaks of the
\* proposal, and only the request it answers says how it came about.
CodecsInv == extensible \in BOOLEAN /\ NegotiatedOK /\ StartedOK

\* It holds at the start.
LEMMA CodecsInvInit == CodecsInit => CodecsInv
BY ExtensibilityAssumption DEF CodecsInit, CodecsInv, NegotiatedOK, StartedOK

\* It is kept by a start with the octets of a codec.
LEMMA StartA2dpInv ==
  ASSUME CodecsInv, NEW id, NEW configuration, startSessionA2dp(id, configuration),
         proposal # NoValue => id = proposal.id /\ configuration = proposal.configuration
  PROVE  CodecsInv'
<1>1. UNCHANGED << extensible, request, proposal >>
  BY DEF startSessionA2dp
<1>2. extensible' \in BOOLEAN /\ NegotiatedOK'
  BY <1>1 DEF CodecsInv, NegotiatedOK
<1> DEFINE ok == GetCodec(id) # NoValue /\ ParseConfiguration(id, configuration).status = Ok
<1>3. ok \in BOOLEAN
  OBVIOUS
<1>4. started' = [ tag |-> "a2dp", id |-> id, config |-> configuration, accepted |-> ok ]
  BY DEF startSessionA2dp
<1>5. /\ started'.tag = "a2dp" /\ started'.id = id /\ started'.config = configuration
      /\ started'.accepted = ok
  <2> HIDE DEF ok
  <2> QED BY <1>4
<1>6. ok = ( GetCodec(started'.id) # NoValue
             /\ ParseConfiguration(started'.id, started'.config).status = Ok )
  BY <1>5
<1> HIDE DEF ok
<1>7. StartedOK'
  BY <1>1, <1>3, <1>5, <1>6 DEF StartedOK
<1> QED BY <1>2, <1>7 DEF CodecsInv

\* It is kept by a start with a configuration of the older interface.
LEMMA StartLegacyInv ==
  ASSUME CodecsInv, StartLegacy
  PROVE  CodecsInv'
<1>1. PICK type \in A2dpOffload, c \in Legacy : startSessionLegacy(type, c)
  BY DEF StartLegacy
<1>2. UNCHANGED << extensible, request, proposal >>
  BY <1>1 DEF startSessionLegacy
<1>3. extensible' \in BOOLEAN /\ NegotiatedOK'
  BY <1>2 DEF CodecsInv, NegotiatedOK
<1>4. proposal = NoValue
  BY NoValueAssumption DEF CodecsInv, NegotiatedOK, StartLegacy
<1> DEFINE ok == IsOffloadCodecConfigurationValid(type, c)
<1>5. ok \in BOOLEAN
  BY DEF IsOffloadCodecConfigurationValid
<1>6. started' = [ tag |-> "a2dpConfig", id |-> c.codecType, config |-> c, accepted |-> ok ]
  BY <1>1 DEF startSessionLegacy
<1> HIDE DEF ok
<1>7. /\ started'.tag = "a2dpConfig" /\ started'.id = c.codecType /\ started'.config = c
      /\ started'.accepted = ok
  BY <1>6
<1>8. StartedOK'
  <2>1. \E t \in A2dpOffload, d \in Legacy :
          /\ started'.id = d.codecType
          /\ started'.config = d
          /\ started'.accepted = IsOffloadCodecConfigurationValid(t, d)
    BY <1>7 DEF ok
  <2> QED BY <2>1, <1>2, <1>4, <1>5, <1>7 DEF StartedOK
<1> QED BY <1>3, <1>8 DEF CodecsInv

\* It is kept by a request.
LEMMA AskInv ==
  ASSUME CodecsInv, Ask
  PROVE  CodecsInv'
<1>1. PICK remotes \in RemoteLists, hint \in Hints : getA2dpConfiguration(remotes, hint)
  BY DEF Ask
<1>2. PICK stray \in {NoValue, "AAC", "SBC"} :
        /\ GetCodec(hint.codecId) # NoValue => stray = NoValue
        /\ request' = [ remotes |-> remotes, hint |-> hint, stray |-> stray ]
        /\ proposal' = GetConfiguration(remotes, hint, stray)
  BY <1>1 DEF getA2dpConfiguration
<1>3. UNCHANGED << extensible, started >> /\ started = NoValue
  BY <1>1 DEF getA2dpConfiguration, Ask
<1>4. request' \in Requests
  BY <1>2 DEF Requests
<1>5. request'.remotes = remotes /\ request'.hint = hint /\ request'.stray = stray
  BY <1>2
<1>6. NegotiatedOK'
  BY <1>2, <1>4, <1>5 DEF NegotiatedOK
<1>7. StartedOK'
  BY <1>3 DEF StartedOK
<1> QED BY <1>3, <1>6, <1>7 DEF CodecsInv

\* It is kept by every step.
LEMMA CodecsInvNext == CodecsInv /\ [CodecsNext]_codecsVars => CodecsInv'
<1> SUFFICES ASSUME CodecsInv, [CodecsNext]_codecsVars PROVE CodecsInv'
  OBVIOUS
<1>1. CASE StartProposed
  BY <1>1, StartA2dpInv DEF StartProposed
<1>2. CASE StartForeign
  <2>1. proposal = NoValue
    BY <1>2, NoValueAssumption DEF CodecsInv, NegotiatedOK, StartForeign
  <2> QED BY <1>2, <2>1, StartA2dpInv DEF StartForeign
<1>3. CASE StartLegacy
  BY <1>3, StartLegacyInv
<1>4. CASE Ask
  BY <1>4, AskInv
<1>5. CASE NextDevice
  BY <1>5 DEF NextDevice, CodecsInv, NegotiatedOK, StartedOK
<1>6. CASE UNCHANGED codecsVars
  BY <1>6 DEF codecsVars, CodecsInv, NegotiatedOK, StartedOK
<1> QED BY <1>1, <1>2, <1>3, <1>4, <1>5, <1>6 DEF CodecsNext

\* Every proposal is the factory's answer to the last request, and every start is
\* answered by the parser or the table, for any remote devices, hints and
\* configurations the interface can express.
THEOREM CodecsInvariant == CodecsSpec => []CodecsInv
BY CodecsInvInit, CodecsInvNext, PTL DEF CodecsSpec

\* The proposal is the one the factory makes when it stops at codec c.
ProposedOf(c) ==
  /\ request \in Requests
  /\ request.remotes \in Seq(A2dpRemoteCapabilities)
  /\ request.hint.codecParameters \in {NoValue} \cup HintParameters
  /\ BuildFor(request.remotes, c, request.hint.codecParameters) # NoValue
  /\ proposal = ProposalOf(request.remotes, c, request.hint.codecParameters)

\* Every proposal is of that form.
LEMMA ProposedCodec ==
  ASSUME CodecsInv, proposal # NoValue
  PROVE  \E c \in {"AAC", "SBC"} : ProposedOf(c)
<1>1. /\ request \in Requests
      /\ GetCodec(request.hint.codecId) # NoValue => request.stray = NoValue
      /\ proposal = GetConfiguration(request.remotes, request.hint, request.stray)
  BY DEF CodecsInv, NegotiatedOK
<1>2. /\ request.remotes \in RemoteLists
      /\ request.hint \in Hints
      /\ request.stray \in {NoValue, "AAC", "SBC"}
  BY <1>1 DEF Requests
<1>3. /\ request.remotes \in Seq(A2dpRemoteCapabilities)
      /\ request.hint.codecParameters \in {NoValue} \cup HintParameters
  BY <1>2, RemotesAssumption, HintsAssumption
<1>4. PICK c \in {"AAC", "SBC"} :
        /\ BuildFor(request.remotes, c, request.hint.codecParameters) # NoValue
        /\ proposal = ProposalOf(request.remotes, c, request.hint.codecParameters)
  BY <1>1, <1>2, GetConfigurationCases
<1> QED BY <1>1, <1>3, <1>4 DEF ProposedOf

\* Such a proposal is sound in every respect.
LEMMA ProposedSound ==
  ASSUME NEW c \in {"AAC", "SBC"}, ProposedOf(c)
  PROVE  /\ proposal \in A2dpConfiguration
         /\ proposal.id \in {"AAC", "SBC"}
         /\ ParseConfiguration(proposal.id, proposal.configuration).status = Ok
         /\ ChosenFields(proposal.id, Entry, proposal.configuration.bits)
         /\ HintedRate(proposal.id, Entry, request.hint.codecParameters, proposal.parameters)
         /\ UnderHint(proposal.id, request.hint.codecParameters, proposal.configuration,
                      proposal.parameters)
         /\ proposal.id = "SBC" => OneSbc(proposal.configuration.bits)
<1> DEFINE e == RemoteEntry(request.remotes, c)
           hint == request.hint.codecParameters
           config == BuildFor(request.remotes, c, hint)
<1>2. e # NoValue /\ config = BuildConfiguration(c, e.capabilities, hint) /\ config # NoValue
  BY DEF ProposedOf, BuildFor
<1>3. /\ e.seid \in Int
      /\ c = "SBC" => e.capabilities \in Octets(SbcBits)
      /\ c = "AAC" => e.capabilities \in Octets(AacBits)
  BY <1>2, RemoteEntryListed DEF ProposedOf
<1>4. hint \in {NoValue} \cup HintParameters
  BY DEF ProposedOf
<1>5. /\ proposal.id = c
      /\ proposal.configuration = config
      /\ proposal.parameters = ParseConfiguration(c, config).parameters
      /\ proposal.remoteSeid = e.seid
      /\ proposal = [ id |-> proposal.id, configuration |-> proposal.configuration,
                      parameters |-> proposal.parameters, remoteSeid |-> proposal.remoteSeid ]
  <2> HIDE DEF config, e
  <2>1. proposal = [ id |-> c, configuration |-> config,
                     parameters |-> ParseConfiguration(c, config).parameters,
                     remoteSeid |-> e.seid ]
    BY DEF ProposedOf, ProposalOf, config, e
  <2> QED BY <2>1
<1>6. Entry = e.capabilities.bits
  BY <1>5 DEF Entry
<1> HIDE DEF e, hint, config
<1>7. CASE c = "SBC"
  <2>1. /\ config = SbcBuildConfiguration(e.capabilities, hint)
        /\ ParseConfiguration(c, config) = SbcParseConfiguration(config)
    BY <1>2, <1>7 DEF BuildConfiguration, ParseConfiguration
  <2>2. /\ ParseConfiguration(c, config).status = Ok
        /\ config \in Octets(SbcBits)
        /\ ParseConfiguration(c, config).parameters \in CodecParameters
        /\ ChosenFields("SBC", e.capabilities.bits, config.bits)
        /\ HintedRate("SBC", e.capabilities.bits, hint, ParseConfiguration(c, config).parameters)
        /\ UnderHint("SBC", hint, config, ParseConfiguration(c, config).parameters)
        /\ OneSbc(config.bits)
    BY <1>2, <1>3, <1>4, <1>7, <2>1, SbcSound
  <2>3. proposal \in A2dpConfiguration
    BY <1>3, <1>5, <1>7, <2>2 DEF A2dpConfiguration
  <2> QED BY <1>5, <1>6, <1>7, <2>2, <2>3 DEF hint
<1>8. CASE c = "AAC"
  <2>1. /\ config = AacBuildConfiguration(e.capabilities, hint)
        /\ ParseConfiguration(c, config) = AacParseConfiguration(config)
    BY <1>2, <1>8 DEF BuildConfiguration, ParseConfiguration
  <2>2. /\ ParseConfiguration(c, config).status = Ok
        /\ config \in Octets(AacBits)
        /\ ParseConfiguration(c, config).parameters \in CodecParameters
        /\ ChosenFields("AAC", e.capabilities.bits, config.bits)
        /\ HintedRate("AAC", e.capabilities.bits, hint, ParseConfiguration(c, config).parameters)
        /\ UnderHint("AAC", hint, config, ParseConfiguration(c, config).parameters)
    BY <1>2, <1>3, <1>4, <1>8, <2>1, AacSound
  <2>3. proposal \in A2dpConfiguration
    BY <1>3, <1>5, <1>8, <2>2 DEF A2dpConfiguration
  <2> QED BY <1>5, <1>6, <1>8, <2>2, <2>3 DEF hint
<1> QED BY <1>7, <1>8

\* Hence every proposal is.
LEMMA ProposalSound ==
  ASSUME CodecsInv, proposal # NoValue
  PROVE  /\ proposal \in A2dpConfiguration
         /\ proposal.id \in {"AAC", "SBC"}
         /\ ParseConfiguration(proposal.id, proposal.configuration).status = Ok
         /\ ChosenFields(proposal.id, Entry, proposal.configuration.bits)
         /\ HintedRate(proposal.id, Entry, request.hint.codecParameters, proposal.parameters)
         /\ UnderHint(proposal.id, request.hint.codecParameters, proposal.configuration,
                      proposal.parameters)
         /\ proposal.id = "SBC" => OneSbc(proposal.configuration.bits)
BY ProposedCodec, ProposedSound

\* The assertion of A2dpOffloadCodecFactory::GetConfiguration never fails: what a codec
\* builds it parses without a fault, and the session started with it is accepted.
THEOREM ProposalIsAccepted == CodecsSpec => []ProposalAccepted
<1>1. ASSUME CodecsInv PROVE ProposalAccepted
  <2>1. CodecsTypeOK
    BY <1>1, ProposalSound DEF CodecsTypeOK, CodecsInv, NegotiatedOK, StartedOK
  <2>2. ASSUME proposal # NoValue
        PROVE  ParseConfiguration(proposal.id, proposal.configuration).status = Ok
    BY <1>1, <2>2, ProposalSound
  <2>3. ASSUME proposal # NoValue, started # NoValue PROVE started.accepted
    <3>1. proposal.id \in {"AAC", "SBC"}
      BY <1>1, <2>3, ProposalSound
    <3>2. GetCodec(proposal.id) # NoValue
      BY <3>1, NoValueAssumption DEF GetCodec
    <3>3. started.accepted = ( GetCodec(proposal.id) # NoValue
            /\ ParseConfiguration(proposal.id, proposal.configuration).status = Ok )
      BY <1>1, <2>3 DEF CodecsInv, StartedOK
    <3> QED BY <2>2, <2>3, <3>2, <3>3
  <2> QED BY <2>1, <2>2, <2>3 DEF ProposalAccepted
<1> QED BY <1>1, CodecsInvariant, PTL

\* BuildConfiguration sets one bit per field, one that both sides support, and follows
\* the hinted sampling frequency if both support it.
THEOREM ChosenIsCommon == CodecsSpec => []ChosenByBoth
<1>1. ASSUME CodecsInv PROVE ChosenByBoth
  BY <1>1, ProposalSound DEF ChosenByBoth, ChosenFields, HintedRate
<1> QED BY <1>1, CodecsInvariant, PTL

\* GetBitpool's halving finds the largest bitpool below the hinted bit rate, for every
\* bit rate and every SBC configuration that can be negotiated.
THEOREM BitpoolIsExact == CodecsSpec => []BitpoolExact
<1>1. ASSUME CodecsInv PROVE BitpoolExact
  <2> SUFFICES ASSUME proposal # NoValue, proposal.id = "SBC",
                      request.hint.codecParameters # NoValue,
                      NEW rate \in { request.hint.codecParameters.minBitrate,
                                     request.hint.codecParameters.maxBitrate }
               PROVE  LET config == proposal.configuration.bits
                          found  == GetBitpool(config, rate)
                      IN  /\ found \in 2 .. 250
                          /\ found > 2   => GetBitrate(config, found) < rate
                          /\ found < 250 => GetBitrate(config, found + 1) >= rate
    BY DEF BitpoolExact
  <2>1. OneSbc(proposal.configuration.bits)
    BY <1>1, ProposalSound
  <2>2. request.hint.codecParameters \in HintParameters
    BY <1>1, ProposedCodec DEF ProposedOf
  <2>3. rate \in Int
    BY <2>2 DEF HintParameters
  <2> QED BY <2>1, <2>3, GetBitpoolExact
<1> QED BY <1>1, CodecsInvariant, PTL

\* No configuration lets the encoder exceed the maximum bit rate of a sound hint,
\* unless the smallest bitpool does.
THEOREM RateStaysUnderHint == CodecsSpec => []RateUnderHint
<1>1. ASSUME CodecsInv PROVE RateUnderHint
  BY <1>1, ProposalSound DEF RateUnderHint, UnderHint
<1> QED BY <1>1, CodecsInvariant, PTL

\* GetConfiguration gives up only when no codec that had its turn fits, and passes over
\* a hinted codec only when that one does not fit.
THEOREM FactoryFallsBack == CodecsSpec => []FallsBack
<1>1. ASSUME CodecsInv PROVE FallsBack
  <2> SUFFICES ASSUME request # NoValue
               PROVE  FallsBack
    BY DEF FallsBack
  <2> DEFINE Fits(c) == BuildFor(request.remotes, c, request.hint.codecParameters) # NoValue
  <2>1. /\ request \in Requests
        /\ GetCodec(request.hint.codecId) # NoValue => request.stray = NoValue
        /\ proposal = GetConfiguration(request.remotes, request.hint, request.stray)
    BY <1>1 DEF CodecsInv, NegotiatedOK
  <2>2. /\ request.stray \in {NoValue, "AAC", "SBC"}
        /\ request.remotes \in Seq(A2dpRemoteCapabilities)
        /\ request.hint.codecParameters \in {NoValue} \cup HintParameters
    BY <2>1, RemotesAssumption, HintsAssumption DEF Requests
  <2>3. CASE proposal = NoValue /\ \A c \in {"AAC", "SBC"} : Fits(c) => c = request.stray
    BY <2>3 DEF FallsBack
  <2>4. ASSUME NEW c \in {"AAC", "SBC"}, Fits(c),
               proposal = ProposalOf(request.remotes, c, request.hint.codecParameters),
               request.hint.codecId \in {"AAC", "SBC"} /\ c # request.hint.codecId
                 => ~Fits(request.hint.codecId)
        PROVE  FallsBack
    <3>1. ProposedOf(c)
      BY <2>1, <2>2, <2>4 DEF ProposedOf
    <3>2. proposal # NoValue
      BY <3>1, ProposedSound, NoValueAssumption
    <3>3. proposal.id = c
      BY <2>4 DEF ProposalOf
    <3> QED BY <2>4, <3>2, <3>3 DEF FallsBack
  <2> QED BY <2>1, <2>2, <2>3, <2>4, GetConfigurationCases
<1> QED BY <1>1, CodecsInvariant, PTL

\* startSession accepts a configuration of the older interface exactly when
\* getProviderCapabilities advertises it.
THEOREM AdvertisedAreAccepted == CodecsSpec => []AdvertisedIsAccepted
<1>1. ASSUME CodecsInv PROVE AdvertisedIsAccepted
  <2> SUFFICES ASSUME started # NoValue, started.tag = "a2dpConfig" PROVE AdvertisedIsAccepted
    BY DEF AdvertisedIsAccepted
  <2>1. PICK type \in A2dpOffload, c \in Legacy :
          /\ started.id = c.codecType
          /\ started.config = c
          /\ started.accepted = IsOffloadCodecConfigurationValid(type, c)
    BY <1>1 DEF CodecsInv, StartedOK
  <2> DEFINE specific == c.config
             cap == GetA2dpOffloadCodecCapabilities(c.codecType)
             Fields == Contained(cap.fields, specific.fields)
             Bitpools == /\ 2 <= specific.fields.minBitpool
                         /\ specific.fields.minBitpool <= specific.fields.maxBitpool
                         /\ specific.fields.maxBitpool <= 53
  <2>2. IsOffloadCodecConfigurationValid(type, c) <=>
          /\ c.codecType \in kDefaultOffloadA2dpCodecCapabilities
          /\ specific.tag = cap.tag
          /\ Fields
          /\ c.codecType = "SBC" => Bitpools
    <3>1. CASE c.codecType = "SBC"
      <4>1. cap = [ tag |-> "sbcConfig", fields |-> kDefaultOffloadSbcCapability ]
        BY <3>1 DEF GetA2dpOffloadCodecCapabilities
      <4>2. IsOffloadCodecConfigurationValid(type, c) <=> IsOffloadSbcConfigurationValid(specific)
        BY <3>1 DEF IsOffloadCodecConfigurationValid
      <4> QED BY <3>1, <4>1, <4>2 DEF IsOffloadSbcConfigurationValid, SbcMinBitpool, SbcMaxBitpool,
                                      kDefaultOffloadA2dpCodecCapabilities
    <3>2. CASE c.codecType = "AAC"
      <4>1. cap = [ tag |-> "aacConfig", fields |-> kDefaultOffloadAacCapability ]
        BY <3>2 DEF GetA2dpOffloadCodecCapabilities
      <4>2. IsOffloadCodecConfigurationValid(type, c) <=> IsOffloadAacConfigurationValid(specific)
        BY <3>2 DEF IsOffloadCodecConfigurationValid
      <4> QED BY <3>2, <4>1, <4>2 DEF IsOffloadAacConfigurationValid, AacVariableBitRateSupported,
                                      kDefaultOffloadA2dpCodecCapabilities
    <3>3. CASE c.codecType = "LDAC"
      <4>1. cap = [ tag |-> "ldacConfig", fields |-> kDefaultOffloadLdacCapability ]
        BY <3>3 DEF GetA2dpOffloadCodecCapabilities
      <4>2. IsOffloadCodecConfigurationValid(type, c) <=> IsOffloadLdacConfigurationValid(specific)
        BY <3>3 DEF IsOffloadCodecConfigurationValid
      <4> QED BY <3>3, <4>1, <4>2 DEF IsOffloadLdacConfigurationValid,
                                      kDefaultOffloadA2dpCodecCapabilities
    <3>4. CASE c.codecType = "APTX"
      <4>1. cap = [ tag |-> "aptxConfig", fields |-> kDefaultOffloadAptxCapability ]
        BY <3>4 DEF GetA2dpOffloadCodecCapabilities
      <4>2. IsOffloadCodecConfigurationValid(type, c) <=> IsOffloadAptxConfigurationValid(specific)
        BY <3>4 DEF IsOffloadCodecConfigurationValid
      <4> QED BY <3>4, <4>1, <4>2 DEF IsOffloadAptxConfigurationValid,
                                      kDefaultOffloadA2dpCodecCapabilities
    <3>5. CASE c.codecType = "APTX_HD"
      <4>1. cap = [ tag |-> "aptxConfig", fields |-> kDefaultOffloadAptxHdCapability ]
        BY <3>5 DEF GetA2dpOffloadCodecCapabilities
      <4>2. IsOffloadCodecConfigurationValid(type, c) <=> IsOffloadAptxHdConfigurationValid(specific)
        BY <3>5 DEF IsOffloadCodecConfigurationValid
      <4> QED BY <3>5, <4>1, <4>2 DEF IsOffloadAptxHdConfigurationValid,
                                      kDefaultOffloadA2dpCodecCapabilities
    <3>6. CASE c.codecType = "OPUS"
      <4>1. cap = [ tag |-> "opusConfig", fields |-> kDefaultOffloadOpusCapability ]
        BY <3>6 DEF GetA2dpOffloadCodecCapabilities
      <4>2. IsOffloadCodecConfigurationValid(type, c) <=> IsOffloadOpusConfigurationValid(specific)
        BY <3>6 DEF IsOffloadCodecConfigurationValid
      <4> QED BY <3>6, <4>1, <4>2 DEF IsOffloadOpusConfigurationValid,
                                      kDefaultOffloadA2dpCodecCapabilities
    <3>7. CASE c.codecType \notin kDefaultOffloadA2dpCodecCapabilities
      BY <3>7 DEF IsOffloadCodecConfigurationValid, kDefaultOffloadA2dpCodecCapabilities
    <3> QED BY <3>1, <3>2, <3>3, <3>4, <3>5, <3>6, <3>7 DEF kDefaultOffloadA2dpCodecCapabilities
  <2> QED BY <2>1, <2>2 DEF AdvertisedIsAccepted, Contained
<1> QED BY <1>1, CodecsInvariant, PTL
===============================================================================
