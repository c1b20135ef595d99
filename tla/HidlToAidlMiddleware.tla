------------------------- MODULE HidlToAidlMiddleware -------------------------
(***************************************************************************)
(* The way of a HIDL audio port to an AIDL session                         *)
(* (utils/aidl_session/HidlToAidlMiddleware.cpp).  Where the AIDL service  *)
(* is available, the HIDL session library passes every call on to the AIDL *)
(* session of the same type and converts what comes back.                  *)
(*                                                                         *)
(* The AIDL session is that of BluetoothAudioSession, with the HIDL ports  *)
(* as its observers.  Callbacks come back with a cookie only, so the       *)
(* middleware files the port's callbacks under the cookie in a table of    *)
(* its own.  Registering and unregistering therefore take two steps, one   *)
(* under the session's mutex and one under the table's lock, and nothing   *)
(* holds the two together; a callback reads the table under neither.       *)
(***************************************************************************)
EXTENDS BluetoothAudioSession, BluetoothAudioCodecs

CONSTANTS
  LegacyTypes,   \* the HIDL session types in play
  PcmContents,   \* PCM configurations a stack may start a session with
  CodecContents, \* a2dpConfig configurations, likewise
  LeContents     \* LE audio configurations, likewise

(* The fields of the configurations, as their AIDL types declare them.     *)
PcmFields  == [ sampleRateHz : Int, channelMode : STRING, bitsPerSample : Int ]
SbcFields  == [ sampleRateHz : Int, channelMode : STRING, blockLength : Int, numSubbands : Int,
                allocMethod : STRING, bitsPerSample : Int, minBitpool : Int, maxBitpool : Int ]
AacFields  == [ objectType : STRING, sampleRateHz : Int, channelMode : STRING,
                bitsPerSample : Int, variableBitRateEnabled : BOOLEAN ]
LdacFields == [ sampleRateHz : Int, channelMode : STRING, qualityIndex : STRING,
                bitsPerSample : Int ]
OpusFields == [ samplingFrequencyHz : Int, frameDurationUs : Int, channelMode : STRING ]
CodecVariants ==
  [ tag : {"sbcConfig"}, fields : SbcFields ] \union [ tag : {"aacConfig"}, fields : AacFields ]
  \union [ tag : {"ldacConfig"}, fields : LdacFields ]
  \union [ tag : {"aptxConfig"}, fields : PcmFields ]
  \union [ tag : {"opusConfig"}, fields : OpusFields ]

ASSUME ContentsAssumption ==
  /\ PcmContents \subseteq PcmFields
  /\ CodecContents \subseteq [ codecType : STRING, config : CodecVariants ]

VARIABLES
  legacy_callback_table, \* the port whose callbacks are filed under a cookie
  m_pc,      \* where a port's call stands: idle, filing, live or erasing
  m_cookie,  \* the cookie of the port's registration
  crossed,   \* cookies given out again while an earlier owner was erasing
  calling,   \* the callback that runs: its cookie, the port it is made on, its result
  got        \* GetAudioConfig, when it was the last call: what it converted

middlewareOnly == << legacy_callback_table, m_pc, m_cookie, crossed, calling, got >>
middlewareVars == << sessionVars, middlewareOnly >>
portVars == << legacy_callback_table, m_pc, m_cookie, crossed >>

NoCall == [cookie |-> Undefined, to |-> None, status |-> "none"]
\* An uninitialised field, and a process ended by LOG(FATAL) or a bad get.
Garbage == "uninitialised"
Aborted == [ tag |-> "aborted" ]

(* find and at of the unordered_map tables.                                *)
Find(table, key, default) ==
  IF \E e \in table : e[1] = key THEN (CHOOSE e \in table : e[1] = key)[2] ELSE default

-----------------------------------------------------------------------------
(* The conversions.  A HIDL enumerator is named by a string.               *)
session_type_2_1_to_aidl_map ==
  { << "A2DP_SOFTWARE_ENCODING", "A2DP_SOFTWARE_ENCODING" >>,
    << "A2DP_HARDWARE_OFFLOAD", "A2DP_HARDWARE_OFFLOAD_ENCODING" >>,
    << "HEARING_AID_SOFTWARE_ENCODING", "HEARING_AID_SOFTWARE_ENCODING" >>,
    << "LE_AUDIO_SOFTWARE_ENCODING", "LE_AUDIO_SOFTWARE_ENCODING" >>,
    << "LE_AUDIO_SOFTWARE_DECODED", "LE_AUDIO_SOFTWARE_DECODING" >>,
    << "LE_AUDIO_HARDWARE_OFFLOAD_ENCODING", "LE_AUDIO_HARDWARE_OFFLOAD_ENCODING" >>,
    << "LE_AUDIO_HARDWARE_OFFLOAD_DECODING", "LE_AUDIO_HARDWARE_OFFLOAD_DECODING" >> }
from_session_type_2_1(type) == Find(session_type_2_1_to_aidl_map, type, "UNKNOWN")

\* RECONFIGURATION has no counterpart.
to_hidl_status(status) ==
  IF status \in {"SUCCESS", "UNSUPPORTED_CODEC_CONFIGURATION"} THEN status ELSE "FAILURE"

sample_rate_to_hidl_2_1_map ==
  { << 44100, "RATE_44100" >>, << 48000, "RATE_48000" >>, << 88200, "RATE_88200" >>,
    << 96000, "RATE_96000" >>, << 176400, "RATE_176400" >>, << 192000, "RATE_192000" >>,
    << 16000, "RATE_16000" >>, << 24000, "RATE_24000" >>, << 8000, "RATE_8000" >>,
    << 32000, "RATE_32000" >> }
\* The 2.0 conversion casts the same enumerator.
to_hidl_sample_rate(hz) == Find(sample_rate_to_hidl_2_1_map, hz, "RATE_UNKNOWN")

to_hidl_bits_per_sample(bits) ==
  Find({ << 16, "BITS_16" >>, << 24, "BITS_24" >>, << 32, "BITS_32" >> }, bits, "BITS_UNKNOWN")
to_hidl_channel_mode(mode) == IF mode \in {"MONO", "STEREO"} THEN mode ELSE "UNKNOWN"

to_hidl_pcm_config(pcm) ==
  [ tag |-> "pcmConfig",
    sampleRate |-> to_hidl_sample_rate(pcm.sampleRateHz),
    channelMode |-> to_hidl_channel_mode(pcm.channelMode),
    bitsPerSample |-> to_hidl_bits_per_sample(pcm.bitsPerSample) ]

\* OPUS and the newer codecs are not in the table, LC3 is there as UNKNOWN.
codec_type_to_hidl_2_0_map ==
  { << c, c >> : c \in {"UNKNOWN", "SBC", "AAC", "APTX", "APTX_HD", "LDAC"} }
  \union { << "LC3", "UNKNOWN" >> }
to_hidl_codec_type_2_0(codec) == Find(codec_type_to_hidl_2_0_map, codec, "UNKNOWN")

\* Mutant: one of the block lengths is missing.
sbc_block_length_to_hidl_map_Short ==
  { << 4, "BLOCKS_4" >>, << 8, "BLOCKS_8" >>, << 16, "BLOCKS_16" >> }
sbc_block_length_to_hidl_map ==
  { << 4, "BLOCKS_4" >>, << 8, "BLOCKS_8" >>, << 12, "BLOCKS_12" >>, << 16, "BLOCKS_16" >> }
to_hidl_sbc_config(sbc) ==
  [ minBitpool |-> sbc.minBitpool,
    maxBitpool |-> sbc.maxBitpool,
    sampleRate |-> to_hidl_sample_rate(sbc.sampleRateHz),
    bitsPerSample |-> to_hidl_bits_per_sample(sbc.bitsPerSample),
    channelMode |-> IF sbc.channelMode \in {"UNKNOWN", "JOINT_STEREO", "STEREO", "DUAL", "MONO"}
                    THEN sbc.channelMode ELSE Garbage,
    blockLength |-> Find(sbc_block_length_to_hidl_map, sbc.blockLength, Garbage),
    numSubbands |-> Find({ << 4, "SUBBAND_4" >>, << 8, "SUBBAND_8" >> }, sbc.numSubbands, Garbage),
    allocMethod |-> IF sbc.allocMethod \in {"ALLOC_MD_S", "ALLOC_MD_L"}
                    THEN sbc.allocMethod ELSE Garbage ]

to_hidl_aac_config(aac) ==
  [ sampleRate |-> to_hidl_sample_rate(aac.sampleRateHz),
    bitsPerSample |-> to_hidl_bits_per_sample(aac.bitsPerSample),
    channelMode |-> to_hidl_channel_mode(aac.channelMode),
    objectType |-> IF aac.objectType \in {"MPEG2_LC", "MPEG4_LC", "MPEG4_LTP", "MPEG4_SCALABLE"}
                   THEN aac.objectType ELSE Garbage,
    variableBitRate |-> IF aac.variableBitRateEnabled THEN "ENABLED" ELSE "DISABLED" ]

to_hidl_ldac_config(ldac) ==
  [ sampleRate |-> to_hidl_sample_rate(ldac.sampleRateHz),
    bitsPerSample |-> to_hidl_bits_per_sample(ldac.bitsPerSample),
    channelMode |-> IF ldac.channelMode \in {"UNKNOWN", "STEREO", "DUAL", "MONO"}
                    THEN ldac.channelMode ELSE Garbage,
    qualityIndex |-> Find({ << "HIGH", "QUALITY_HIGH" >>, << "MID", "QUALITY_MID" >>,
                            << "LOW", "QUALITY_LOW" >>, << "ABR", "QUALITY_ABR" >> },
                          ldac.qualityIndex, Garbage) ]

to_hidl_aptx_config(aptx) ==
  [ sampleRate |-> to_hidl_sample_rate(aptx.sampleRateHz),
    bitsPerSample |-> to_hidl_bits_per_sample(aptx.bitsPerSample),
    channelMode |-> to_hidl_channel_mode(aptx.channelMode) ]

\* A variant HIDL does not have leaves the union as it was made.
to_hidl_codec_config_2_0(codec) ==
  [ tag |-> "codecConfig",
    codecType |-> to_hidl_codec_type_2_0(codec.codecType),
    config |-> CASE codec.config.tag = "sbcConfig"  -> to_hidl_sbc_config(codec.config.fields)
                 [] codec.config.tag = "aacConfig"  -> to_hidl_aac_config(codec.config.fields)
                 [] codec.config.tag = "ldacConfig" -> to_hidl_ldac_config(codec.config.fields)
                 [] codec.config.tag = "aptxConfig" -> to_hidl_aptx_config(codec.config.fields)
                 [] OTHER -> [ unset |-> TRUE ] ]

\* The frame duration is taken from the sampling frequency.
to_hidl_lc3_config_2_1(lc3) ==
  [ samplingFrequency |-> to_hidl_sample_rate(lc3.samplingFrequencyHz),
    frameDuration |-> Find({ << 10000, "DURATION_10000US" >>, << 7500, "DURATION_7500US" >> },
                           lc3.samplingFrequencyHz, Garbage) ]

\* LOG(FATAL) ends the process when the codec is LC3; when it is not, it is the
\* get<lc3Config>() that does.
to_hidl_leaudio_config_2_1(unicast) ==
  LET fatal  == unicast.codec = "lc3"
      badGet == unicast.codec # "lc3"
  IN  IF fatal \/ badGet THEN Aborted
      ELSE [ tag |-> "leAudioCodecConfig",
             lc3Config |-> to_hidl_lc3_config_2_1(unicast),
             audioChannelAllocation |-> UNION unicast.streamMap ]

\* No HIDL session type leads to a broadcast session, so this one is never called.
to_hidl_leaudio_broadcast_config_2_1(streams) ==
  IF streams = << >> THEN [ tag |-> "leAudioCodecConfig", audioChannelAllocation |-> {} ]
  ELSE IF streams[1].codec # "lc3" THEN Aborted
  ELSE [ tag |-> "leAudioCodecConfig",
         lc3Config |-> to_hidl_lc3_config_2_1(streams[1]),
         audioChannelAllocation |-> UNION { streams[i].allocation : i \in DOMAIN streams } ]

\* Every union starts out as a PCM configuration of zeros.
UnsetConfig == [ tag |-> "pcmConfig", sampleRate |-> "RATE_UNKNOWN",
                 channelMode |-> "UNKNOWN", bitsPerSample |-> "BITS_UNKNOWN" ]

to_hidl_audio_config_2_0(tag, content) ==
  CASE tag = "pcmConfig"  -> to_hidl_pcm_config(content)
    [] tag = "a2dpConfig" -> to_hidl_codec_config_2_0(content)
    [] OTHER              -> UnsetConfig

to_hidl_audio_config_2_1(tag, content) ==
  CASE tag = "pcmConfig"     -> to_hidl_pcm_config(content)
    [] tag = "a2dpConfig"    -> to_hidl_codec_config_2_0(content)
    [] tag = "a2dp"          -> UnsetConfig
    [] tag = "leAudioConfig" -> to_hidl_leaudio_config_2_1(content)
    [] tag = "leAudioBroadcastConfig" -> to_hidl_leaudio_broadcast_config_2_1(content)
    [] OTHER                 -> Aborted

(* The HIDL port converts once more, to what the audio framework uses; the *)
(* channel mask and the format are named by the enumerators they stand for.*)
SampleRateToAudioFormat(rate) ==
  Find({ << "RATE_8000", 8000 >>, << "RATE_16000", 16000 >>, << "RATE_24000", 24000 >>,
         << "RATE_32000", 32000 >>, << "RATE_44100", 44100 >>, << "RATE_48000", 48000 >>,
         << "RATE_88200", 88200 >>, << "RATE_96000", 96000 >>, << "RATE_176400", 176400 >>,
         << "RATE_192000", 192000 >> }, rate, 44100)
ChannelModeToAudioFormat(mode) == IF mode = "MONO" THEN "MONO" ELSE "STEREO"
BitsPerSampleToAudioFormat(bits) ==
  Find({ << "BITS_16", 16 >>, << "BITS_24", 24 >>, << "BITS_32", 32 >> }, bits, 16)

\* None when LoadAudioConfig returns false.  The output port does the same, except
\* that a port which mixes down asks the framework for stereo.
LoadAudioConfig(hidl) ==
  IF hidl.tag # "pcmConfig" THEN None
  ELSE IF \/ hidl.sampleRate = "RATE_UNKNOWN" \/ hidl.channelMode = "UNKNOWN"
          \/ hidl.bitsPerSample = "BITS_UNKNOWN" THEN None
  ELSE [ sampleRateHz  |-> SampleRateToAudioFormat(hidl.sampleRate),
         channelMode   |-> ChannelModeToAudioFormat(hidl.channelMode),
         bitsPerSample |-> BitsPerSampleToAudioFormat(hidl.bitsPerSample) ]

-----------------------------------------------------------------------------
MiddlewareInit ==
  /\ SessionInit
  /\ session_type \in { from_session_type_2_1(t) : t \in LegacyTypes }
  /\ legacy_callback_table = [c \in Cookies \union {Undefined} |-> None]
  /\ m_pc = [p \in Ports |-> "idle"]
  /\ m_cookie = [p \in Ports |-> Undefined]
  /\ crossed = {}
  /\ calling = NoCall
  /\ got = None

\* RegisterControlResultCback up to the AIDL registration; from here on the
\* session calls back.
RegisterControlResultCback(p) ==
  /\ m_pc[p] = "idle"
  /\ \E c \in Cookies \union {Undefined} :
       /\ RegisterStatusCback(p, c)
       /\ m_cookie' = [m_cookie EXCEPT ![p] = c]
       /\ crossed' = IF \E q \in Ports : m_pc[q] = "erasing" /\ m_cookie[q] = c
                     THEN crossed \union {c} ELSE crossed \ {c}
  /\ m_pc' = [m_pc EXCEPT ![p] = "filing"]
  /\ UNCHANGED << legacy_callback_table, calling, got >>

\* The rest of it.  A refused port is filed under the undefined cookie; the caller
\* then gives up and never unregisters.
FileCallbacks(p) ==
  /\ m_pc[p] = "filing"
  /\ legacy_callback_table' = [legacy_callback_table EXCEPT ![m_cookie[p]] = p]
  /\ m_pc' = [m_pc EXCEPT ![p] = IF m_cookie[p] = Undefined THEN "idle" ELSE "live"]
  /\ UNCHANGED << sessionVars, m_cookie, crossed, calling, got >>

UnregisterControlResultCback(p) ==
  /\ m_pc[p] = "live"
  /\ UnregisterStatusCback(m_cookie[p])
  /\ m_pc' = [m_pc EXCEPT ![p] = "erasing"]
  /\ UNCHANGED << legacy_callback_table, m_cookie, crossed, calling, got >>

\* The cookie is erased whoever is filed under it by now.
EraseCallbacks(p) ==
  /\ m_pc[p] = "erasing"
  /\ legacy_callback_table' = [legacy_callback_table EXCEPT ![m_cookie[p]] = None]
  /\ m_pc' = [m_pc EXCEPT ![p] = "idle"]
  /\ UNCHANGED << sessionVars, m_cookie, crossed, calling, got >>

\* The session calls the lambda of a cookie, on its own thread and with its mutex
\* held.  The middleware sets no callback for configurations and latency modes.
Heard == {"session", "started", "suspended"}
HidlResult == IF bcast.kind = "session" THEN "none" ELSE to_hidl_status(bcast.status)
InvokeCallback(c) ==
  /\ calling = NoCall
  /\ c \in bcast.todo
  /\ bcast.kind \in Heard
  /\ legacy_callback_table[c] # None
  /\ calling' = [ cookie |-> c, to |-> legacy_callback_table[c], status |-> HidlResult ]
  /\ UNCHANGED << sessionVars, portVars, got >>
CallbackReturns ==
  /\ calling # NoCall
  /\ Callback(calling.cookie)
  /\ calling' = NoCall
  /\ UNCHANGED << portVars, got >>
\* "Unknown callback invoked!"
UnknownCallback(c) ==
  /\ calling = NoCall
  /\ bcast.kind \in Heard
  /\ legacy_callback_table[c] = None
  /\ Callback(c)
  /\ UNCHANGED middlewareOnly
NoCallback(c) ==
  /\ bcast.kind \notin Heard
  /\ Callback(c)
  /\ UNCHANGED middlewareOnly

\* The configuration a session holds was accepted by its provider; until the
\* session is ready it is the default of its variant.
Contents(tag) ==
  CASE tag = "pcmConfig"     -> { c \in PcmContents : IsSoftwarePcmConfigurationValid(c) }
    [] tag = "a2dpConfig"    -> { c \in CodecContents :
                                  IsOffloadCodecConfigurationValid(session_type, c) }
    [] tag = "leAudioConfig" -> LeContents
    [] OTHER                 -> { None }
DefaultContent(tag) ==
  CASE tag = "pcmConfig"     -> [ sampleRateHz |-> 0, channelMode |-> "UNKNOWN", bitsPerSample |-> 0 ]
    [] tag = "a2dpConfig"    -> [ codecType |-> "UNKNOWN", config |-> [ tag |-> "unset" ] ]
    [] tag = "leAudioConfig" -> [ codec |-> "lc3", samplingFrequencyHz |-> 0,
                                  frameDurationUs |-> 0, streamMap |-> {} ]
    [] OTHER                 -> None

\* GetAudioConfig of either version.
GetAudioConfigAs(p, version) ==
  /\ m_pc[p] = "live"
  /\ Unlocked
  /\ LET tag == GetAudioConfig
     IN  \E content \in IF IsSessionReady THEN Contents(tag) ELSE { DefaultContent(tag) } :
           got' = [ version |-> version, tag |-> tag, content |-> content,
                    hidl |-> IF version = "2_0" THEN to_hidl_audio_config_2_0(tag, content)
                             ELSE to_hidl_audio_config_2_1(tag, content) ]
  /\ UNCHANGED << sessionVars, portVars, calling >>

\* A port's stream requests go straight through.
ForwardStream(p, kind) ==
  /\ m_pc[p] = "live"
  /\ \E ret \in BOOLEAN : StreamCall(kind, ret)
  /\ UNCHANGED middlewareOnly

StackStep ==
  /\ \/ \E i \in Stacks, mq \in {"null", "bad", "good"}, tag \in ConfigTags,
           modes \in SUBSET LatencyModes : OnSessionStarted(i, mq, tag, modes)
     \/ OnSessionEnded
     \/ \E start_resp \in BOOLEAN, status \in Statuses : Report(start_resp, status)
     \/ \E tag \in ConfigTags : ReportAudioConfigChanged(tag)
     \/ \E allowed \in BOOLEAN : ReportLowLatencyModeAllowedChanged(allowed)
     \/ StackTakes
  /\ UNCHANGED middlewareOnly

PortStep(p) ==
  \/ RegisterControlResultCback(p)   \/ FileCallbacks(p)
  \/ UnregisterControlResultCback(p) \/ EraseCallbacks(p)
  \/ \E kind \in RequestKinds : ForwardStream(p, kind)
  \/ \E version \in {"2_0", "2_1"} : GetAudioConfigAs(p, version)

CallbackStep ==
  \/ \E c \in Cookies : InvokeCallback(c) \/ UnknownCallback(c) \/ NoCallback(c)
  \/ CallbackReturns

\* What GetAudioConfig returned is forgotten before the next call; after an abort
\* there is none.
Answered ==
  /\ got # None /\ got.hidl # Aborted
  /\ got' = None
  /\ UNCHANGED << sessionVars, portVars, calling >>

MiddlewareNext ==
  \/ got = None /\ (StackStep \/ CallbackStep \/ \E p \in Ports : PortStep(p))
  \/ Answered

MiddlewareSpec == MiddlewareInit /\ [][MiddlewareNext]_middlewareVars

-----------------------------------------------------------------------------
\* Type invariant of the middleware; a callback is only made on a port that was
\* found in the table.
MiddlewareTypeOK ==
  /\ legacy_callback_table \in [Cookies \union {Undefined} -> Ports \union {None}]
  /\ m_pc \in [Ports -> {"idle", "filing", "live", "erasing"}]
  /\ m_cookie \in [Ports -> Cookies \union {Undefined}]
  /\ crossed \subseteq Cookies \union {Undefined}
  /\ calling \in [ cookie : Cookies, to : Ports,
                  status : {"SUCCESS", "FAILURE", "none"} ] \union {NoCall}

\* A port whose registration has returned is known to the middleware, and to the
\* session, under its cookie.  The one exception is a cookie the session gave out
\* again between the two halves of its former owner's unregistration: that owner
\* then erases the entry of the new one, whose callbacks are lost for good.
KnownUnlessCrossed ==
  /\ MiddlewareTypeOK
  /\ \A p \in Ports : m_pc[p] = "live" =>
       /\ observers[m_cookie[p]] = p
       /\ m_cookie[p] \notin crossed => legacy_callback_table[m_cookie[p]] = p

\* No callback runs on a port that has unregistered.  The session's mutex keeps the
\* unregistration waiting while the port is called; only a callback that belongs to
\* the next owner of the cookie, and finds the former owner's entry, slips through.
NoStrayCallback ==
  calling # NoCall =>
    \/ m_pc[calling.to] # "idle"
    \/ observers[calling.cookie] \notin {None, calling.to}

\* A PCM configuration arrives: whatever rate, channel mode and sample size the
\* provider accepted for a software session, the HIDL port hands the same ones to
\* the audio framework; before the session is ready, or when the session holds
\* something else, the port reports that there is none rather than a wrong one.
PcmArrives ==
  got # None /\ got.hidl # Aborted =>
    LoadAudioConfig(got.hidl) =
      IF got.tag = "pcmConfig" /\ IsSoftwarePcmConfigurationValid(got.content)
      THEN got.content ELSE None

\* No two codec configurations a provider accepts look alike to a HIDL port, and none
\* of their fields arrives uninitialised, except for a codec HIDL has no name for.
CodecArrives ==
  got # None /\ got.tag = "a2dpConfig" /\ IsSessionReady =>
    \/ got.hidl.codecType = "UNKNOWN"
    \/ /\ \A f \in DOMAIN got.hidl.config \ {"minBitpool", "maxBitpool"} :
            got.hidl.config[f] \notin {Garbage, "UNKNOWN", "RATE_UNKNOWN", "BITS_UNKNOWN"}
       /\ \A other \in Contents("a2dpConfig") \ {got.content} :
            to_hidl_codec_config_2_0(other) # got.hidl

\* Asking for the configuration of an A2DP, hearing aid or LE software session never
\* ends the audio process, whatever variant the session holds and whether or not it
\* is ready.
AbortsOnlyLeOffload ==
  got # None /\ got.hidl = Aborted => session_type \in LeUnicastTypes

\* What the session holds arrives at a HIDL port: PCM and codec configurations keep
\* every field through the chain of conversions, and no question ends the process
\* but the one for an LE unicast offload configuration.
ConfigArrives == PcmArrives /\ CodecArrives /\ AbortsOnlyLeOffload
===============================================================================
