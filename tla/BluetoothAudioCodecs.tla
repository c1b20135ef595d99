-------------------------- MODULE BluetoothAudioCodecs --------------------------
(***************************************************************************)
(* The codec tables of the AIDL library                                    *)
(* (utils/aidl_session/BluetoothAudioCodecs.cpp): what the providers       *)
(* advertise and which configurations their startSession lets through.     *)
(*                                                                         *)
(* A capability gives a set of values for each field, a configuration one  *)
(* value; the value is contained in the vector when it is in the set.      *)
(***************************************************************************)
EXTENDS Integers

kDefaultSoftwarePcmCapabilities ==
  [ sampleRateHz  |-> {8000, 16000, 24000, 32000, 44100, 48000, 88200, 96000},
    channelMode   |-> {"MONO", "STEREO"},
    bitsPerSample |-> {16, 24, 32} ]

kDefaultOffloadSbcCapability ==
  [ sampleRateHz  |-> {44100},
    channelMode   |-> {"MONO", "JOINT_STEREO"},
    blockLength   |-> {4, 8, 12, 16},
    numSubbands   |-> {8},
    allocMethod   |-> {"ALLOC_MD_L"},
    bitsPerSample |-> {16} ]
SbcMinBitpool == 2
SbcMaxBitpool == 53

kDefaultOffloadAacCapability ==
  [ objectType    |-> {"MPEG2_LC"},
    sampleRateHz  |-> {44100},
    channelMode   |-> {"STEREO"},
    bitsPerSample |-> {16} ]
AacVariableBitRateSupported == TRUE

kDefaultOffloadLdacCapability ==
  [ sampleRateHz  |-> {44100, 48000, 88200, 96000},
    channelMode   |-> {"DUAL", "STEREO"},
    qualityIndex  |-> {"HIGH"},
    bitsPerSample |-> {16, 24, 32} ]

kDefaultOffloadAptxCapability ==
  [ sampleRateHz |-> {44100, 48000}, channelMode |-> {"STEREO"}, bitsPerSample |-> {16} ]

kDefaultOffloadAptxHdCapability ==
  [ sampleRateHz |-> {44100, 48000}, channelMode |-> {"STEREO"}, bitsPerSample |-> {24} ]

kDefaultOffloadOpusCapability ==
  [ samplingFrequencyHz |-> {48000},
    frameDurationUs     |-> {10000, 20000},
    channelMode         |-> {"MONO", "STEREO"} ]

A2dpOffload == { "A2DP_HARDWARE_OFFLOAD_ENCODING", "A2DP_HARDWARE_OFFLOAD_DECODING" }

(* Every field of the configuration is in the vector of the capability.    *)
Contained(capability, config) ==
  \A f \in DOMAIN capability : config[f] \in capability[f]

(* A configuration of a codec is [tag, fields]: the variant of the union   *)
(* and its record.                                                         *)
IsOffloadSbcConfigurationValid(specific) ==
  /\ specific.tag = "sbcConfig"
  /\ Contained(kDefaultOffloadSbcCapability, specific.fields)
  /\ specific.fields.minBitpool <= specific.fields.maxBitpool
  /\ SbcMinBitpool <= specific.fields.minBitpool
  /\ SbcMaxBitpool >= specific.fields.maxBitpool

IsOffloadAacConfigurationValid(specific) ==
  /\ specific.tag = "aacConfig"
  /\ Contained(kDefaultOffloadAacCapability, specific.fields)
  /\ specific.fields.variableBitRateEnabled => AacVariableBitRateSupported

IsOffloadLdacConfigurationValid(specific) ==
  /\ specific.tag = "ldacConfig"
  /\ Contained(kDefaultOffloadLdacCapability, specific.fields)

IsOffloadAptxConfigurationValid(specific) ==
  /\ specific.tag = "aptxConfig"
  /\ Contained(kDefaultOffloadAptxCapability, specific.fields)

\* Mutant: aptX HD is checked against the table of aptX.
IsOffloadAptxHdAsAptx(specific) == IsOffloadAptxConfigurationValid(specific)

IsOffloadAptxHdConfigurationValid(specific) ==
  /\ specific.tag = "aptxConfig"
  /\ Contained(kDefaultOffloadAptxHdCapability, specific.fields)

IsOffloadOpusConfigurationValid(specific) ==
  /\ specific.tag = "opusConfig"
  /\ Contained(kDefaultOffloadOpusCapability, specific.fields)

IsOffloadCodecConfigurationValid(type, config) ==
  /\ type \in A2dpOffload
  /\ \/ config.codecType = "SBC"     /\ IsOffloadSbcConfigurationValid(config.config)
     \/ config.codecType = "AAC"     /\ IsOffloadAacConfigurationValid(config.config)
     \/ config.codecType = "LDAC"    /\ IsOffloadLdacConfigurationValid(config.config)
     \/ config.codecType = "APTX"    /\ IsOffloadAptxConfigurationValid(config.config)
     \/ config.codecType = "APTX_HD" /\ IsOffloadAptxHdConfigurationValid(config.config)
     \/ config.codecType = "OPUS"    /\ IsOffloadOpusConfigurationValid(config.config)

IsSoftwarePcmConfigurationValid(config) ==
  Contained(kDefaultSoftwarePcmCapabilities, config)

(* What getProviderCapabilities advertises for an A2DP offload session: a  *)
(* variant and a table for each codec.                                     *)
kDefaultOffloadA2dpCodecCapabilities ==
  { "SBC", "AAC", "LDAC", "APTX", "APTX_HD", "OPUS" }
GetA2dpOffloadCodecCapabilities(codec) ==
  CASE codec = "SBC"     -> [tag |-> "sbcConfig",  fields |-> kDefaultOffloadSbcCapability]
    [] codec = "AAC"     -> [tag |-> "aacConfig",  fields |-> kDefaultOffloadAacCapability]
    [] codec = "LDAC"    -> [tag |-> "ldacConfig", fields |-> kDefaultOffloadLdacCapability]
    [] codec = "APTX"    -> [tag |-> "aptxConfig", fields |-> kDefaultOffloadAptxCapability]
    [] codec = "APTX_HD" -> [tag |-> "aptxConfig", fields |-> kDefaultOffloadAptxHdCapability]
    [] codec = "OPUS"    -> [tag |-> "opusConfig", fields |-> kDefaultOffloadOpusCapability]
=================================================================================
