--------------------------- MODULE A2dpOffloadCodecs ---------------------------
(***************************************************************************)
(* The choice of a codec for an A2DP offload session: the codecs of        *)
(* hal/A2dpOffloadCodec{Sbc,Aac}.cpp, the factory that ranks them and the  *)
(* three calls of A2dpOffloadAudioProvider that use them.  The stack asks  *)
(* for a configuration that fits the remote device's capabilities and a    *)
(* hint, and starts a session with what it got, or with a configuration of *)
(* its own.                                                                *)
(*                                                                         *)
(* Capabilities and configurations travel as octets in the signalling      *)
(* format of A2DP.  Here a field of the format is the set of its bits that *)
(* are set, each bit named for the value it stands for, and a number where *)
(* the field is one; octets of the wrong length only have a size.          *)
(***************************************************************************)
EXTENDS BluetoothAudioCodecs, Sequences, SequencesExt

CONSTANTS
  Extensibility,  \* values of the build switch kEnableA2dpCodecExtensibility
  RemoteLists,    \* remote_a2dp_capabilities: sequences of [id, seid, capabilities]
  Hints,          \* A2dpConfigurationHint: [codecId, codecParameters]
  Foreign,        \* configurations the stack did not get from the provider
  Legacy,         \* a2dpConfig variants the stack may start a session with
  NoValue         \* nullptr, std::nullopt and the bit -1

VARIABLES
  extensible,  \* kEnableA2dpCodecExtensibility of this build
  request,     \* the arguments of the last getA2dpConfiguration
  proposal,    \* the configuration it returned
  started      \* startSession, when it was the last call: configuration and outcome

codecsVars == << extensible, request, proposal, started >>

(* The octets of SBC and of AAC: the bits of each field, 8 bits for a      *)
(* bitpool and 23 for a bit rate.                                          *)
SbcBits ==
  [ sampling_frequency : SUBSET {16000, 32000, 44100, 48000},
    channel_mode       : SUBSET {"MONO", "DUAL", "STEREO", "JOINT"},
    block_length       : SUBSET {4, 8, 12, 16},
    subbands           : SUBSET {4, 8},
    allocation_method  : SUBSET {"SNR", "LOUDNESS"},
    min_bitpool        : 0 .. 255,
    max_bitpool        : 0 .. 255 ]
Bitrates == 0 .. 2^23 - 1
AacBits ==
  [ object_type : SUBSET {"MPEG2_LC", "MPEG4_LC", "MPEG4_LTP", "MPEG4_SCALABLE",
                          "MPEG4_HE_V1", "MPEG4_HE_V2", "MPEG4_ELD_V2"},
    sampling_frequency : SUBSET {8000, 11025, 12000, 16000, 22050, 24000, 32000, 44100, 48000,
                                 64000, 88200, 96000},
    channels    : SUBSET {1, 2, 6, 8},
    vbr         : BOOLEAN,
    bitrate     : Bitrates ]
Octets(bits) == [ size : Nat, bits : bits ]

(* An end point of the remote device and the parameters of a hint.         *)
A2dpRemoteCapabilities ==
       [ id : {"SBC"}, seid : Int, capabilities : Octets(SbcBits) ]
  \cup [ id : {"AAC"}, seid : Int, capabilities : Octets(AacBits) ]
  \cup [ id : STRING \ {"SBC", "AAC"}, seid : Int, capabilities : Octets(SbcBits \cup AacBits) ]
ChannelMode == { "UNKNOWN", "MONO", "STEREO", "DUALMONO" }
HintParameters ==
  [ samplingFrequencyHz : Int, channelMode : ChannelMode, minBitrate : Int, maxBitrate : Int ]

(* What getA2dpConfiguration returns.                                      *)
CodecParameters ==
  [ channelMode : ChannelMode, samplingFrequencyHz : Int, bitdepth : Int,
    minBitrate : Int, maxBitrate : Int ]
A2dpConfiguration ==
       [ id : {"SBC"}, configuration : Octets(SbcBits), parameters : CodecParameters,
         remoteSeid : Int ]
  \cup [ id : {"AAC"}, configuration : Octets(AacBits), parameters : CodecParameters,
         remoteSeid : Int ]
Requests == [ remotes : RemoteLists, hint : Hints, stray : {NoValue, "AAC", "SBC"} ]

\* The stack sends what the interface's types allow, and no value of theirs stands
\* for the lack of one.
ASSUME ExtensibilityAssumption == Extensibility \subseteq BOOLEAN
ASSUME RemotesAssumption == \A remotes \in RemoteLists : remotes \in Seq(A2dpRemoteCapabilities)
ASSUME HintsAssumption ==
  \A hint \in Hints :
    hint \in [ codecId : STRING, codecParameters : {NoValue} \cup HintParameters ]
ASSUME NoValueAssumption ==
  /\ NoValue \notin Int
  /\ NoValue \notin { "AAC", "SBC", "MONO", "DUAL", "STEREO", "JOINT", "SNR", "LOUDNESS",
                     "MPEG2_LC", "MPEG4_LC" }
  /\ NoValue \notin A2dpConfiguration
  /\ NoValue \notin Requests

-----------------------------------------------------------------------------
(* A2dpBits.  find_active_bit finds the bit of a field if there is just    *)
(* one; set on a range keeps the low bits of a number.                     *)
find_active_bit(field) ==
  IF \E b \in field : field = {b} THEN CHOOSE b \in field : TRUE ELSE NoValue
SetRange(len, value) == value % 2^len

(* The first bit in order of preference that both sides have, a hinted one *)
(* before all others.                                                      *)
\* Mutant: the hint is taken without a look at the remote device.
SelectTrustingHint(hint, order, lcaps, rcaps) ==
  IF hint \in lcaps THEN hint
  ELSE LET i == SelectInSeq(order, LAMBDA b : b \in lcaps \intersect rcaps)
       IN  IF i = 0 THEN NoValue ELSE order[i]
Select(hint, order, lcaps, rcaps) ==
  IF hint \in lcaps \intersect rcaps THEN hint
  ELSE LET i == SelectInSeq(order, LAMBDA b : b \in lcaps \intersect rcaps)
       IN  IF i = 0 THEN NoValue ELSE order[i]

(* An A2dpStatus is a fault and the field it is about.  The faults are      *)
(* looked for in order: FirstFault is the first check that fails.  A field *)
(* must have just one bit set, and a bit of the local capabilities.        *)
Ok == << "OK", "" >>
FirstFault(checks) ==
  LET i == SelectInSeq(checks, LAMBDA check : check[1])
  IN  IF i = 0 THEN Ok ELSE << checks[i][2], checks[i][3] >>
NotOneBit(field, f) == << find_active_bit(field) = NoValue, "INVALID", f >>
NotLocal(field, local, f) == << find_active_bit(field) \notin local, "NOT_SUPPORTED", f >>

-----------------------------------------------------------------------------
(* SBC.  The capabilities the constructor sets up.                         *)
SbcSize == 4
SbcCapabilities ==
  [ sampling_frequency |-> {44100, 48000},
    channel_mode       |-> {"MONO", "DUAL", "STEREO", "JOINT"},
    block_length       |-> {4, 8, 12, 16},
    subbands           |-> {4, 8},
    allocation_method  |-> {"SNR", "LOUDNESS"},
    min_bitpool        |-> 2,
    max_bitpool        |-> 250 ]

SbcGetSamplingFrequencyBit(hz) ==
  IF hz \in {16000, 32000, 44100, 48000} THEN hz ELSE NoValue
\* kChannelModeJointStereo | kChannelModeStereo is 7 | 6, the joint stereo bit.
SbcGetChannelModeBit(mode) ==
  CASE mode = "STEREO"   -> "JOINT"
    [] mode = "DUALMONO" -> "DUAL"
    [] mode = "MONO"     -> "MONO"
    [] OTHER             -> NoValue
SbcGetChannelModeEnum(bit) ==
  CASE bit = "MONO"              -> "MONO"
    [] bit = "DUAL"              -> "DUALMONO"
    [] bit \in {"STEREO", "JOINT"} -> "STEREO"
    [] OTHER                     -> "UNKNOWN"

GetFrameSize(config, bitpool) ==
  LET subbands == find_active_bit(config.subbands)
      blocks   == find_active_bit(config.block_length)
      bits == 4 * subbands * (IF "MONO" \in config.channel_mode THEN 1 ELSE 2)
            + blocks * bitpool * (IF "DUAL" \in config.channel_mode THEN 2 ELSE 1)
            + (IF "JOINT" \in config.channel_mode THEN subbands ELSE 0)
  IN  4 + (bits + 7) \div 8

GetBitrate(config, bitpool) ==
  (8 * GetFrameSize(config, bitpool) * find_active_bit(config.sampling_frequency))
    \div (find_active_bit(config.block_length) * find_active_bit(config.subbands))

(* A binary search for the largest bitpool below the bit rate, in steps of *)
(* 128 down to 1.                                                          *)
SearchStep(config, bitrate, i, bitpool) ==
  IF bitrate > GetBitrate(config, bitpool + i) THEN bitpool + i ELSE bitpool
EvenBitpool(config, bitrate) ==
  LET Step(i, bitpool) == SearchStep(config, bitrate, i, bitpool)
  IN  Step(2, Step(4, Step(8, Step(16, Step(32, Step(64, Step(128, 0)))))))
BitpoolSearch(config, bitrate) ==
  SearchStep(config, bitrate, 1, EvenBitpool(config, bitrate))
Clamp(found) == IF found < 2 THEN 2 ELSE IF found > 250 THEN 250 ELSE found
\* Mutants: the result is not clamped; the search stops a step early.
GetBitpoolUnclamped(config, bitrate) == BitpoolSearch(config, bitrate)
GetBitpoolEven(config, bitrate) == Clamp(EvenBitpool(config, bitrate))
GetBitpool(config, bitrate) == Clamp(BitpoolSearch(config, bitrate))

\* Every block length with a single bit is taken, and a minimum above the
\* maximum is not noticed.
SbcChecks(size, config) ==
  LET l == SbcCapabilities
  IN  << << size # SbcSize, "BAD_LENGTH", "" >>,
         NotOneBit(config.sampling_frequency, "sampling_frequency"),
         NotLocal(config.sampling_frequency, l.sampling_frequency, "sampling_frequency"),
         NotOneBit(config.channel_mode, "channel_mode"),
         NotLocal(config.channel_mode, l.channel_mode, "channel_mode"),
         NotOneBit(config.block_length, "block_length"),
         NotOneBit(config.subbands, "subbands"),
         NotLocal(config.subbands, l.subbands, "subbands"),
         NotOneBit(config.allocation_method, "allocation_method"),
         NotLocal(config.allocation_method, l.allocation_method, "allocation_method"),
         << config.min_bitpool < 2 \/ config.min_bitpool > 250, "INVALID", "min_bitpool" >>,
         << config.min_bitpool < l.min_bitpool, "NOT_SUPPORTED", "min_bitpool" >>,
         << config.max_bitpool < 2 \/ config.max_bitpool > 250, "INVALID", "max_bitpool" >>,
         << config.max_bitpool > l.max_bitpool, "NOT_SUPPORTED", "max_bitpool" >> >>

SbcParseConfiguration(configuration) ==
  LET config == configuration.bits
      status == FirstFault(SbcChecks(configuration.size, config))
  IN  [ status |-> status,
        parameters |->
          IF status # Ok THEN NoValue
          ELSE [ channelMode |-> SbcGetChannelModeEnum(find_active_bit(config.channel_mode)),
                 samplingFrequencyHz |-> find_active_bit(config.sampling_frequency),
                 bitdepth   |-> 16,
                 minBitrate |-> GetBitrate(config, config.min_bitpool),
                 maxBitrate |-> GetBitrate(config, config.max_bitpool) ] ]

(* The fields are chosen one by one; without a common bit there is no      *)
(* configuration.                                                          *)
SbcSelect(rcaps, hint) ==
  LET l == SbcCapabilities
      sf_hint == IF hint = NoValue THEN NoValue
                 ELSE SbcGetSamplingFrequencyBit(hint.samplingFrequencyHz)
      cm_hint == IF hint = NoValue THEN NoValue ELSE SbcGetChannelModeBit(hint.channelMode)
  IN  [ sampling_frequency |->
          Select(sf_hint, <<44100, 48000>>, l.sampling_frequency, rcaps.sampling_frequency),
        channel_mode |-> Select(cm_hint, <<"JOINT", "STEREO", "DUAL", "MONO">>,
                                l.channel_mode, rcaps.channel_mode),
        block_length |-> Select(NoValue, <<16, 12, 8, 4>>, l.block_length, rcaps.block_length),
        subbands     |-> Select(NoValue, <<8, 4>>, l.subbands, rcaps.subbands),
        allocation_method |-> Select(NoValue, <<"LOUDNESS", "SNR">>,
                                     l.allocation_method, rcaps.allocation_method) ]

(* The bitpool range: the remote device's if it makes sense, widened to    *)
(* the local maximum, and narrowed to the bit rates of the hint.           *)
Larger(a, b)  == IF a > b THEN a ELSE b
Smaller(a, b) == IF a < b THEN a ELSE b
\* Mutant: the hinted maximum is combined with std::max.
SbcBitpoolsLoose(config, rcaps, hint) ==
  [ min |-> 2,
    max |-> IF hint = NoValue THEN 250 ELSE Larger(250, GetBitpool(config, hint.maxBitrate)) ]
SbcBitpools(config, rcaps, hint) ==
  LET Sane == /\ rcaps.min_bitpool \in 2 .. 250
              /\ rcaps.max_bitpool \in 2 .. 250
              /\ rcaps.min_bitpool <= rcaps.max_bitpool
      min == Larger(IF Sane THEN rcaps.min_bitpool ELSE 2, SbcCapabilities.min_bitpool)
      max == Larger(IF Sane THEN rcaps.max_bitpool ELSE 250, SbcCapabilities.max_bitpool)
  IN  [ min |-> IF hint = NoValue THEN min
                ELSE Larger(min, GetBitpool(config, hint.minBitrate)),
        max |-> IF hint # NoValue /\ hint.maxBitrate # 0 /\ hint.maxBitrate >= hint.minBitrate
                THEN Smaller(max, GetBitpool(config, hint.maxBitrate)) ELSE max ]

SbcBuildConfiguration(remote, hint) ==
  LET chosen  == SbcSelect(remote.bits, hint)
      config  == [ sampling_frequency |-> {chosen.sampling_frequency},
                   channel_mode       |-> {chosen.channel_mode},
                   block_length       |-> {chosen.block_length},
                   subbands           |-> {chosen.subbands},
                   allocation_method  |-> {chosen.allocation_method},
                   min_bitpool        |-> 0,
                   max_bitpool        |-> 0 ]
      bitpool == SbcBitpools(config, remote.bits, hint)
  IN  IF remote.size # SbcSize \/ \E f \in DOMAIN chosen : chosen[f] = NoValue
      THEN NoValue
      ELSE [ size |-> SbcSize,
             bits |-> [config EXCEPT !.min_bitpool = SetRange(8, bitpool.min),
                                     !.max_bitpool = SetRange(8, bitpool.max)] ]

-----------------------------------------------------------------------------
(* AAC.  The local capabilities leave the bit rate at 0.                   *)
AacSize == 6
AacCapabilities ==
  [ object_type        |-> {"MPEG2_LC", "MPEG4_LC"},
    sampling_frequency |-> {44100, 48000},
    channels           |-> {1, 2},
    vbr                |-> TRUE,
    bitrate            |-> 0 ]

AacGetSamplingFrequencyBit(hz) ==
  IF hz \in {8000, 11025, 12000, 16000, 22050, 24000, 32000, 44100, 48000, 64000, 88200, 96000}
  THEN hz ELSE NoValue
GetChannelsBit(mode) ==
  CASE mode = "MONO" -> 1 [] mode = "STEREO" -> 2 [] OTHER -> NoValue
AacGetChannelModeEnum(bit) ==
  CASE bit = 1 -> "MONO" [] bit = 2 -> "STEREO" [] OTHER -> "UNKNOWN"

AacChecks(size, config) ==
  LET l == AacCapabilities
  IN  << << size # AacSize, "BAD_LENGTH", "" >>,
         NotOneBit(config.object_type, "object_type"),
         NotLocal(config.object_type, l.object_type, "object_type"),
         NotOneBit(config.sampling_frequency, "sampling_frequency"),
         NotLocal(config.sampling_frequency, l.sampling_frequency, "sampling_frequency"),
         NotOneBit(config.channels, "channels"),
         NotLocal(config.channels, l.channels, "channels"),
         << config.vbr /\ ~l.vbr, "NOT_SUPPORTED", "vbr" >>,
         << config.vbr /\ l.bitrate # 0 /\ config.bitrate > l.bitrate, "NOT_SUPPORTED", "bitrate" >> >>

AacParseConfiguration(configuration) ==
  LET config == configuration.bits
      status == FirstFault(AacChecks(configuration.size, config))
  IN  [ status |-> status,
        parameters |->
          IF status # Ok THEN NoValue
          ELSE [ channelMode |-> AacGetChannelModeEnum(find_active_bit(config.channels)),
                 samplingFrequencyHz |-> find_active_bit(config.sampling_frequency),
                 bitdepth   |-> 24,
                 minBitrate |-> IF config.vbr THEN 0 ELSE config.bitrate,
                 maxBitrate |-> config.bitrate ] ]

AacSelect(rcaps, hint) ==
  LET l == AacCapabilities
      sf_hint == IF hint = NoValue THEN NoValue
                 ELSE AacGetSamplingFrequencyBit(hint.samplingFrequencyHz)
      ch_hint == IF hint = NoValue THEN NoValue ELSE GetChannelsBit(hint.channelMode)
  IN  [ object_type |-> Select(NoValue, <<"MPEG2_LC", "MPEG4_LC">>, l.object_type, rcaps.object_type),
        sampling_frequency |-> Select(sf_hint, <<96000, 88200, 48000, 44100>>,
                                      l.sampling_frequency, rcaps.sampling_frequency),
        channels |-> Select(ch_hint, <<2, 1>>, l.channels, rcaps.channels) ]

AacVbr(rcaps, hint) ==
  /\ hint = NoValue \/ hint.minBitrate = 0
  /\ AacCapabilities.vbr
  /\ rcaps.vbr

\* The remote device's own maximum bit rate is not looked at.
AacBitrate(hint) ==
  LET local == AacCapabilities.bitrate
  IN  IF hint = NoValue \/ hint.maxBitrate <= 0 THEN local
      ELSE IF local # 0 THEN Smaller(hint.maxBitrate, local) ELSE hint.maxBitrate

AacBuildConfiguration(remote, hint) ==
  LET chosen == AacSelect(remote.bits, hint)
  IN  IF remote.size # AacSize \/ \E f \in DOMAIN chosen : chosen[f] = NoValue
      THEN NoValue
      ELSE [ size |-> AacSize,
             bits |-> [ object_type        |-> {chosen.object_type},
                        sampling_frequency |-> {chosen.sampling_frequency},
                        channels           |-> {chosen.channels},
                        vbr                |-> AacVbr(remote.bits, hint),
                        bitrate            |-> SetRange(23, AacBitrate(hint)) ] ]
-----------------------------------------------------------------------------
(* The factory.  Codecs are tried in the order of their rank, a hinted one *)
(* first.                                                                  *)
ranked_codecs == << "AAC", "SBC" >>
GetCodec(id) == IF id \in {"AAC", "SBC"} THEN id ELSE NoValue

ParseConfiguration(id, configuration) ==
  IF id = "SBC" THEN SbcParseConfiguration(configuration)
  ELSE AacParseConfiguration(configuration)
BuildConfiguration(id, remote, hint) ==
  IF id = "SBC" THEN SbcBuildConfiguration(remote, hint)
  ELSE AacBuildConfiguration(remote, hint)

RankedWithout(codec) ==
  CASE codec = "AAC" -> << "SBC" >> [] codec = "SBC" -> << "AAC" >> [] OTHER -> ranked_codecs
\* Mutant: a hinted codec is the only one that is tried.
CodecsToTryHintOnly(hinted, stray) ==
  IF GetCodec(hinted) # NoValue THEN << hinted >> ELSE RankedWithout(stray)
\* copy_if compares every codec with *hinted_codec.  Without a hinted codec that
\* reads past the end of the vector, and stray is the codec the read happens to
\* give, if any.
CodecsToTry(hinted, stray) ==
  IF GetCodec(hinted) # NoValue THEN << hinted >> \o RankedWithout(hinted)
  ELSE RankedWithout(stray)

(* The first capabilities of a codec in the remote device's list; another  *)
(* end point with the same codec is not considered.                        *)
RemoteEntry(remotes, id) ==
  LET i == SelectInSeq(remotes, LAMBDA rc : rc.id = id)
  IN  IF i = 0 THEN NoValue ELSE remotes[i]

BuildFor(remotes, id, hint) ==
  IF RemoteEntry(remotes, id) = NoValue THEN NoValue
  ELSE BuildConfiguration(id, RemoteEntry(remotes, id).capabilities, hint)

\* assert is compiled out of a release build: a status other than OK would leave
\* the parameters unset and return the configuration all the same.
GetConfiguration(remotes, hint, stray) ==
  LET codecs == CodecsToTry(hint.codecId, stray)
      i == SelectInSeq(codecs, LAMBDA c : BuildFor(remotes, c, hint.codecParameters) # NoValue)
  IN  IF i = 0 THEN NoValue
      ELSE LET config == BuildFor(remotes, codecs[i], hint.codecParameters)
           IN  [ id |-> codecs[i],
                 configuration |-> config,
                 parameters |-> ParseConfiguration(codecs[i], config).parameters,
                 remoteSeid |-> RemoteEntry(remotes, codecs[i]).seid ]

-----------------------------------------------------------------------------
(* The provider.                                                           *)
CodecsInit ==
  /\ extensible \in Extensibility
  /\ request = NoValue
  /\ proposal = NoValue
  /\ started = NoValue

\* Without codec extensibility the call is an unknown transaction.
getA2dpConfiguration(remotes, hint) ==
  /\ extensible
  /\ \E stray \in {NoValue, "AAC", "SBC"} :
       /\ GetCodec(hint.codecId) # NoValue => stray = NoValue
       /\ request' = [ remotes |-> remotes, hint |-> hint, stray |-> stray ]
       /\ proposal' = GetConfiguration(remotes, hint, stray)
  /\ UNCHANGED << extensible, started >>

(* startSession with the octets of a codec, whatever the build switch; the *)
(* same check answers parseA2dpConfiguration.                              *)
startSessionA2dp(id, configuration) ==
  /\ started' = [ tag |-> "a2dp", id |-> id, config |-> configuration,
                  accepted |-> /\ GetCodec(id) # NoValue
                               /\ ParseConfiguration(id, configuration).status = Ok ]
  /\ UNCHANGED << extensible, request, proposal >>

(* startSession with a configuration of the older interface.               *)
startSessionLegacy(type, config) ==
  /\ started' = [ tag |-> "a2dpConfig", id |-> config.codecType, config |-> config,
                  accepted |-> IsOffloadCodecConfigurationValid(type, config) ]
  /\ UNCHANGED << extensible, request, proposal >>

\* The stack starts what was proposed to it, or, when it did not ask for a proposal,
\* a configuration of its own.
StartProposed ==
  /\ proposal # NoValue
  /\ startSessionA2dp(proposal.id, proposal.configuration)
StartForeign ==
  /\ request = NoValue /\ started = NoValue
  /\ \E f \in Foreign : startSessionA2dp(f.id, f.configuration)
StartLegacy ==
  /\ request = NoValue /\ started = NoValue
  /\ \E type \in A2dpOffload, c \in Legacy : startSessionLegacy(type, c)
Ask ==
  /\ request = NoValue /\ started = NoValue
  /\ \E remotes \in RemoteLists, hint \in Hints : getA2dpConfiguration(remotes, hint)
\* The codecs keep no state, so the next device is met as if it were the first.
NextDevice ==
  /\ request # NoValue \/ started # NoValue
  /\ request' = NoValue
  /\ proposal' = NoValue
  /\ started' = NoValue
  /\ UNCHANGED extensible

CodecsNext == StartProposed \/ StartForeign \/ StartLegacy \/ Ask \/ NextDevice
CodecsSpec == CodecsInit /\ [][CodecsNext]_codecsVars

-----------------------------------------------------------------------------
\* Type invariant: what a proposal and a start are made of.
CodecsTypeOK ==
  /\ extensible \in BOOLEAN
  /\ request \in {NoValue} \cup Requests
  /\ proposal \in {NoValue} \cup A2dpConfiguration
  /\ started # NoValue => started.accepted \in BOOLEAN

\* The assertion of A2dpOffloadCodecFactory::GetConfiguration: the configuration a
\* codec builds, from whatever the remote device announces and the stack hints at,
\* is one the same codec parses without a fault; and the session the stack then
\* starts with it is accepted.
ProposalAccepted ==
  /\ CodecsTypeOK
  /\ proposal # NoValue =>
       /\ ParseConfiguration(proposal.id, proposal.configuration).status = Ok
       /\ started # NoValue /\ started.tag = "a2dp" /\ started.config = proposal.configuration
            => started.accepted

\* What BuildConfiguration picks is picked once per field and supported by both
\* sides, and a sampling frequency both sides support is not overruled when it is
\* hinted at.
Entry == RemoteEntry(request.remotes, proposal.id).capabilities.bits
LocalCapabilities(id) == IF id = "SBC" THEN SbcCapabilities ELSE AacCapabilities
ChosenByBoth ==
  proposal # NoValue =>
    LET fields == { f \in DOMAIN Entry : f \notin {"min_bitpool", "max_bitpool", "vbr", "bitrate"} }
        params == request.hint.codecParameters
        both(f) == LocalCapabilities(proposal.id)[f] \intersect Entry[f]
    IN  /\ \A f \in fields : \E b \in both(f) : proposal.configuration.bits[f] = {b}
        /\ params # NoValue /\ params.samplingFrequencyHz \in both("sampling_frequency") =>
             proposal.parameters.samplingFrequencyHz = params.samplingFrequencyHz

\* GetBitpool's halving finds what a search over all bitpools would: the largest
\* one whose bit rate is below the hint, within 2 to 250.
BitpoolExact ==
  proposal # NoValue /\ proposal.id = "SBC" /\ request.hint.codecParameters # NoValue =>
    LET config == proposal.configuration.bits
    IN  \A rate \in { request.hint.codecParameters.minBitrate,
                      request.hint.codecParameters.maxBitrate } :
          LET found == GetBitpool(config, rate)
          IN  /\ found \in 2 .. 250
              /\ found > 2   => GetBitrate(config, found) < rate
              /\ found < 250 => GetBitrate(config, found + 1) >= rate

\* The configuration never lets the encoder exceed the maximum bit rate of a sound
\* hint, unless even the smallest bitpool does.
RateUnderHint ==
  proposal # NoValue /\ request.hint.codecParameters # NoValue =>
    LET params == request.hint.codecParameters
    IN  params.maxBitrate > 0 /\ params.maxBitrate >= params.minBitrate =>
          \/ proposal.parameters.maxBitrate <= params.maxBitrate
          \/ proposal.id = "SBC" /\ proposal.configuration.bits.max_bitpool = 2

\* The factory falls back: it comes back without a configuration only when no codec
\* it tries fits the end point the remote device lists first for it, and with a
\* codec other than the hinted one only when the hinted one does not fit.  The read
\* past the end can cost a codec its turn only when the hint names no codec.
FallsBack ==
  request # NoValue =>
    LET hint == request.hint
        Fits(c) == BuildFor(request.remotes, c, hint.codecParameters) # NoValue
    IN  /\ proposal = NoValue => \A c \in {"AAC", "SBC"} : Fits(c) => c = request.stray
        /\ proposal # NoValue /\ hint.codecId \in {"AAC", "SBC"} /\ proposal.id # hint.codecId
             => ~Fits(hint.codecId)

\* A session of the older interface starts exactly with what getProviderCapabilities
\* advertises for its codec.
AdvertisedIsAccepted ==
  started # NoValue /\ started.tag = "a2dpConfig" =>
    ( started.accepted <=>
        /\ started.id \in kDefaultOffloadA2dpCodecCapabilities
        /\ LET cap == GetA2dpOffloadCodecCapabilities(started.id)
               specific == started.config.config
           IN  /\ specific.tag = cap.tag
               /\ \A f \in DOMAIN cap.fields : specific.fields[f] \in cap.fields[f]
               /\ started.id = "SBC" => /\ 2 <= specific.fields.minBitpool
                                        /\ specific.fields.minBitpool <= specific.fields.maxBitpool
                                        /\ specific.fields.maxBitpool <= 53 )
================================================================================
