------------------------------ MODULE MCA2dpCodecs ------------------------------
(* Negotiations with one remote device: SBC end points over a grid of          *)
(* capabilities, AAC end points, lists with both and with two of a kind, and    *)
(* the sessions of a stack that does not negotiate.                             *)
EXTENDS A2dpOffloadCodecs

Sbc(sf, cm, bl, sb, am, min, max) ==
  [ size |-> 4,
    bits |-> [ sampling_frequency |-> sf, channel_mode |-> cm, block_length |-> bl,
               subbands |-> sb, allocation_method |-> am,
               min_bitpool |-> min, max_bitpool |-> max ] ]
Aac(ot, sf, ch, vbr, bitrate) ==
  [ size |-> 6,
    bits |-> [ object_type |-> ot, sampling_frequency |-> sf, channels |-> ch,
               vbr |-> vbr, bitrate |-> bitrate ] ]

SbcRemotes ==
  { Sbc(sf, cm, bl, sb, am, bp[1], bp[2]) :
      sf \in {{16000}, {44100}, {16000, 48000}, {44100, 48000}},
      cm \in {{}, {"MONO"}, {"DUAL"}, {"STEREO", "MONO"}, {"MONO", "DUAL", "STEREO", "JOINT"}},
      bl \in {{}, {4, 16}, {8}},
      sb \in {{4}, {4, 8}},
      am \in {{"SNR"}, {"SNR", "LOUDNESS"}},
      bp \in {<<2, 53>>, <<0, 255>>, <<40, 20>>, <<100, 200>>} }
AacRemotes ==
  { Aac(ot, sf, ch, vbr, rate) :
      ot \in {{"MPEG2_LC", "MPEG4_LC"}, {"MPEG4_LC"}, {"MPEG4_LTP"}},
      sf \in {{}, {44100, 48000}, {8000, 44100}, {96000}},
      ch \in {{1}, {1, 2}, {6}}, vbr \in BOOLEAN, rate \in {0, 320000} }

GoodSbc  == Sbc({44100, 48000}, {"MONO", "DUAL", "STEREO", "JOINT"}, {16}, {8}, {"LOUDNESS"}, 2, 53)
MonoSbc  == Sbc({16000}, {"MONO"}, {16}, {8}, {"LOUDNESS"}, 2, 53)
GoodAac  == Aac({"MPEG2_LC"}, {44100}, {2}, TRUE, 320000)
WideAac  == Aac({"MPEG2_LC"}, {96000}, {2}, TRUE, 320000)
Short(c) == [c EXCEPT !.size = 3]

End(id, seid, caps) == [ id |-> id, seid |-> seid, capabilities |-> caps ]
MCRemoteLists ==
  { << >>, << End("LDAC", 1, GoodSbc) >> }
  \union { << End("SBC", 1, c) >> : c \in SbcRemotes \union {Short(GoodSbc)} }
  \union { << End("AAC", 1, c) >> : c \in AacRemotes \union {Short(GoodAac)} }
  \union { << End("SBC", 1, s), End("AAC", 2, a) >> : s \in {GoodSbc, MonoSbc}, a \in {GoodAac, WideAac} }
  \union { << End("SBC", 1, s), End("SBC", 2, t) >> : s, t \in {GoodSbc, MonoSbc} }

Params(sf, cm, min, max) ==
  [ samplingFrequencyHz |-> sf, channelMode |-> cm, minBitrate |-> min, maxBitrate |-> max ]
MCHints ==
  { [ codecId |-> id, codecParameters |-> p ] :
      id \in {"SBC", "AAC", "LDAC"},
      p \in { NoValue, Params(48000, "STEREO", 0, 0), Params(16000, "DUALMONO", 96000, 229688),
              Params(44100, "MONO", 512000, 345000), Params(0, "UNKNOWN", 0, 1),
              Params(48000, "MONO", 1, 9000000) } }

MCForeign ==
  { [ id |-> id, configuration |-> c ] :
      id \in {"SBC", "LDAC"}, c \in SbcRemotes \union {Short(GoodSbc)} }
  \union { [ id |-> "AAC", configuration |-> c ] : c \in AacRemotes \union {Short(GoodAac)} }

(* Configurations of the older interface, some of a codec and a variant that do *)
(* not belong together.                                                         *)
SbcFields == { [ sampleRateHz |-> r, channelMode |-> m, blockLength |-> 16, numSubbands |-> n,
                 allocMethod |-> "ALLOC_MD_L", bitsPerSample |-> 16,
                 minBitpool |-> b[1], maxBitpool |-> b[2] ] :
               r \in {44100, 48000}, m \in {"MONO", "STEREO", "JOINT_STEREO"}, n \in {4, 8},
               b \in {<<2, 53>>, <<1, 53>>, <<2, 54>>, <<30, 20>>} }
AacFields == { [ objectType |-> o, sampleRateHz |-> r, channelMode |-> "STEREO",
                 bitsPerSample |-> b, variableBitRateEnabled |-> v ] :
               o \in {"MPEG2_LC", "MPEG4_LC"}, r \in {44100, 48000}, b \in {16, 24}, v \in BOOLEAN }
LdacFields == { [ sampleRateHz |-> r, channelMode |-> m, qualityIndex |-> q, bitsPerSample |-> 24 ] :
                r \in {16000, 96000}, m \in {"MONO", "DUAL"}, q \in {"HIGH", "ABR"} }
AptxFields == { [ sampleRateHz |-> r, channelMode |-> m, bitsPerSample |-> b ] :
                r \in {44100, 96000}, m \in {"MONO", "STEREO"}, b \in {16, 24} }
OpusFields == { [ samplingFrequencyHz |-> r, frameDurationUs |-> d, channelMode |-> "MONO" ] :
                r \in {44100, 48000}, d \in {7500, 10000} }
Specific(tag, fields) == { [ tag |-> tag, fields |-> f ] : f \in fields }
MCLegacy ==
  { [ codecType |-> c, config |-> s ] :
      c \in {"SBC", "AAC", "LDAC", "APTX", "APTX_HD", "OPUS", "LC3"},
      s \in Specific("sbcConfig", SbcFields) \union Specific("aacConfig", AacFields)
            \union Specific("ldacConfig", LdacFields) \union Specific("aptxConfig", AptxFields)
            \union Specific("opusConfig", OpusFields) }
=================================================================================
