------------------------------ MODULE MCMiddleware ------------------------------
(* Two HIDL ports on one AIDL session, which stacks start, end and report to.   *)
EXTENDS HidlToAidlMiddleware, TLC

MCTypes == { from_session_type_2_1(t) : t \in LegacyTypes }
MCPcm == { [ sampleRateHz |-> r, channelMode |-> m, bitsPerSample |-> b ] :
           r \in {8000, 11025, 32000, 96000}, m \in {"MONO", "STEREO"}, b \in {16, 24} }
Sbc(m, l, b) == [ codecType |-> "SBC",
                  config |-> [ tag |-> "sbcConfig",
                    fields |-> [ sampleRateHz |-> 44100, channelMode |-> m, blockLength |-> l,
                                 numSubbands |-> 8, allocMethod |-> "ALLOC_MD_L",
                                 bitsPerSample |-> 16, minBitpool |-> 2, maxBitpool |-> b ] ] ]
Aac(v)  == [ codecType |-> "AAC",
             config |-> [ tag |-> "aacConfig",
               fields |-> [ objectType |-> "MPEG2_LC", sampleRateHz |-> 44100,
                            channelMode |-> "STEREO", bitsPerSample |-> 16,
                            variableBitRateEnabled |-> v ] ] ]
Ldac(r) == [ codecType |-> "LDAC",
             config |-> [ tag |-> "ldacConfig",
               fields |-> [ sampleRateHz |-> r, channelMode |-> "DUAL",
                            qualityIndex |-> "HIGH", bitsPerSample |-> 32 ] ] ]
Aptx(c, b) == [ codecType |-> c,
                config |-> [ tag |-> "aptxConfig",
                  fields |-> [ sampleRateHz |-> 48000, channelMode |-> "STEREO",
                               bitsPerSample |-> b ] ] ]
Opus == [ codecType |-> "OPUS",
          config |-> [ tag |-> "opusConfig",
            fields |-> [ samplingFrequencyHz |-> 48000, frameDurationUs |-> 10000,
                         channelMode |-> "MONO" ] ] ]
MCCodec == { Sbc("MONO", 12, 53), Sbc("JOINT_STEREO", 16, 53), Aac(TRUE), Aac(FALSE),
             Ldac(88200), Ldac(96000), Aptx("APTX", 16), Aptx("APTX_HD", 24), Opus }
MCLe == { [ codec |-> c, samplingFrequencyHz |-> 48000, frameDurationUs |-> 10000,
            streamMap |-> {{1}, {2}} ] : c \in {"lc3", "vendor"} }
MCSymmetry == Permutations(Stacks) \union Permutations(Ports)
=================================================================================
