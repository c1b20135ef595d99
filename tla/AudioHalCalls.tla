----------------------------- MODULE AudioHalCalls -----------------------------
(***************************************************************************)
(* The calls the HIDL audio service passes on to the legacy HAL: Device,   *)
(* PrimaryDevice, Stream, StreamOut, StreamIn and ParametersUtil.  A       *)
(* legacy HAL may lack optional functions and may refuse any call; the     *)
(* wrapper checks the arguments, makes the call and turns the status into  *)
(* a Result.  The state is what several calls in a row can get wrong: the  *)
(* audio properties of a stream, the patches the client knows of, and the  *)
(* parameters that are stored as strings.                                  *)
(***************************************************************************)
EXTENDS Integers, Sequences, FiniteSets

CONSTANTS
  MajorVersions,   \* interface versions
  ApiVersions,     \* versions of the legacy HAL's interface, 30 for 3.0
  Handles,         \* patch handles; 0 is no handle
  Word,            \* 2^32, scaled down
  MaxBufferSize,   \* Stream::MAX_BUFFER_SIZE, scaled down alike
  LatencyModeCount \* AUDIO_LATENCY_MODE_CNT

ASSUME HandlesAssumption == Handles \subseteq Nat \ {0} /\ IsFiniteSet(Handles)
ASSUME LatencyAssumption == LatencyModeCount \in Nat
ASSUME WordAssumption == Word \in Nat /\ MaxBufferSize \in 1 .. Word - 1

VARIABLES
  major, api,
  part,      \* the part of the legacy HAL this client uses; no two share state
  has,       \* the legacy HAL has its optional functions
  last,      \* the last call: operation, Result, and the value handed back
  told,      \* what the legacy HAL was told during that call
  props,     \* the sample rate, channel mask and format of a stream
  asked,     \* the call of setAudioProperties in progress
  known,     \* history: what the client may take them to be, or Unknown
  patches,   \* the patches of the legacy HAL
  mine,      \* the patches the client knows of
  store,     \* store[k]: the string the legacy HAL keeps for a parameter
  wrote      \* wrote[k]: the value the client last set it to, "unknown" otherwise

fixedVars == << major, api, part, has >>
vars == << fixedVars, last, told, props, asked, known, patches, mine, store, wrote >>

(* Status codes of the legacy HAL; negative errno values in the code.      *)
Statuses == {"0", "EINVAL", "ENODATA", "ENODEV", "ENOSYS", "EIO"}

\* Mutant: a function the HAL does not implement counts as done.
analyzeStatusLenient(st) == IF st \in {"0", "ENOSYS"} THEN "OK" ELSE "INVALID_STATE"

(* util::analyzeStatus; the list of errors to ignore only silences a log.  *)
analyzeStatus(st) ==
  CASE st = "0" -> "OK"
    [] st = "EINVAL" -> "INVALID_ARGUMENTS"
    [] st = "ENODATA" -> "INVALID_STATE"
    [] st = "ENODEV" -> "NOT_INITIALIZED"
    [] st = "ENOSYS" -> "NOT_SUPPORTED"
    [] OTHER -> "INVALID_STATE"

(* Gains are 0 and 1 or outside of the range on either side.               *)
Gains == {-1, 0, 1, 2}
isGainNormalized(gain) == gain >= 0 /\ gain <= 1

(* The client makes one call at a time and takes its result before the next. *)
NotTold == [fn |-> "none", arg |-> 0, st |-> "0"]
NoCall == [op |-> "none", ret |-> "OK", val |-> 0]
Returns(op, ret, val) == last' = [op |-> op, ret |-> ret, val |-> val]
Refuses(op, ret) == Returns(op, ret, 0) /\ told' = NotTold

(* The common shape of a call: a missing function, an argument out of      *)
(* range, or the call with whatever status it has.                         *)
Call(fn, present, valid, arg) ==
  \/ ~present /\ Refuses(fn, "NOT_SUPPORTED")
  \/ present /\ ~valid /\ Refuses(fn, "INVALID_ARGUMENTS")
  \/ /\ present /\ valid
     /\ \E st \in Statuses :
          /\ told' = [fn |-> fn, arg |-> arg, st |-> st]
          /\ Returns(fn, analyzeStatus(st), 0)

(* What a call to one part of the legacy HAL leaves alone.                 *)
propertyVars == << props, asked, known >>
Stateless == part = "controls" /\ last = NoCall /\ UNCHANGED << fixedVars, propertyVars, patches, mine, store, wrote >>
OnPatches == part = "patches" /\ last = NoCall /\ UNCHANGED << fixedVars, propertyVars, store, wrote >>
OnParameters == part = "parameters" /\ last = NoCall /\ UNCHANGED << fixedVars, propertyVars, patches, mine >>
OnProperties == part = "properties" /\ last = NoCall /\ UNCHANGED << fixedVars, patches, mine, store, wrote >>

Control(fn, present, valid, arg) ==
  /\ Stateless
  /\ Call(fn, present, valid, arg)

(***************************************************************************)
(* Device and PrimaryDevice.                                               *)
(***************************************************************************)

setMasterVolume == \E v \in Gains : Control("set_master_volume", has, isGainNormalized(v), v)
setMicMute == Control("set_mic_mute", TRUE, TRUE, 1)
setMasterMute == Control("set_master_mute", has, TRUE, 1)
setVoiceVolume == \E v \in Gains : Control("set_voice_volume", TRUE, isGainNormalized(v), v)

(* CALL_SCREEN is the fifth mode, from version 6; the others are reserved. *)
Modes == {0, 1, 2, 3}
setMode ==
  \E mode \in -2 .. 5 :
    Control("set_mode", TRUE, mode \in Modes \/ (mode = 4 /\ major >= 6), mode)

(* The effect is looked up by the identifier the client passes.            *)
DeviceEffect ==
  \E mapped \in BOOLEAN : Control("add_device_effect", api >= 31 /\ has, mapped, 1)

setAudioPortConfig ==
  \E convertible \in BOOLEAN : Control("set_audio_port_config", api >= 30, convertible, 1)

setConnectedState_7_1 ==
  \E convertible \in BOOLEAN : Control("set_device_connected_state_v7", api >= 32 /\ has, convertible, 1)

DeviceControls ==
  \/ setMasterVolume \/ setMicMute \/ setMasterMute
  \/ DeviceEffect \/ setAudioPortConfig \/ setConnectedState_7_1

(***************************************************************************)
(* Patches.  A failed update leaves the client with the handle it had.     *)
(***************************************************************************)

\* Mutant: the legacy HAL is not told which patch is replaced.
createOrUpdateAudioPatchAnew(op, prev) ==
  \E halPatch \in Handles \ patches :
    /\ told' = [fn |-> op, arg |-> 0, st |-> "0"]
    /\ Returns(op, "OK", halPatch)
    /\ patches' = patches \cup {halPatch}
    /\ mine' = (mine \ {prev}) \cup {halPatch}

(* The handle createOrUpdateAudioPatch returns: the legacy HAL's when it   *)
(* succeeded, the caller's otherwise.                                      *)
createOrUpdateAudioPatch(op, prev) ==
  \/ /\ api < 30
     /\ Returns(op, "NOT_SUPPORTED", prev) /\ told' = NotTold
     /\ UNCHANGED << patches, mine >>
  \/ /\ api >= 30
     /\ Returns(op, "INVALID_ARGUMENTS", prev) /\ told' = NotTold   \* a port cannot be converted
     /\ UNCHANGED << patches, mine >>
  \/ /\ api >= 30
     /\ \E st \in Statuses :
          /\ told' = [fn |-> op, arg |-> 0, st |-> st]
          /\ \E halPatch \in Handles \ (patches \ {prev}) :
               /\ Returns(op, analyzeStatus(st), IF st = "0" THEN halPatch ELSE prev)
               /\ patches' = IF st = "0" THEN (patches \ {prev}) \cup {halPatch} ELSE patches
     /\ mine' = IF last'.ret = "OK" THEN (mine \ {prev}) \cup {last'.val} ELSE mine

createAudioPatch ==
  /\ OnPatches
  /\ createOrUpdateAudioPatch("createAudioPatch", 0)

updateAudioPatch ==
  /\ OnPatches
  /\ major >= 6
  /\ \E prev \in mine \cup {0} :
       \/ prev # 0 /\ createOrUpdateAudioPatch("updateAudioPatch", prev)
       \/ /\ prev = 0 /\ Refuses("updateAudioPatch", "INVALID_ARGUMENTS")
          /\ UNCHANGED << patches, mine >>

releaseAudioPatch ==
  /\ OnPatches
  /\ \E h \in mine :
       /\ Call("releaseAudioPatch", api >= 30, TRUE, h)
       /\ LET gone == IF told'.fn # "none" /\ told'.st = "0" THEN {h} ELSE {}
              released == IF last'.ret = "OK" THEN {h} ELSE {}
          IN  patches' = patches \ gone /\ mine' = mine \ released

(***************************************************************************)
(* Parameters: strings kept by the legacy HAL under a key, of which some   *)
(* stand for a switch and one for the TTY mode.                            *)
(***************************************************************************)

Switch == "switch"   \* one of the keys set with on and off
Tty == "tty"
Keys == {Switch, Tty}

TtyModes == {"OFF", "VCO", "HCO", "FULL"}
convertTtyModeFromHIDL(mode) ==
  CASE mode = "OFF" -> "tty_off" [] mode = "VCO" -> "tty_vco"
    [] mode = "HCO" -> "tty_hco" [] mode = "FULL" -> "tty_full" [] OTHER -> "null"

convertTtyModeToHIDL(str) ==
  CASE str = "tty_off" -> "OFF" [] str = "tty_vco" -> "VCO"
    [] str = "tty_hco" -> "HCO" [] str = "tty_full" -> "FULL" [] OTHER -> "invalid"

Strings == {"", "on", "off", "junk"} \cup {convertTtyModeFromHIDL(mode) : mode \in TtyModes}

(* The two typed readings of a key; a key the legacy HAL does not know is  *)
(* "absent".                                                               *)
getParamBool(str) ==
  IF str \in {"absent", ""} THEN [ret |-> "NOT_SUPPORTED", val |-> "FALSE"]
  ELSE [ret |-> "OK", val |-> IF str = "off" THEN "FALSE" ELSE "TRUE"]

getParamTty(str) ==
  IF str = "absent" THEN [ret |-> "NOT_SUPPORTED", val |-> "OFF"]
  ELSE IF convertTtyModeToHIDL(str) = "invalid" THEN [ret |-> "INVALID_STATE", val |-> "OFF"]
  ELSE [ret |-> "OK", val |-> convertTtyModeToHIDL(str)]

(* ParametersUtil::setParams: the legacy HAL stores the value or refuses.  *)
setParams(op, k, str, val) ==
  \E st \in Statuses :
    /\ told' = [fn |-> op, arg |-> str, st |-> st]
    /\ Returns(op, analyzeStatus(st), 0)
    /\ store' = IF st = "0" THEN [store EXCEPT ![k] = str] ELSE store
    /\ wrote' = IF last'.ret = "OK" THEN [wrote EXCEPT ![k] = val] ELSE wrote

setParamBool ==
  /\ OnParameters
  /\ \E b \in BOOLEAN :
       setParams("setParam", Switch, IF b THEN "on" ELSE "off", IF b THEN "TRUE" ELSE "FALSE")

setTtyMode ==
  /\ OnParameters
  /\ \E mode \in TtyModes \cup {"7"} :
       LET str == convertTtyModeFromHIDL(mode) IN
       \/ /\ str = "null" /\ Refuses("setTtyMode", "INVALID_ARGUMENTS")
          /\ UNCHANGED << store, wrote >>
       \/ str # "null" /\ setParams("setTtyMode", Tty, str, mode)

(* The client may also set any key to any string.                          *)
setParametersImpl ==
  /\ OnParameters
  /\ \E k \in Keys, str \in Strings : setParams("setParameters", k, str, "unknown")

getSwitch ==
  /\ OnParameters
  /\ UNCHANGED << store, wrote >>
  /\ LET g == getParamBool(store[Switch]) IN Returns("getSwitch", g.ret, g.val)
  /\ told' = NotTold

getTtyMode ==
  /\ OnParameters
  /\ UNCHANGED << store, wrote >>
  /\ LET g == getParamTty(store[Tty]) IN Returns("getTtyMode", g.ret, g.val)
  /\ told' = NotTold

PrimaryDeviceControls == setVoiceVolume \/ setMode \/ setTtyMode \/ getTtyMode

(* The operations PrimaryDevice hands on to its Device.                    *)
PrimaryDeviceForwards ==
  \/ DeviceControls
  \/ createAudioPatch \/ updateAudioPatch \/ releaseAudioPatch
  \/ setParamBool \/ getSwitch \/ setParametersImpl

(***************************************************************************)
(* Stream: audio properties (1 the sample rate, 2 the channel mask, 3 the  *)
(* format), lists of what is supported, effects, routing.                  *)
(***************************************************************************)

Properties == 1 .. 3
Values == {0, 1}
Unknown == -1
NotAsked == [all |-> {}, todo |-> {}, value |-> [i \in Properties |-> 0]]

(* setAudioProperties up to the first property.  A configuration that      *)
(* cannot be converted is refused, one that specifies nothing is done.     *)
setAudioProperties ==
  /\ OnProperties /\ asked = NotAsked /\ UNCHANGED props
  /\ major >= 7
  /\ \E set \in SUBSET Properties, value \in [Properties -> Values] :
       \/ /\ \E st \in Statuses \ {"0"} : Refuses("setAudioProperties", analyzeStatus(st))
          /\ known' = [i \in Properties |-> IF i \in set THEN Unknown ELSE known[i]]
          /\ UNCHANGED asked
       \/ /\ set = {} /\ Refuses("setAudioProperties", "OK")
          /\ UNCHANGED << asked, known >>
       \/ /\ set # {} /\ asked' = [all |-> set, todo |-> set, value |-> value]
          /\ UNCHANGED << last, told, known >>

(* The call returns: after OK the client takes all it asked for as set,    *)
(* after an error it knows nothing of what it asked for.                   *)
PropertiesReturn(ret) ==
  /\ Returns("setAudioProperties", ret, 0)
  /\ known' = [i \in Properties |-> IF i \notin asked.all THEN known[i]
                                    ELSE IF ret = "OK" THEN asked.value[i] ELSE Unknown]
  /\ asked' = NotAsked

\* Mutant: the result of a property is overwritten by that of the next.
setNextPropertyGoesOn ==
  /\ OnProperties /\ asked # NotAsked
  /\ LET i == CHOOSE i \in asked.todo : \A j \in asked.todo : i <= j
         rest == asked.todo \ {i}
     IN \E st \in Statuses :
          /\ props' = IF st = "0" THEN [props EXCEPT ![i] = asked.value[i]] ELSE props
          /\ IF rest = {}
             THEN /\ told' = [fn |-> "setParam", arg |-> i, st |-> st]
                  /\ PropertiesReturn(analyzeStatus(st))
             ELSE /\ asked' = [asked EXCEPT !.todo = rest]
                  /\ UNCHANGED << last, told, known >>

(* The next property in the order rate, mask, format; a refusal ends the   *)
(* call at once.                                                           *)
setNextProperty ==
  /\ OnProperties /\ asked # NotAsked
  /\ LET i == CHOOSE i \in asked.todo : \A j \in asked.todo : i <= j
         rest == asked.todo \ {i}
     IN \E st \in Statuses :
          /\ props' = IF st = "0" THEN [props EXCEPT ![i] = asked.value[i]] ELSE props
          /\ IF st # "0" \/ rest = {}
             THEN /\ told' = [fn |-> "setParam", arg |-> i, st |-> st]
                  /\ PropertiesReturn(analyzeStatus(st))
             ELSE /\ asked' = [asked EXCEPT !.todo = rest]
                  /\ UNCHANGED << last, told, known >>

(* setSampleRate, setChannelMask and setFormat before version 7.           *)
setOneProperty ==
  /\ OnProperties /\ asked = NotAsked /\ UNCHANGED asked
  /\ major <= 6
  /\ \E i \in Properties, v \in Values :
       /\ Call("setOneProperty", TRUE, TRUE, v)
       /\ props' = IF told'.st = "0" THEN [props EXCEPT ![i] = v] ELSE props
       /\ known' = IF last'.ret = "OK" THEN [known EXCEPT ![i] = v] ELSE known

(* getAudioProperties: up to version 6 without a Result; later the         *)
(* conversion may fail.                                                    *)
getAudioProperties ==
  /\ OnProperties /\ asked = NotAsked /\ UNCHANGED << props, asked >>
  /\ told' = NotTold
  /\ \/ major <= 6 /\ Returns("getAudioProperties", "VOID", 0) /\ known' = props
     \/ /\ major >= 7
        /\ \E st \in Statuses :
             /\ Returns("getAudioProperties", analyzeStatus(st), 0)
             /\ known' = IF st = "0" THEN props ELSE known

(* A list of the legacy HAL: not answered (-1), or a number of elements.   *)
Lists == -1 .. 1

ListResult(n) ==
  IF n <= 0 THEN [ret |-> "NOT_SUPPORTED", n |-> 0] ELSE [ret |-> "OK", n |-> n]

(* The oldest interfaces hand back the list without a Result.              *)
ListHasResult(list) == major >= IF list = "formats" THEN 6 ELSE 4

getSupportedList ==
  /\ Stateless
  /\ major <= 6
  /\ \E list \in {"rates", "masks", "formats"}, n \in Lists :
       LET r == ListResult(n)
       IN  Returns("getSupportedList", IF ListHasResult(list) THEN r.ret ELSE "VOID", r.n)
  /\ told' = NotTold

(* getSupportedProfiles asks for the rates and the masks of each format in *)
(* turn; a format that cannot be converted is passed over, a query that    *)
(* fails ends the search, and its result is kept.                          *)
Formats == [known : BOOLEAN, rates : Lists, masks : Lists]

QueryFails(f) == f.known /\ (f.rates < 0 \/ f.masks < 0)
HasProfile(f) == f.known /\ f.rates > 0 /\ f.masks > 0

Profiles(formats) ==
  LET failed == {i \in DOMAIN formats : QueryFails(formats[i])}
      found == {i \in DOMAIN formats : HasProfile(formats[i]) /\ \A j \in failed : i < j}
  IN  IF found = {} THEN [ret |-> "NOT_SUPPORTED", n |-> 0]
      ELSE [ret |-> IF failed = {} THEN "OK" ELSE "NOT_SUPPORTED", n |-> Cardinality(found)]

getSupportedProfiles ==
  /\ Stateless
  /\ major >= 7
  /\ \E f, g \in Formats :
       LET r == Profiles(<< f, g >>) IN Returns("getSupportedProfiles", r.ret, r.n)
  /\ told' = NotTold

StreamEffect == \E mapped \in BOOLEAN : Control("add_audio_effect", TRUE, mapped, 1)
standby == Control("standby", TRUE, TRUE, 1)

(* More than one device cannot be passed on.                               *)
setDevices ==
  \E n \in 0 .. 2, convertible \in BOOLEAN : Control("setDevices", n <= 1, convertible, n)

StreamControls ==
  \/ setAudioProperties \/ setNextProperty \/ setOneProperty \/ getAudioProperties
  \/ getSupportedList \/ getSupportedProfiles \/ StreamEffect \/ standby \/ setDevices

(***************************************************************************)
(* StreamOut and StreamIn.                                                 *)
(***************************************************************************)

(* A question to the legacy HAL.  Its answer is 1; otherwise the variable  *)
(* for the answer is handed back as it was, which the code has set to a    *)
(* default or not at all.                                                  *)
Default == {0}
Unset == {0, 99}
Query(fn, present, before) ==
  /\ Stateless
  /\ \E value \in before :
       \/ ~present /\ Returns(fn, "NOT_SUPPORTED", value) /\ told' = NotTold
       \/ present /\ \E st \in Statuses :
            /\ told' = [fn |-> fn, arg |-> 0, st |-> st]
            /\ Returns(fn, analyzeStatus(st), IF st = "0" THEN 1 ELSE value)

(* Only the left volume is checked.                                        *)
setVolume ==
  \E left, right \in Gains :
    Control("set_volume", has, isGainNormalized(left), << left, right >>)

pause == Control("pause", has, TRUE, 1)
resume == Control("resume", has, TRUE, 1)
drain == \E type \in {0, 1} : Control("drain", has, TRUE, type)
flush == Control("flush", has, TRUE, 1)

getRenderPosition == Query("get_render_position", TRUE, Unset)
getNextWriteTimestamp == Query("get_next_write_timestamp", has, Default)
getPresentationPosition == Query("get_presentation_position", has, Default)

setPlaybackControl == major >= 6 /\ Control("set_dual_mono_mode", has, TRUE, 1)
getPlaybackControl == major >= 6 /\ Query("get_dual_mono_mode", has, Default)

(* A call of a HAL function that reports no status.  Up to version 6 what  *)
(* cannot be converted is left out, the HAL is called all the same and the *)
(* client hears nothing; from version 7 the call is refused.               *)
Notify(fn) ==
  \E convertible \in BOOLEAN :
    LET tell == told' = [fn |-> fn, arg |-> convertible, st |-> "0"] IN
    \/ major <= 6 /\ ~has /\ Refuses(fn, "VOID")
    \/ major <= 6 /\ has /\ tell /\ Returns(fn, "VOID", 0)
    \/ major >= 7 /\ ~has /\ Refuses(fn, "NOT_SUPPORTED")
    \/ major >= 7 /\ has /\ ~convertible /\ Refuses(fn, "INVALID_ARGUMENTS")
    \/ major >= 7 /\ has /\ convertible /\ tell /\ Returns(fn, "OK", 0)

updateSourceMetadata ==
  /\ Stateless
  /\ major >= 4
  /\ Notify(IF major >= 7 /\ api >= 32 THEN "update_source_metadata_v7"
                                        ELSE "update_source_metadata")

updateSinkMetadata ==
  /\ Stateless
  /\ major >= 4
  /\ Notify(IF major >= 7 /\ api >= 32 THEN "update_sink_metadata_v7"
                                        ELSE "update_sink_metadata")

(* The legacy HAL fills an array of LatencyModeCount modes and may claim   *)
(* any number of them.                                                     *)
getRecommendedLatencyModes ==
  /\ Stateless
  /\ major >= 7
  /\ \E st \in Statuses, n \in 0 .. LatencyModeCount + 1 :
       IF ~has \/ st # "0" THEN Refuses("getRecommendedLatencyModes", "NOT_SUPPORTED")
       ELSE IF n = 0 \/ n > LatencyModeCount THEN Refuses("getRecommendedLatencyModes", "INVALID_STATE")
       ELSE /\ told' = [fn |-> "get_recommended_latency_modes", arg |-> 0, st |-> st]
            /\ Returns("getRecommendedLatencyModes", "OK", n)

setGain == \E v \in Gains : Control("set_gain", TRUE, isGainNormalized(v), v)
getCapturePosition == Query("get_capture_position", has, Default)
getActiveMicrophones ==
  /\ Stateless
  /\ \/ Refuses("get_active_microphones", "NOT_SUPPORTED")
     \/ /\ has
        /\ told' = [fn |-> "get_active_microphones", arg |-> 0, st |-> "0"]
        /\ Returns("get_active_microphones", "OK", 1)

setMicrophoneDirection ==
  major >= 5 /\ \E d \in 0 .. 4 : Control("set_microphone_direction", has, d <= 3, d)

(* A zoom in steps of one half; 3 and -3 are outside of [-1, 1].           *)
setMicrophoneFieldDimension ==
  major >= 5 /\ \E zoom \in -3 .. 3 :
    Control("set_microphone_field_dimension", has, zoom >= -2 /\ zoom <= 2, zoom)

(***************************************************************************)
(* Sizes.  All of them are unsigned 32-bit numbers.                        *)
(***************************************************************************)

(* prepareForWriting and prepareForReading compute the size of the data    *)
(* queue, here in a word scaled down.                                      *)
PreparedSize(frameSize, framesCount) ==
  IF frameSize = 0 \/ framesCount = 0 THEN 0
  ELSE IF frameSize > MaxBufferSize \div framesCount THEN 0
  ELSE (frameSize * framesCount) % Word

prepareSizes ==
  /\ Stateless
  /\ \E frameSize, framesCount \in 0 .. Word - 1 :
       LET size == PreparedSize(frameSize, framesCount) IN
       /\ told' = [fn |-> "prepare", arg |-> frameSize * framesCount, st |-> "0"]
       /\ Returns("prepare", IF size = 0 THEN "INVALID_ARGUMENTS" ELSE "OK", size)

MmapIsShareable(size, flag) == flag \/ size < 0

(* An mmap buffer that applications may share is marked by a flag, by a    *)
(* negative size, or both; version 2 only knows the negative size.         *)
createMmapBuffer ==
  /\ Stateless
  /\ \/ ~has /\ Refuses("createMmapBuffer", "NOT_SUPPORTED")
     \/ has /\ \E minSize \in -1 .. 1 :
          IF minSize <= 0 THEN Refuses("createMmapBuffer", "INVALID_ARGUMENTS")
          ELSE \E st \in Statuses, size \in {-8, 8}, flag \in BOOLEAN :
                 LET shareable == MmapIsShareable(size, flag)
                     frames == IF size < 0 THEN -size ELSE size
                 IN  /\ told' = [fn |-> "create_mmap_buffer", arg |-> << size, flag >>, st |-> st]
                     /\ last' = [op |-> "createMmapBuffer", ret |-> analyzeStatus(st),
                                 val |-> IF st # "0" THEN 0
                                         ELSE IF major = 2 /\ shareable THEN -frames ELSE frames,
                                 flag |-> st = "0" /\ major > 2 /\ shareable]

MmapControls == \E fn \in {"start", "stop"} : Control(fn, has, TRUE, 1)
getMmapPosition == Query("get_mmap_position", has, Unset)

Mmap == createMmapBuffer \/ MmapControls \/ getMmapPosition

(* The operations StreamOut and StreamIn hand on to Stream and StreamMmap. *)
StreamOutForwards == StreamControls \/ Mmap
StreamInForwards == StreamControls \/ Mmap

StreamOutControls ==
  \/ setVolume \/ pause \/ resume \/ drain \/ flush
  \/ getRenderPosition \/ getNextWriteTimestamp \/ getPresentationPosition
  \/ setPlaybackControl \/ getPlaybackControl \/ updateSourceMetadata \/ getRecommendedLatencyModes

StreamInControls ==
  \/ setGain \/ getCapturePosition \/ getActiveMicrophones \/ updateSinkMetadata
  \/ setMicrophoneDirection \/ setMicrophoneFieldDimension

CallsInit ==
  /\ major \in MajorVersions /\ api \in ApiVersions /\ has \in BOOLEAN
  /\ part \in {"controls", "patches", "parameters", "properties"}
  /\ last = NoCall
  /\ told = NotTold
  /\ props = [i \in Properties |-> 0]
  /\ asked = NotAsked
  /\ known = [i \in Properties |-> Unknown]
  /\ patches = {} /\ mine = {}
  /\ store = [k \in Keys |-> "absent"]
  /\ wrote = [k \in Keys |-> "unknown"]

ClientTakesResult ==
  /\ last # NoCall
  /\ last' = NoCall /\ told' = NotTold
  /\ UNCHANGED << fixedVars, propertyVars, patches, mine, store, wrote >>

CallsNext ==
  \/ ClientTakesResult
  \/ PrimaryDeviceControls \/ PrimaryDeviceForwards
  \/ StreamOutControls \/ StreamOutForwards \/ StreamInControls \/ StreamInForwards
  \/ prepareSizes

CallsSpec == CallsInit /\ [][CallsNext]_vars

--------------------------------------------------------------------------------

(* Type invariant: every call ends in a Result of the HIDL interface, and  *)
(* never in a raw status of the legacy HAL; "VOID" where the interface has *)
(* no Result.                                                              *)
CallsTypeOK ==
  /\ props \in [Properties -> Values] /\ known \in [Properties -> Values \cup {Unknown}]
  /\ patches \subseteq Handles /\ mine \subseteq Handles
  /\ store \in [Keys -> Strings \cup {"absent"}]
  /\ last.ret \in {"VOID", "OK", "NOT_INITIALIZED", "INVALID_ARGUMENTS", "INVALID_STATE",
                  "NOT_SUPPORTED"}

Questions ==
  { "get_render_position", "get_next_write_timestamp", "get_presentation_position",
    "get_dual_mono_mode", "get_capture_position", "get_mmap_position" }

(* A call that has a Result is reported as done exactly when the legacy    *)
(* HAL did it, a value that nothing has set is handed back only with an    *)
(* error, and "this method must succeed (non empty list)": a list reported *)
(* with OK is not empty, and not longer than the array it was copied from. *)
(* A data queue that was accepted has the size that was asked for: the     *)
(* product of frame size and count did not wrap around.                    *)
HonestResult ==
  /\ CallsTypeOK
  /\ told.fn \notin {"none", "prepare"} /\ last.ret # "VOID" => (last.ret = "OK" <=> told.st = "0")
  /\ last.op \in Questions /\ last.ret = "OK" => last.val = 1
  /\ last.op \in {"getSupportedList", "getSupportedProfiles"} /\ last.ret = "OK" => last.val > 0
  /\ last.op = "getRecommendedLatencyModes" /\ last.ret = "OK" => last.val \in 1 .. LatencyModeCount
  /\ last.op = "prepare" /\ last.ret = "OK" => last.val = told.arg /\ last.val \in 1 .. MaxBufferSize

(* After any mixture of creating, updating and releasing, with the legacy  *)
(* HAL refusing some of it, the client knows exactly the patches that      *)
(* exist: none is leaked, none is released under it.                       *)
PatchesKnown == mine = patches

(* What a client reads back is what it last set with success: a refused    *)
(* call in between changes neither, and no conversion loses the value.     *)
ParametersReadBack ==
  /\ wrote[Switch] # "unknown" => getParamBool(store[Switch]) = [ret |-> "OK", val |-> wrote[Switch]]
  /\ wrote[Tty] # "unknown" => getParamTty(store[Tty]) = [ret |-> "OK", val |-> wrote[Tty]]

(* The client's picture of the device is right: its patches and the        *)
(* parameters it has set, after any mixture of calls and refusals.         *)
ClientPictureTrue == PatchesKnown /\ ParametersReadBack

(* What the client takes a property of its stream to be is what it is,     *)
(* after any mixture of calls that were done, refused or stopped half way: *)
(* OK means that every property the call specified was set, whichever of   *)
(* them the legacy HAL refuses, and no call touches one that was not       *)
(* specified, not even while it is in progress.                            *)
PropertiesKnown ==
  \A i \in Properties \ asked.all : known[i] # Unknown => props[i] = known[i]
================================================================================
