-------------------------- MODULE AudioHalCallsProofs --------------------------
(***************************************************************************)
(* What the calls of the audio service keep, for any legacy HAL (any set   *)
(* of versions, patch handles and latency modes, any word and any limit on *)
(* buffers) and for any number of calls and refusals in a row.             *)
(***************************************************************************)
EXTENDS AudioHalCalls, FiniteSetTheorems, TLAPS

Results ==
  {"VOID", "OK", "NOT_INITIALIZED", "INVALID_ARGUMENTS", "INVALID_STATE", "NOT_SUPPORTED"}

\* What the result of the last call says.
CallHonest ==
  /\ last.ret \in Results
  /\ told.fn \notin {"none", "prepare"} /\ last.ret # "VOID" => (last.ret = "OK" <=> told.st = "0")
  /\ last.op \in Questions /\ last.ret = "OK" => last.val = 1
  /\ last.op \in {"getSupportedList", "getSupportedProfiles"} /\ last.ret = "OK" => last.val > 0
  /\ last.op = "getRecommendedLatencyModes" /\ last.ret = "OK" => last.val \in 1 .. LatencyModeCount
  /\ last.op = "prepare" /\ last.ret = "OK" => last.val = told.arg /\ last.val \in 1 .. MaxBufferSize

\* What was written is a value of the key's kind, so that it can be read back.
Written ==
  wrote \in [Keys -> {"unknown", "TRUE", "FALSE"} \union TtyModes]

\* A call of setAudioProperties in progress has properties left to set, and those it
\* is done with have the values it was asked for.
Halfway ==
  \/ asked = NotAsked
  \/ /\ asked \in [all : SUBSET Properties, todo : SUBSET Properties,
                   value : [Properties -> Values]]
     /\ asked.todo \subseteq asked.all /\ asked.todo # {}
     /\ \A i \in asked.all \ asked.todo : props[i] = asked.value[i]

\* The inductive invariant.  The result of a call is right whatever was before it;
\* the patches, the parameters and the properties need each other's past.
CallsInv == /\ CallsTypeOK /\ Written /\ CallHonest /\ PatchesKnown /\ ParametersReadBack
            /\ Halfway /\ PropertiesKnown

\* What the client has set or created.
held == << props, asked, known, patches, mine, store, wrote >>
-----------------------------------------------------------------------------
\* The conversions.

\* A status is turned into a Result, and only success into OK.
LEMMA StatusHonest ==
  ASSUME NEW st \in Statuses
  PROVE  analyzeStatus(st) \in Results /\ (analyzeStatus(st) = "OK" <=> st = "0")
  BY DEF Statuses, Results, analyzeStatus

\* The strings of a TTY mode are strings of the store, none is taken for a missing
\* key, and each is read back as the mode.
LEMMA TtyRoundTrip ==
  ASSUME NEW mode \in TtyModes \union {"7"}, convertTtyModeFromHIDL(mode) # "null"
  PROVE  /\ mode \in TtyModes /\ convertTtyModeFromHIDL(mode) \in Strings
         /\ getParamTty(convertTtyModeFromHIDL(mode)) = [ret |-> "OK", val |-> mode]
<1>1. mode \in TtyModes
  BY DEF TtyModes, convertTtyModeFromHIDL
<1> QED  BY <1>1 DEF TtyModes, convertTtyModeFromHIDL, convertTtyModeToHIDL, getParamTty, Strings

\* A switch is read back as it was set.
LEMMA SwitchRoundTrip ==
  /\ getParamBool("on") = [ret |-> "OK", val |-> "TRUE"]
  /\ getParamBool("off") = [ret |-> "OK", val |-> "FALSE"]
  BY DEF getParamBool

\* The division before the multiplication rules out a product that wraps around.
LEMMA SizeExact ==
  ASSUME NEW a \in Nat, NEW b \in Nat, PreparedSize(a, b) # 0
  PROVE  PreparedSize(a, b) = a * b /\ a * b \in 1 .. MaxBufferSize
<1>2. MaxBufferSize \in Nat /\ Word \in Nat /\ MaxBufferSize < Word
  BY WordAssumption
<1>1. a > 0 /\ b > 0 /\ a <= MaxBufferSize \div b /\ PreparedSize(a, b) = (a * b) % Word
  BY <1>2 DEF PreparedSize
<1> DEFINE q == MaxBufferSize \div b
<1>3. q \in Nat /\ b * q <= MaxBufferSize
  BY <1>1, <1>2
<1> HIDE DEF q
<1>4. a <= q
  BY <1>1 DEF q
<1>5. a * b <= b * q
  BY <1>3, <1>4
<1>6. a * b \in Nat /\ a * b > 0
  BY <1>1
<1>7. a * b <= MaxBufferSize
  BY <1>2, <1>3, <1>5, <1>6
<1>8. (a * b) % Word = a * b
  BY <1>2, <1>6, <1>7
<1> QED  BY <1>1, <1>2, <1>6, <1>7, <1>8

\* A list of profiles reported with success is not empty.
LEMMA ProfilesHonest ==
  ASSUME NEW f \in Formats, NEW g \in Formats
  PROVE  /\ Profiles(<< f, g >>).ret \in Results
         /\ Profiles(<< f, g >>).ret = "OK" => Profiles(<< f, g >>).n > 0
<1> DEFINE formats == << f, g >>
           failed == {i \in DOMAIN formats : QueryFails(formats[i])}
           found == {i \in DOMAIN formats : HasProfile(formats[i]) /\ \A j \in failed : i < j}
<1>1. DOMAIN formats = 1 .. 2
  OBVIOUS
<1>2. IsFiniteSet(found)
  <2>1. found \subseteq 1 .. 2
    BY <1>1
  <2>2. IsFiniteSet(1 .. 2)
    <3>1. 1 .. 2 = {1} \union {2}
      OBVIOUS
    <3>2. IsFiniteSet({1}) /\ IsFiniteSet({2})
      BY FS_Singleton
    <3>3. IsFiniteSet({1} \union {2})
      BY <3>2, FS_Union
    <3> QED  BY <3>1, <3>3
  <2> QED  BY <2>1, <2>2, FS_Subset
<1>3. found # {} => Cardinality(found) \in Nat /\ Cardinality(found) # 0
  BY <1>2, FS_CardinalityType, FS_EmptySet
<1> HIDE DEF found, failed
<1>4. Profiles(formats) = IF found = {} THEN [ret |-> "NOT_SUPPORTED", n |-> 0]
        ELSE [ret |-> IF failed = {} THEN "OK" ELSE "NOT_SUPPORTED", n |-> Cardinality(found)]
  BY DEF Profiles, found, failed
<1> HIDE DEF formats
<1>5. /\ Profiles(formats).ret \in Results
      /\ Profiles(formats).ret = "OK" => Profiles(formats).n > 0
  BY <1>3, <1>4 DEF Results
<1> QED  BY <1>5 DEF formats
-----------------------------------------------------------------------------
\* The calls that leave what the client has set or created alone.
Quiet == CallHonest' /\ UNCHANGED held

LEMMA TakesQuietly == ASSUME ClientTakesResult PROVE Quiet
  BY DEF ClientTakesResult, Quiet, held, propertyVars, CallHonest, NoCall, NotTold, Results,
         Questions

LEMMA DeviceQuiet ==
  ASSUME DeviceControls \/ setVoiceVolume \/ setMode
  PROVE  Quiet
<1> USE StatusHonest
    DEF Control, Stateless, propertyVars, Call, Refuses, Returns, NotTold, Quiet, held, CallHonest, Results,
        Questions
<1>1. CASE setMasterVolume \/ setMicMute \/ setMasterMute
  BY <1>1 DEF setMasterVolume, setMicMute, setMasterMute
<1>2. CASE DeviceEffect \/ setAudioPortConfig \/ setConnectedState_7_1
  BY <1>2 DEF DeviceEffect, setAudioPortConfig, setConnectedState_7_1
<1>3. CASE setVoiceVolume \/ setMode
  BY <1>3 DEF setVoiceVolume, setMode
<1> QED  BY <1>1, <1>2, <1>3 DEF DeviceControls

LEMMA StreamQuiet ==
  ASSUME getSupportedList \/ getSupportedProfiles \/ StreamEffect \/ standby \/ setDevices \/ Mmap
  PROVE  Quiet
<1> USE StatusHonest
    DEF Control, Stateless, propertyVars, Call, Refuses, Returns, NotTold, Quiet, held, CallHonest, Results,
        Questions
<1>1. CASE getSupportedList
  BY <1>1 DEF getSupportedList, ListResult, Lists, ListHasResult
<1>2. CASE getSupportedProfiles
  BY <1>2, ProfilesHonest DEF getSupportedProfiles
<1>3. CASE StreamEffect \/ standby \/ setDevices
  BY <1>3 DEF StreamEffect, standby, setDevices
<1>4. CASE createMmapBuffer
  <2>1. CASE \/ Refuses("createMmapBuffer", "NOT_SUPPORTED")
             \/ Refuses("createMmapBuffer", "INVALID_ARGUMENTS")
    BY <1>4, <2>1 DEF createMmapBuffer
  <2>2. CASE \E st \in Statuses : \E a, v, flag :
               /\ told' = [fn |-> "create_mmap_buffer", arg |-> a, st |-> st]
               /\ last' = [op |-> "createMmapBuffer", ret |-> analyzeStatus(st),
                           val |-> v, flag |-> flag]
    BY <1>4, <2>2 DEF createMmapBuffer
  <2> QED  BY <1>4, <2>1, <2>2 DEF createMmapBuffer
<1>5. CASE MmapControls \/ getMmapPosition
  BY <1>5 DEF MmapControls, getMmapPosition, Query
<1> QED  BY <1>1, <1>2, <1>3, <1>4, <1>5 DEF Mmap

LEMMA StreamOutQuiet ==
  ASSUME StreamOutControls
  PROVE  Quiet
<1> USE StatusHonest
    DEF Control, Stateless, propertyVars, Call, Query, Refuses, Returns, NotTold, Quiet, held, CallHonest,
        Results, Questions
<1>1. CASE setVolume \/ pause \/ resume \/ drain \/ flush \/ setPlaybackControl
  BY <1>1 DEF setVolume, pause, resume, drain, flush, setPlaybackControl
<1>2. CASE \/ getRenderPosition \/ getNextWriteTimestamp \/ getPresentationPosition
           \/ getPlaybackControl
  BY <1>2 DEF getRenderPosition, getNextWriteTimestamp, getPresentationPosition,
              getPlaybackControl
<1>3. CASE updateSourceMetadata
  BY <1>3 DEF updateSourceMetadata, Notify
<1>4. CASE getRecommendedLatencyModes
  BY <1>4, LatencyAssumption DEF getRecommendedLatencyModes
<1> QED  BY <1>1, <1>2, <1>3, <1>4 DEF StreamOutControls

LEMMA StreamInQuiet ==
  ASSUME StreamInControls
  PROVE  Quiet
<1> USE StatusHonest
    DEF Control, Stateless, propertyVars, Call, Query, Refuses, Returns, NotTold, Quiet, held, CallHonest,
        Results, Questions
<1>1. CASE setGain \/ setMicrophoneDirection \/ setMicrophoneFieldDimension
  BY <1>1 DEF setGain, setMicrophoneDirection, setMicrophoneFieldDimension
<1>2. CASE getCapturePosition \/ getActiveMicrophones
  BY <1>2 DEF getCapturePosition, getActiveMicrophones
<1>3. CASE updateSinkMetadata
  BY <1>3 DEF updateSinkMetadata, Notify
<1> QED  BY <1>1, <1>2, <1>3 DEF StreamInControls

LEMMA OtherQuiet ==
  ASSUME prepareSizes \/ getSwitch \/ getTtyMode
  PROVE  Quiet
<1> USE DEF Stateless, OnParameters, propertyVars, Returns, NotTold, Quiet, held, CallHonest, Results, Questions
<1>1. CASE prepareSizes
  <2>1. PICK a \in 0 .. Word - 1, b \in 0 .. Word - 1 :
          /\ told' = [fn |-> "prepare", arg |-> a * b, st |-> "0"]
          /\ last' = [op |-> "prepare",
                      ret |-> IF PreparedSize(a, b) = 0 THEN "INVALID_ARGUMENTS" ELSE "OK",
                      val |-> PreparedSize(a, b)]
    BY <1>1 DEF prepareSizes
  <2>2. a \in Nat /\ b \in Nat
    BY WordAssumption
  <2>3. UNCHANGED held
    BY <1>1 DEF prepareSizes
  <2>4. PreparedSize(a, b) # 0 => PreparedSize(a, b) = a * b /\ a * b \in 1 .. MaxBufferSize
    BY <2>2, SizeExact
  <2> QED  BY <2>1, <2>3, <2>4
<1>2. CASE getSwitch
  BY <1>2 DEF getSwitch, getParamBool
<1>3. CASE getTtyMode
  BY <1>3 DEF getTtyMode, getParamTty
<1> QED  BY <1>1, <1>2, <1>3
-----------------------------------------------------------------------------
\* The calls that change something.

\* Patches: the client forgets or learns a handle exactly when the HAL does.
LEMMA PatchesKeep ==
  ASSUME CallsInv, createAudioPatch \/ updateAudioPatch \/ releaseAudioPatch
  PROVE  /\ CallHonest' /\ PatchesKnown' /\ patches' \subseteq Handles
         /\ UNCHANGED << props, asked, known, store, wrote >>
<1> USE StatusHonest DEF OnPatches, propertyVars, Refuses, Returns, NotTold, CallHonest, Results, Questions
<1>1. mine = patches /\ patches \subseteq Handles
  BY DEF CallsInv, PatchesKnown, CallsTypeOK
<1>2. ASSUME NEW op \in {"createAudioPatch", "updateAudioPatch"}, NEW prev,
             createOrUpdateAudioPatch(op, prev)
      PROVE  CallHonest' /\ PatchesKnown' /\ patches' \subseteq Handles
  BY <1>1, <1>2 DEF createOrUpdateAudioPatch, PatchesKnown
<1>3. CASE createAudioPatch
  BY <1>2, <1>3 DEF createAudioPatch
<1>4. CASE updateAudioPatch
  BY <1>1, <1>2, <1>4 DEF updateAudioPatch, PatchesKnown
<1>5. CASE releaseAudioPatch
  BY <1>1, <1>5 DEF releaseAudioPatch, PatchesKnown, Call
<1> QED  BY <1>3, <1>4, <1>5

\* Parameters: a value that the HAL took is a value of the key's kind, and is read
\* back; what it refused changes neither side.
LEMMA ParametersKeep ==
  ASSUME CallsInv, setParamBool \/ setTtyMode \/ setParametersImpl
  PROVE  /\ CallHonest' /\ ParametersReadBack' /\ Written'
         /\ store' \in [Keys -> Strings \cup {"absent"}]
         /\ UNCHANGED << props, asked, known, patches, mine >>
<1> DEFINE Kept == /\ CallHonest' /\ ParametersReadBack' /\ Written'
                   /\ store' \in [Keys -> Strings \cup {"absent"}]
<1> USE DEF OnParameters, propertyVars
<1>1. /\ store \in [Keys -> Strings \cup {"absent"}] /\ Written /\ ParametersReadBack
  BY DEF CallsInv, CallsTypeOK
<1>2. ASSUME NEW op \in {"setParam", "setTtyMode", "setParameters"},
             NEW k \in Keys, NEW str \in Strings,
             NEW val \in {"unknown", "TRUE", "FALSE"} \union TtyModes,
             setParams(op, k, str, val),
             val # "unknown" /\ k = Switch => getParamBool(str) = [ret |-> "OK", val |-> val],
             val # "unknown" /\ k = Tty => getParamTty(str) = [ret |-> "OK", val |-> val]
      PROVE  Kept
  <2>1. PICK st \in Statuses :
          /\ told' = [fn |-> op, arg |-> str, st |-> st]
          /\ last' = [op |-> op, ret |-> analyzeStatus(st), val |-> 0]
          /\ store' = IF st = "0" THEN [store EXCEPT ![k] = str] ELSE store
          /\ wrote' = IF last'.ret = "OK" THEN [wrote EXCEPT ![k] = val] ELSE wrote
    BY <1>2 DEF setParams, Returns
  <2>2. last'.ret = "OK" <=> st = "0"
    BY <2>1, StatusHonest
  <2>3. CallHonest'
    BY <2>1, StatusHonest DEF CallHonest, Results, Questions
  <2>4. Written' /\ store' \in [Keys -> Strings \cup {"absent"}]
    BY <1>1, <2>1 DEF Written
  <2>5. ParametersReadBack'
    <3>1. Switch # Tty /\ Switch \in Keys /\ Tty \in Keys
      BY DEF Switch, Tty, Keys
    <3>2. CASE st = "0"
      <4>1. /\ store'[k] = str /\ wrote'[k] = val
            /\ \A j \in Keys \ {k} : store'[j] = store[j] /\ wrote'[j] = wrote[j]
        BY <1>1, <2>1, <2>2, <3>2 DEF Written
      <4> QED  BY <1>1, <1>2, <3>1, <4>1 DEF ParametersReadBack
    <3>3. CASE st # "0"
      BY <1>1, <2>1, <2>2, <3>3 DEF ParametersReadBack
    <3> QED  BY <3>2, <3>3
  <2> QED  BY <2>3, <2>4, <2>5
<1>3. CASE setParamBool
  <2>1. PICK b \in BOOLEAN :
          setParams("setParam", Switch, IF b THEN "on" ELSE "off", IF b THEN "TRUE" ELSE "FALSE")
    BY <1>3 DEF setParamBool
  <2>2. Switch \in Keys /\ Switch # Tty /\ "on" \in Strings /\ "off" \in Strings
    BY DEF Switch, Tty, Keys, Strings
  <2> HIDE DEF Kept
  <2>3. ASSUME b PROVE Kept
    <3>1. setParams("setParam", Switch, "on", "TRUE")
      BY <2>1, <2>3
    <3> QED  BY <1>2, <2>2, <3>1, SwitchRoundTrip
  <2>4. ASSUME ~b PROVE Kept
    <3>1. setParams("setParam", Switch, "off", "FALSE")
      BY <2>1, <2>4
    <3> QED  BY <1>2, <2>2, <3>1, SwitchRoundTrip
  <2>5. Kept
    BY <2>3, <2>4
  <2> QED  BY <1>3, <2>5 DEF setParamBool, Kept
<1>4. CASE setTtyMode
  <2>1. ASSUME Refuses("setTtyMode", "INVALID_ARGUMENTS"), UNCHANGED << store, wrote >>
        PROVE  Kept
    <3>1. CallHonest'
      BY <2>1 DEF Refuses, Returns, NotTold, CallHonest, Results, Questions
    <3>2. ParametersReadBack' /\ Written' /\ store' \in [Keys -> Strings \cup {"absent"}]
      BY <1>1, <2>1 DEF ParametersReadBack, Written
    <3> QED  BY <3>1, <3>2
  <2>2. ASSUME NEW mode \in TtyModes \cup {"7"}, convertTtyModeFromHIDL(mode) # "null",
               setParams("setTtyMode", Tty, convertTtyModeFromHIDL(mode), mode)
        PROVE  Kept
    <3>1. /\ mode \in TtyModes /\ convertTtyModeFromHIDL(mode) \in Strings
          /\ getParamTty(convertTtyModeFromHIDL(mode)) = [ret |-> "OK", val |-> mode]
      BY <2>2, TtyRoundTrip
    <3> HIDE DEF Kept
    <3> QED  BY <1>2, <2>2, <3>1 DEF Switch, Tty, Keys
  <2> HIDE DEF Kept
  <2>3. Kept
    BY <1>4, <2>1, <2>2 DEF setTtyMode
  <2> QED  BY <1>4, <2>3 DEF setTtyMode, Kept
<1>5. CASE setParametersImpl
  BY <1>2, <1>5 DEF setParametersImpl
<1> QED  BY <1>3, <1>4, <1>5

\* Properties: what the client learns of a call is so, and a call in progress touches
\* only what it was asked for.
LEMMA PropertiesKeep ==
  ASSUME CallsInv,
         setAudioProperties \/ setNextProperty \/ setOneProperty \/ getAudioProperties
  PROVE  /\ CallHonest' /\ Halfway' /\ PropertiesKnown'
         /\ props' \in [Properties -> Values]
         /\ known' \in [Properties -> Values \cup {Unknown}]
         /\ UNCHANGED << patches, mine, store, wrote >>
<1> USE DEF OnProperties
<1>1. /\ props \in [Properties -> Values] /\ known \in [Properties -> Values \cup {Unknown}]
      /\ Halfway /\ PropertiesKnown /\ CallHonest
  BY DEF CallsInv, CallsTypeOK
<1>2. NotAsked.all = {} /\ NotAsked.todo = {}
  BY DEF NotAsked
<1>3. CASE setAudioProperties
  <2>1. asked = NotAsked /\ UNCHANGED props
    BY <1>3 DEF setAudioProperties
  <2>2. PICK set \in SUBSET Properties, value \in [Properties -> Values] :
          \/ /\ \E st \in Statuses \ {"0"} : Refuses("setAudioProperties", analyzeStatus(st))
             /\ known' = [i \in Properties |-> IF i \in set THEN Unknown ELSE known[i]]
             /\ UNCHANGED asked
          \/ /\ set = {} /\ Refuses("setAudioProperties", "OK")
             /\ UNCHANGED << asked, known >>
          \/ /\ set # {} /\ asked' = [all |-> set, todo |-> set, value |-> value]
             /\ UNCHANGED << last, told, known >>
    BY <1>3 DEF setAudioProperties
  <2>3. CASE /\ \E st \in Statuses \ {"0"} : Refuses("setAudioProperties", analyzeStatus(st))
             /\ known' = [i \in Properties |-> IF i \in set THEN Unknown ELSE known[i]]
             /\ UNCHANGED asked
    <3>1. CallHonest'
      BY <2>3, StatusHonest DEF Refuses, Returns, NotTold, CallHonest, Results, Questions
    <3>2. Halfway' /\ PropertiesKnown' /\ known' \in [Properties -> Values \cup {Unknown}]
      BY <1>1, <1>2, <2>1, <2>3 DEF Halfway, PropertiesKnown
    <3> QED  BY <1>1, <1>3, <2>1, <3>1, <3>2 DEF setAudioProperties
  <2>4. CASE set = {} /\ Refuses("setAudioProperties", "OK") /\ UNCHANGED << asked, known >>
    <3>1. CallHonest'
      BY <2>4 DEF Refuses, Returns, NotTold, CallHonest, Results, Questions
    <3>2. Halfway' /\ PropertiesKnown'
      BY <1>1, <2>1, <2>4 DEF Halfway, PropertiesKnown
    <3> QED  BY <1>1, <1>3, <2>1, <2>4, <3>1, <3>2 DEF setAudioProperties
  <2>5. CASE /\ set # {} /\ asked' = [all |-> set, todo |-> set, value |-> value]
             /\ UNCHANGED << last, told, known >>
    <3>1. CallHonest'
      BY <1>1, <2>5 DEF CallHonest
    <3>2. Halfway' /\ PropertiesKnown'
      BY <1>1, <1>2, <2>1, <2>5 DEF Halfway, PropertiesKnown
    <3> QED  BY <1>1, <1>3, <2>1, <2>5, <3>1, <3>2 DEF setAudioProperties
  <2> QED  BY <2>2, <2>3, <2>4, <2>5
<1>4. CASE setNextProperty
  <2> DEFINE i == CHOOSE i \in asked.todo : \A j \in asked.todo : i <= j
             rest == asked.todo \ {i}
  <2>1. /\ asked \in [all : SUBSET Properties, todo : SUBSET Properties,
                      value : [Properties -> Values]]
        /\ asked.todo \subseteq asked.all /\ asked.todo # {}
        /\ \A j \in asked.all \ asked.todo : props[j] = asked.value[j]
    BY <1>1, <1>4 DEF setNextProperty, Halfway
  <2>2. i \in asked.todo
    <3>1. \E k \in asked.todo : \A j \in asked.todo : k <= j
      <4>1. asked.todo \subseteq {1, 2, 3} /\ asked.todo # {}
        BY <2>1 DEF Properties
      <4> QED  BY <4>1
    <3> QED  BY <3>1
  <2>3. PICK st \in Statuses :
          /\ props' = IF st = "0" THEN [props EXCEPT ![i] = asked.value[i]] ELSE props
          /\ IF st # "0" \/ rest = {}
             THEN /\ told' = [fn |-> "setParam", arg |-> i, st |-> st]
                  /\ PropertiesReturn(analyzeStatus(st))
             ELSE /\ asked' = [asked EXCEPT !.todo = rest]
                  /\ UNCHANGED << last, told, known >>
    BY <1>4 DEF setNextProperty
  <2> HIDE DEF i
  <2>4. /\ props' \in [Properties -> Values]
        /\ \A j \in Properties : j # i => props'[j] = props[j]
        /\ st = "0" => props'[i] = asked.value[i]
    BY <1>1, <2>1, <2>2, <2>3
  <2>5. CASE st # "0" \/ rest = {}
    <3>1. /\ told' = [fn |-> "setParam", arg |-> i, st |-> st]
          /\ last' = [op |-> "setAudioProperties", ret |-> analyzeStatus(st), val |-> 0]
          /\ asked' = NotAsked
          /\ known' = [j \in Properties |->
               IF j \notin asked.all THEN known[j]
               ELSE IF analyzeStatus(st) = "OK" THEN asked.value[j] ELSE Unknown]
      BY <2>3, <2>5 DEF PropertiesReturn, Returns
    <3>2. CallHonest'
      BY <3>1, StatusHonest DEF CallHonest, Results, Questions
    <3>3. Halfway' /\ known' \in [Properties -> Values \cup {Unknown}]
      BY <1>1, <2>1, <3>1 DEF Halfway
    <3>4. ASSUME NEW j \in Properties, known'[j] # Unknown PROVE props'[j] = known'[j]
      <4>1. CASE j \notin asked.all
        BY <1>1, <2>1, <2>2, <2>4, <3>1, <3>4, <4>1 DEF PropertiesKnown
      <4>2. CASE j \in asked.all
        <5>1. st = "0" /\ known'[j] = asked.value[j]
          BY <3>1, <3>4, <4>2, StatusHonest
        <5>2. rest = {}
          BY <2>5, <5>1
        <5> QED  BY <2>1, <2>2, <2>4, <4>2, <5>1, <5>2
      <4> QED  BY <4>1, <4>2
    <3>5. PropertiesKnown'
      BY <3>4 DEF PropertiesKnown
    <3> QED  BY <1>4, <2>4, <3>2, <3>3, <3>5 DEF setNextProperty
  <2>6. CASE ~(st # "0" \/ rest = {})
    <3>1. st = "0" /\ rest # {} /\ asked' = [asked EXCEPT !.todo = rest]
          /\ UNCHANGED << last, told, known >>
      BY <2>3, <2>6
    <3>2. /\ asked' \in [all : SUBSET Properties, todo : SUBSET Properties,
                         value : [Properties -> Values]]
          /\ asked'.all = asked.all /\ asked'.todo = rest /\ asked'.value = asked.value
      BY <2>1, <3>1
    <3>3. Halfway'
      BY <2>1, <2>2, <2>4, <3>1, <3>2 DEF Halfway
    <3>4. PropertiesKnown'
      BY <1>1, <2>1, <2>2, <2>4, <3>1, <3>2 DEF PropertiesKnown
    <3>5. CallHonest'
      BY <1>1, <3>1 DEF CallHonest
    <3> QED  BY <1>1, <1>4, <2>4, <3>1, <3>3, <3>4, <3>5 DEF setNextProperty
  <2> QED  BY <2>5, <2>6
<1>5. CASE setOneProperty
  <2>1. PICK k \in Properties, v \in Values :
          /\ Call("setOneProperty", TRUE, TRUE, v)
          /\ props' = IF told'.st = "0" THEN [props EXCEPT ![k] = v] ELSE props
          /\ known' = IF last'.ret = "OK" THEN [known EXCEPT ![k] = v] ELSE known
    BY <1>5 DEF setOneProperty
  <2>2. PICK st \in Statuses :
          /\ told' = [fn |-> "setOneProperty", arg |-> v, st |-> st]
          /\ last' = [op |-> "setOneProperty", ret |-> analyzeStatus(st), val |-> 0]
    BY <2>1 DEF Call, Refuses, Returns
  <2>3. CallHonest' /\ (last'.ret = "OK" <=> st = "0") /\ told'.st = st /\ UNCHANGED asked
    BY <1>5, <2>2, StatusHonest DEF CallHonest, Results, Questions, setOneProperty
  <2>4. CASE st = "0"
    <3>1. /\ props' = [props EXCEPT ![k] = v] /\ known' = [known EXCEPT ![k] = v]
      BY <2>1, <2>3, <2>4
    <3>2. /\ props' \in [Properties -> Values] /\ known' \in [Properties -> Values \cup {Unknown}]
      BY <1>1, <3>1
    <3>3. PropertiesKnown'
      BY <1>1, <2>3, <3>1 DEF PropertiesKnown
    <3>4. Halfway'
      BY <1>1, <1>2, <1>5, <2>3 DEF Halfway, setOneProperty
    <3> QED  BY <1>5, <2>3, <3>2, <3>3, <3>4 DEF setOneProperty
  <2>5. CASE st # "0"
    <3>1. UNCHANGED << props, known, asked >>
      BY <2>1, <2>3, <2>5
    <3> QED  BY <1>1, <1>5, <2>3, <3>1 DEF setOneProperty, Halfway, PropertiesKnown
  <2> QED  BY <2>4, <2>5
<1>6. CASE getAudioProperties
  <2>1. /\ UNCHANGED << props, asked >> /\ known' \in {props, known} /\ told' = NotTold
        /\ \E ret \in Results : last' = [op |-> "getAudioProperties", ret |-> ret, val |-> 0]
    BY <1>6, StatusHonest DEF getAudioProperties, Returns, Results
  <2>2. CallHonest'
    BY <2>1 DEF CallHonest, NotTold, Questions
  <2>3. Halfway' /\ PropertiesKnown' /\ known' \in [Properties -> Values \cup {Unknown}]
    BY <1>1, <2>1 DEF Halfway, PropertiesKnown
  <2> QED  BY <1>1, <1>6, <2>1, <2>2, <2>3 DEF getAudioProperties
<1> QED  BY <1>3, <1>4, <1>5, <1>6
-----------------------------------------------------------------------------
\* Every call is one of these.
LEMMA CallsCases ==
  ASSUME CallsNext
  PROVE  \/ Quiet
         \/ createAudioPatch \/ updateAudioPatch \/ releaseAudioPatch
         \/ setParamBool \/ setTtyMode \/ setParametersImpl
         \/ setAudioProperties \/ setNextProperty \/ setOneProperty \/ getAudioProperties
<1>1. CASE ClientTakesResult \/ prepareSizes
  BY <1>1, TakesQuietly, OtherQuiet
<1>2. CASE PrimaryDeviceControls \/ PrimaryDeviceForwards
  BY <1>2, DeviceQuiet, OtherQuiet DEF PrimaryDeviceControls, PrimaryDeviceForwards
<1>3. CASE StreamOutControls \/ StreamInControls
  BY <1>3, StreamOutQuiet, StreamInQuiet
<1>4. CASE StreamOutForwards \/ StreamInForwards
  BY <1>4, StreamQuiet DEF StreamOutForwards, StreamInForwards, StreamControls
<1> QED  BY <1>1, <1>2, <1>3, <1>4 DEF CallsNext

LEMMA CallsInit_Inv == CallsInit => CallsInv
<1> SUFFICES ASSUME CallsInit PROVE CallsInv
  OBVIOUS
<1>1. CallsTypeOK /\ PatchesKnown
  BY DEF CallsInit, CallsTypeOK, NoCall, Keys, PatchesKnown, Properties, Values, Unknown
<1>2. Written /\ ParametersReadBack
  BY DEF CallsInit, Written, ParametersReadBack, Keys, Switch, Tty
<1>3. CallHonest
  BY DEF CallsInit, CallHonest, NoCall, NotTold, Results, Questions
<1>4. Halfway /\ PropertiesKnown
  BY DEF CallsInit, Halfway, PropertiesKnown
<1> QED  BY <1>1, <1>2, <1>3, <1>4 DEF CallsInv

LEMMA CallsStep == CallsInv /\ [CallsNext]_vars => CallsInv'
<1> SUFFICES ASSUME CallsInv, [CallsNext]_vars PROVE CallsInv'
  OBVIOUS
<1> USE DEF CallsInv
<1>1. CASE UNCHANGED vars
  BY <1>1 DEF vars, CallsTypeOK, Written, CallHonest, PatchesKnown, ParametersReadBack,
              Halfway, PropertiesKnown
<1>2. CASE Quiet
  BY <1>2 DEF Quiet, held, CallsTypeOK, Written, CallHonest, Results, PatchesKnown,
              ParametersReadBack, Halfway, PropertiesKnown
<1>3. CASE createAudioPatch \/ updateAudioPatch \/ releaseAudioPatch
  <2>1. /\ CallHonest' /\ PatchesKnown' /\ patches' \subseteq Handles
        /\ UNCHANGED << props, asked, known, store, wrote >>
    BY <1>3, PatchesKeep
  <2> QED  BY <2>1 DEF CallsTypeOK, Written, CallHonest, Results, PatchesKnown,
                       ParametersReadBack, Halfway, PropertiesKnown
<1>4. CASE setParamBool \/ setTtyMode \/ setParametersImpl
  <2>1. /\ CallHonest' /\ ParametersReadBack' /\ Written'
        /\ store' \in [Keys -> Strings \cup {"absent"}]
        /\ UNCHANGED << props, asked, known, patches, mine >>
    BY <1>4, ParametersKeep
  <2> QED  BY <2>1 DEF CallsTypeOK, CallHonest, Results, PatchesKnown, Halfway, PropertiesKnown
<1>5. CASE setAudioProperties \/ setNextProperty \/ setOneProperty \/ getAudioProperties
  <2>1. /\ CallHonest' /\ Halfway' /\ PropertiesKnown'
        /\ props' \in [Properties -> Values]
        /\ known' \in [Properties -> Values \cup {Unknown}]
        /\ UNCHANGED << patches, mine, store, wrote >>
    BY <1>5, PropertiesKeep
  <2> QED  BY <2>1 DEF CallsTypeOK, Written, CallHonest, Results, PatchesKnown, ParametersReadBack
<1> QED  BY <1>1, <1>2, <1>3, <1>4, <1>5, CallsCases

\* The invariant of the calls, for every legacy HAL.
THEOREM CallsInvariant == CallsSpec => []CallsInv
  BY CallsInit_Inv, CallsStep, PTL DEF CallsSpec

\* A call with a Result is reported as done exactly when the legacy HAL did it, and what is
\* handed back with OK was set by somebody: Device, Stream, StreamOut, StreamIn,
\* StreamMmap and PrimaryDevice, for every HAL.
THEOREM ResultAlwaysHonest == CallsSpec => []HonestResult
<1>1. CallsInv => HonestResult
  BY DEF CallsInv, CallHonest, HonestResult
<1> QED  BY <1>1, CallsInvariant, PTL

\* The client knows exactly the patches of Device that exist, and reads back of
\* ParametersUtil what it last set, for any number of handles and refusals.
THEOREM PictureAlwaysTrue == CallsSpec => []ClientPictureTrue
<1>1. CallsInv => ClientPictureTrue
  BY DEF CallsInv, ClientPictureTrue
<1> QED  BY <1>1, CallsInvariant, PTL

\* What the client takes a property of its stream to be is what it is, for any sequence
\* of Stream::setAudioProperties, setSampleRate, setChannelMask, setFormat and
\* getAudioProperties and any refusals of the legacy HAL.
THEOREM PropertiesAlwaysKnown == CallsSpec => []PropertiesKnown
<1>1. CallsInv => PropertiesKnown
  BY DEF CallsInv
<1> QED  BY <1>1, CallsInvariant, PTL
================================================================================
