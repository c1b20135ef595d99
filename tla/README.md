# Verification of the audio paths of device_phh_treble

`device_phh_treble` is the device tree of a generic Android system image. Most of
it is build files, resources and boot scripts; the programs with real state are the
Bluetooth audio HAL (`src/bluetooth/audio`), the HIDL wrapper around a legacy audio
HAL (`src/audio/hal`) and the OTA helper (`src/ota`). This project models them, checks
the models with TLC, and proves the main facts about the Bluetooth control path with
TLAPS.

## 1. Inventory

| Component | State it keeps | Operations | Status |
|---|---|---|---|
| AIDL session, `utils/aidl_session/BluetoothAudioSession` | `stack_iface_`, `data_mq_`, `audio_config_`, `latency_modes_`, `low_latency_allowed_`, `observers_`, a recursive `mutex_` | session start/end, control reports, register/unregister, start/suspend/stop requests, PCM transfer | modelled, except PCM input and calls that only forward |
| Control/report facades, `BluetoothAudioSession{Control,Report}.h` | none | forward to the session of a type | modelled (by the session's actions) |
| Providers and factory, `hal/*AudioProvider*.cpp` | `stack_iface_`, `audio_config_`, `latency_modes_`, a death recipient | `startSession`, `endSession`, `streamStarted`, `streamSuspended`, `updateAudioConfiguration`, `setLowLatencyModeAllowed`, binder death, A2DP negotiation | modelled, except ASE/QoS matching |
| AIDL port proxy, `hw/device_port_proxy.cc` | `state_`, `cookie_`, `session_type_`, `cv_mutex_`, condition variable | `SetUp`, `TearDown`, `Start`, `Suspend`, `Stop`, callbacks, mono mixing | modelled, except `LoadAudioConfig`'s conversions |
| Output streams, `hw/stream_apis.cc`, `hw/audio_bluetooth_hw.cc` | per-stream `mutex_`, frame counters, the device's `opened_stream_outs_` and `mutex_` | open, close, write, standby, pause, resume, parameters, positions | modelled, except delays and timestamps |
| Input streams, `hw/stream_apis.cc` | per-stream `mutex_`, `frames_presented_` | read, standby, capture position, open, close | modelled |
| HIDL port proxy, `hw/device_port_proxy_hidl.cc` | as the AIDL port | as the AIDL port | modelled as an input port; its output half is that of the AIDL port |
| HIDL sessions 2.0 and 2.1, `utils/session` | as the AIDL session, a second configuration in the 2.1 object | as the AIDL session | modelled, except PCM output |
| HIDL-to-AIDL middleware | `legacy_callback_table` | register, unregister, callbacks, conversions | modelled, on top of the AIDL session; the data path only forwards |
| AIDL codec tables | constants | capabilities, validity of a configuration | modelled for A2DP and PCM |
| A2DP offload codecs and factory | none | parse and build a configuration, choose a codec | modelled |
| Audio HAL wrapper, `src/audio/hal` | message queues, event flags, write and read threads, stop flags, callbacks, `mOpenedStreamsCount` | open, prepare, commands, callbacks, close, destruction; some 90 calls on the legacy HAL | modelled, except microphone lists, metadata and the loading of legacy modules |
| OTA helper, `src/ota`, `files/ota.sh` | two backing images, device-mapper tables, `/metadata/phh/img` | `new-slot`, `switch-slot`, `delete-other-slot`, `unmap` | modelled, except `phh.ota.*` and `/dev/phh-ota` |
| LE audio settings and codec tables, HIDL codec tables | tables, some parsed from XML | lookups | not modelled, see section 7 |
| Fingerprint proxies, service start-up, parameter parsing, command line tools, in-call service, boot scripts, overlays, policies | - | - | not modelled, see section 7 |

How they interact. The Bluetooth process owns a *provider* per session type and
calls it over binder. The provider reports into the *session* object of that type,
which is a singleton in the audio HAL's process. A *port* registers callbacks with
the session and is owned by one *stream*, which the audio framework drives. Requests
go down (stream -> port -> session -> the stack's port, over binder), results come
back up (stack -> provider -> session -> every registered port). A HIDL port uses a
HIDL session; where the AIDL service exists, that session hands every call to the
*middleware*, which registers its own callbacks with the AIDL session and converts
what comes back. Beside this stands the audio HAL wrapper: a client process opens
*streams* of a *device* over hwbinder, and each stream has a thread that serves the
client's commands from message queues by calling the legacy HAL.

What makes it hard:

* The session's mutex is held during the walk over `observers_`, in which ports
  take `cv_mutex_`; the streams hold their own lock while they call into the session.
* `state_` is written by the callbacks under `cv_mutex_` and by the port's own
  methods without it.
* Callbacks capture a bare `this`; streams are deleted by `adev_close_output_stream`.
* A result names no request; it is matched with the stream's current state, and it
  is broadcast to all ports of the session.
* Requests time out; results may come late, never, or unasked.
* The Bluetooth process may die between any two steps; its death notice arrives at
  some later time and names only a session type.
* The table of cookies is finite; the data queue can fail to map.
* The middleware registers in two steps under two locks, and its callbacks read its
  table under neither.
* The input stream gives its lock away while it sleeps, in the middle of a decision.
* A stream of the audio HAL wrapper is torn down by a stop flag, an event flag and a
  join, in an order that changed with version 6; its client may die at any step.
* The power may fail between any two steps of an update.

The properties that make the parts correct: the session never changes silently; the
stack behind a session is known to its provider; a stream that plays has a session; no
stream or port is used after it is freed; data arrives unbroken; a configuration
arrives as it was set; every call returns; a client's command is answered exactly once
and by an open stream; the slot to boot from has a complete image. `PROJECT.json` lists
each hazard with its line and the properties aimed at it.

## 2. Modules

    BluetoothAudioSession            the AIDL session object
      BluetoothAudioSessionProofs
    BluetoothAudioProvider           + providers, process deaths   (MCProvider)
    BluetoothAudioPort               + the ports' steps
    BluetoothStreamOut               + streams, device, threads    (MCStreamOut)
      BluetoothStreamOutProofs       providers, refinements, streams
    PcmDataPath                      the data of one stream        (MCPcm)
      PcmDataPathProofs
    HidlAudioSession                 the HIDL session object
    BluetoothStreamIn                + HIDL port, input stream     (MCStreamIn)
      BluetoothStreamInProofs
    BluetoothAudioCodecs             the codec tables
    HidlToAidlMiddleware             AIDL session + middleware     (MCMiddleware)
    A2dpOffloadCodecs                negotiation of a codec        (MCA2dpCodecs)
      CodecsAndMiddlewareProofs      the negotiation, the middleware
    AudioStreamContract              what a stream promises a client
    AudioHalStreams                  streams that keep it          (MCAudioStreams)
      AudioHalStreamsProofs
    AudioHalCalls                    the other calls               (MCAudioCalls)
      AudioHalCallsProofs
    OtaSlots                         the OTA helper
      OtaSlotsProofs

The first four modules extend each other, and the lower ones are specifications of
their own: `BluetoothStreamOut!Spec` implements `ProviderSafety`, so what is proved of the
providers holds of the whole control path. The providers, and the middleware too, change
the session only by its actions; `SessionSpec` allows these in any order and with any
argument, and what is proved of it holds under either of them. `HidlToAidlMiddleware` extends `BluetoothAudioSession` and
`BluetoothAudioCodecs`, `BluetoothStreamIn` extends `HidlAudioSession`.
`AudioHalStreams` implements `AudioStreamContract` under a refinement mapping.

Operators named `...Unlocked`, `...Lost`, `...Swapped` and the like, marked "Mutant",
are plausible bugs: with one of them in place of the definition that follows it, the
property `PROJECT.json` names for it must fail.

### BluetoothAudioSession

Each method takes the recursive `mutex_` and is one step. The methods that notify
(`OnSessionStarted`, `OnSessionEnded`, the `Report*` methods) keep the mutex through
the walk over `observers_`; the walk is `bcast.todo`, the mutex is free (`Unlocked`)
exactly when it is empty, and each callback is a step of its own in any order
(`observers_` is a map, and its order is no promise). An audio configuration is its
union tag: the accepted tag is all the control path looks at. A cookie is its offset
in the type's range. `requests` is what the stack has been asked and has not
answered; it stands for binder and the stack.

A callback could call back into the session on the same thread, the mutex being
recursive. In this code no callback does. The stack may answer a `startStream` call
synchronously, before it returns, and re-enter the session from the caller's thread:
that is the order StartCall, StackAnswers, callbacks, StartWait, which the model has
among its interleavings.

### BluetoothAudioProvider

One *stack* is one life of the Bluetooth process with its provider. `startSession`
has three steps (fields and configuration check, `linkToDeath`, `onSessionReady`),
`endSession` has two; the process may die at any point, and a call it was making goes
on in the HAL. `links` counts the death links; `binderDied` is the notice, delivered
at any time after the death, once for each link, and a link made after the death does
not take. Unlinking in `endSession` passes a cookie that was never
linked, so it removes nothing; the links go when the last reference to the stack's
port does. The queue of a software session may fail to map (`MqResults`).

### BluetoothAudioPort and BluetoothStreamOut

A port's `state_` is a plain field: every read and write of it is a step, and a
callback has a step that reads (`CallbackBegin`) and one that writes
(`ControlResultHandler`, `SessionChangedHandler`), with `cv_mutex_` held between,
which keeps out `CondwaitState` only. `CondwaitState` returns when the timeout
strikes, which may be at any moment.

Each stream has one thread of the framework; `Ctl` is the thread of
`adev_set_parameters`, which visits every open stream with the device's lock held.
`pc` follows each call through its tests and assignments; the data that a write
moves is left to `PcmDataPath`. The stack
answers requests in order, loses any of them, and may suspend a stream by itself.

### PcmDataPath

The data of one output stream, from `out_write` to the stack. A byte is its number
in the queue's format, so the content of a session's queue, `stream`, shows whether a
byte was lost, repeated or moved. `WriteData` begins a write where the framework had
got to (`pos`, moved on by what `out_write` returns). Each round of the loop in
`OutWritePcmData` takes the session's mutex for itself and is one step (`WriteChunk`,
`WritePoll`, `WriteGivesUp`), so the session ends, starts and is replaced between any
two of them; a new session has an empty queue. `Account` is the rest of `out_write`.
`Scale` is 2 when the port mixes stereo to mono and 1 otherwise.

Of the stream's state one bit matters here, `disabled`: a write that finds the stream
DISABLED reports its whole buffer as written and writes nothing (`DropData`), so `pos`
moves on while neither the queue nor a frame counter does. Everything that makes or
ends that state is an action: the parameters A2dpSuspended, closing and exiting, a
session change, and a control result, which may also come late and undo a DISABLED
(`ControlResult`). A write refused in any other state returns 0 and changes nothing.
`dropped` and `accepted` are history: the bytes dropped since the queue was set up, and
the bytes reported that did reach a queue. `FeedingFrames` is the arithmetic of the presentation position in
unsigned words. `WholeFrames` states what the code takes from outside: the framework
writes whole frames, the stack reads whole frames, and a queue holds whole frames.

### HidlAudioSession and BluetoothStreamIn

The HIDL session is two objects that share one recursive mutex: version 2.0, and 2.1
around it for the session types 2.0 does not know. A session type takes one of three
ways through them (`is_2_0_session_type`, `is_unsupported_2_1_session_type`, the rest),
with different checks, and the module keeps the two configurations apart. `given` is
what the session was started with, `silenced` that a start failed at its queue after
the old queue was already gone.

The stream has two threads: `reader` in `in_read`, and `control`, which makes the
standby, position, open and close calls. Both take `in->mutex_`; `in_standby` and
`in_read` release it for each sleep of 1 ms (`StandbySleep`, the `read.sleep` steps),
`InReadPcmData` waits without it, and so the other thread and the callbacks come in
between. `polls` counts the sleeps left. As in the output path each read and each write
of `state_` is a step of its own.

### HidlToAidlMiddleware

The AIDL session of `BluetoothAudioSession` with HIDL ports as observers. `m_pc` is
where a port's registration stands; the step under the session's mutex and the step
under the table's lock are two (`RegisterControlResultCback`/`FileCallbacks`,
`UnregisterControlResultCback`/`EraseCallbacks`). A callback looks its port up by
cookie (`InvokeCallback`) and returns (`CallbackReturns`) with the session's mutex
held throughout. The callbacks read the table without its lock
(`HidlToAidlMiddleware.cpp:511-517`) while a registration may write to it, which is a data
race on the map; the model takes the look-up for one step and checks what it may find
before and after each write, not a torn read. `GetAudioConfigAs` runs the session's configuration through the
conversions, which are modelled table by table, an uninitialised field as `Garbage` and
a failed `LOG(FATAL)` check as `Aborted`; `LoadAudioConfig` is the last link, at the port.
The fields `dataIntervalUs` (lost in version 2.0), `encodedAudioBitrate`, `peerMtu` and
`isScmstEnabled` are copied as they are and are left out of the records.

### BluetoothAudioCodecs and A2dpOffloadCodecs

Capabilities and configurations are records of fields; a bit field is the set of its
bits. `SbcBuildConfiguration` and `AacBuildConfiguration` are the functions of that
name as operators, with the hint, the order of preference and the fallbacks.
`GetFrameSize`, `GetBitrate` and the halving search `GetBitpool` are computed with the
code's integer arithmetic, the search written out as its eight steps. The factory dereferences the end of its list when the hint names no codec;
what is read there is nondeterministic (`stray`). `kEnableA2dpCodecExtensibility` is a
build switch, and both values are checked: in the shipped build the negotiation is off,
while `startSession` with an A2DP configuration is not.

### AudioStreamContract, AudioHalStreams and AudioHalCalls

`AudioHalStreams` has a device with streams, each with a thread, command, data and
status queues and an event flag. `close()` and the destructor are split where another
thread can come in: setting the stop flag and waking, joining the thread, closing the
legacy stream, storing the new count (`BeginClose`, `EndDestructor`, `EndClose`,
`CloseReturns`). `major` decides the order: up
to version 5 the legacy stream is closed by the destructor after the join, from version
6 by `close()` without one. The client dies at any step and a new one may come.

`mOpenedStreamsCount` is a plain `int` without a lock, and the calls and destructors of
different streams run on a pool of hwbinder threads. An update of it is a load
(`NewStream`, `closeHalStream`) and a store (`OpenReturns`, `CloseReturns`), with steps of
the other streams in between; `upd` is the value on its way, `raced` the history of which
kinds of updates have overlapped. The fatal check and the decrement of a close go
by one load, as an optimising build makes of them. When it reads 0 there the service ends (`FatalCount`), and
with it everything it had open. Assumed of the client: it makes one call at a time on a
stream, and does not close a device while it opens a stream of it.

`AudioStreamContract` is what the interface promises: a command is answered once, only
while the stream is open, and a stream is not closed under a waiting client unless the
client or the service is gone. The mapping takes `life` from the legacy stream and `request` from the client and the
queues.

`AudioHalCalls` has every other call as what it checks, what it tells the legacy HAL
and what it answers (`Control` and `Query` give the common shapes). A legacy HAL may lack
any optional function and refuse anything. `props`, `patches` and `store` are the state
that survives a call; `last` is the answer, `told` what the legacy HAL was told.
`setAudioProperties` takes a step for each property it sets, and `known` is what a client
may conclude from the results of its calls: a property set with OK or read has that value,
one that was in a refused call may have any. A call of an interface version without a
Result (the lists of version 2, formats up to 5, metadata up to 6, `getAudioProperties`
up to 6) answers VOID, also when the legacy HAL or a conversion has failed. `part`
picks the part of the HAL a behaviour exercises, as no two of them share state.

### OtaSlots

`img` is `/metadata/phh/img`, `image` the backing images, `running` the slot the system
was booted from. `ota.sh` with the `phh-ota` commands it runs is one process, the
clean-up at boot another; the user may uninstall, unmap, interrupt and reboot, and the
power may fail, between any two steps. The write of the file is two steps, as
`WriteStringToFile` truncates first. The image manager is external: it does not unmap a
device that is in use, and may or may not refuse to delete a mapped image.

## 3. Runs

| Run | Question | Bounds |
|---|---|---|
| `provider` | crashes, restarts, unmappable queues, late notices; the process behind a session is watched, and the session it leaves when it dies is ended | 2 lives, 1 port, 3 session types, 2 links |
| `late_death` | *violation*: a late notice ends the next process's session | as `provider` |
| `stream_out` | one stream, every kind of call, torn callbacks, timeouts, death | 1 stream, the control thread, 1 life, 2 requests, an A2DP and a hearing aid session |
| `two_streams` | two streams on one session | 2 streams, 2 cookies, resume/pause/open/close |
| `stream_live` | every call returns | 1 stream, write/standby/A2dpSuspended |
| `pcm` | data through full queues, time-outs, restarts and drops; positions; writes return | mixed to mono; frames of 4 bytes, a queue of 2 mono frames, writes of 1 and 3 frames, 6 frames of data (`MaxBytes`), 7 frames counted (`MaxPresented`) |
| `stream_in` | an input stream against session restarts, late and missing results | 4 session types, 1 cookie, 2 sleeps, a read of 1 frame in 2 parts |
| `middleware` | two HIDL ports on an AIDL session through the middleware | 2 stacks, 2 ports, 1 cookie, 3 session types, 16 PCM, 9 codec and 2 LE configurations |
| `a2dp_codecs` | negotiation and validation of codecs | about 1,100 lists of remote end points (960 SBC and 144 AAC capability sets, lists with both and with two of a kind), 18 hints, configurations of the older interface whose codec and variant agree or not, both builds |
| `audio_streams` | threads, queues, close and destruction, overlapping updates of the counter; refinement of the contract | 1 output and 1 input stream, a queue of 1 byte, counts up to 2 (`MaxCount`), versions 5 and 6 |
| `audio_calls` | every other call, in every order | versions 2, 5, 6 and 7, legacy interfaces 2.0, 3.0 and 3.2, 2 patches, 16-value words |
| `ota` | updates, clean-ups and power failures | none: the model is finite |

Two lives suffice for a notice that outlives its process; two ports for a broadcast
that reaches somebody else's stream; one cookie fewer than ports makes the table
overflow and a cookie pass from one port to the other (`middleware`). `MaxRequests` lets
a request be outstanding when the next is made. A write of three frames into a queue of
two cannot be done in one round, so each outcome of the loop occurs (a part, a poll,
the last poll, the end of the session, a refusal); likewise a read of two bytes from a
queue of one in `stream_in`. `Word` is small in `pcm` and `audio_calls`, and a result that
wrapped around would be seen. Two sleeps are one more than the last one, so a state can
change in the first, the second or not at all. In `audio_streams` a READ asks for up
to one byte more than the queue holds. The versions are those on both sides of each
`#if MAJOR_VERSION`; the streams have no other difference between 2 and 5, or from 6 on. Two
streams are enough for an update of the counter to be lost. The remote devices of `a2dp_codecs` include
empty and contradictory fields, bitpools out of range and crossed, several end points
of a kind, and wrong lengths; the hints include rates of one, far too large, and minimum
above maximum. Bounds are guards named by constants, and none of them hides an error
path: at the bound, a call on the stack fails, as it may anyway.

`StartedHasSession` is checked with one life of the process and a queue that maps.
With a queue that fails to map on a restart, `OnSessionStarted` clears the
configuration of a ready session without telling the ports; a stream then stays
STARTED without a session until its next call. `InputKnowsSession` states the same
exception for the HIDL session.

The type invariants of the new modules are the first conjunct of one of their
invariants. `TypeOK`, `ProviderTypeOK`, `SessionTypeOK`, `PcmTypeOK`,
`CallbacksRegistered`, `ConfigFitsType`, `CallsExclusive` and the refinement
`ProviderSafety` are proved for all constants (section 5) and not run again.

`middleware` runs without a deadlock check because the program it models may end: a
`LOG(FATAL)` in the conversions is a final state.

### Fairness

Only the program's own threads are fair. Strong fairness of a thread's steps says that a
thread which finds a mutex free again and again gets it; the C++ mutexes promise no
more than that in practice, and without it no statement about returning calls can
hold. Callbacks run to the end (weak fairness: they hold the locks they need), and
binder delivers every death notice. In `audio_streams` the threads, the destructors
and the legacy HAL's callbacks go on (weak fairness: nobody takes their step away), the
legacy HAL returns from a call, and a live client takes its answers. Nothing is assumed
of the framework, which need not call, or of the stack, which need not answer.

## 4. What the code does that a reader might not expect

Found by a run that expects a violation:

* `late_death`: the death context holds a session type only. A notice delivered
  after the next process has started its session ends that one.

Found while modelling, and stated as exceptions of properties or as limits of them:

* The handler of control results takes any SUCCESS in STARTED for a suspend
  (`device_port_proxy.cc`, "Only Suspend signal can be send in STARTED state"). Results are
  broadcast: with two streams on a session, the start of the second puts the first back
  to STANDBY.
* `Stop` writes `state_` outside `cv_mutex_`; a handler that has read STARTING then
  writes STARTED over DISABLED.
* A process that dies inside `startSession`, before `linkToDeath` or between it and
  `onSessionReady` with its notice delivered at once (`BluetoothAudioProvider.cpp:77-81`),
  has its session installed after the notice was spent. The dead stack's session stays
  ready until the next start. `DeathEndsSession` speaks of sessions installed before the
  death, and `SessionWatched` says that those are linked.
* While a stream is DISABLED, `out_write` reports a buffer as written that it drops. When
  the state is left without a new session (A2dpSuspended=false, a late result), the same
  queue goes on with what follows the dropped buffers. `DataContiguous` allows exactly that
  gap. The dropped frames are in neither counter, so the position stays behind what the
  framework was told; `PositionBounded` speaks of what reached a queue.
* `out_write` counts the frames it was asked for as soon as one byte was written; the
  framework's next call counts the rest again. `PositionBounded` shows that the counter
  never falls behind what was accepted.
* `in_standby` returns 0 when it gives up a stream that stays in transition
  ("Don't loose suspend request, AF will not retry"); the late result of the start then
  leaves the stream STARTED. `StandbyHeeded` covers the other ways out of the call.
* A HIDL start whose queue is invalid takes the queue of a running session away and
  tells nobody (`silenced`).
* The middleware erases the callbacks of a port that was given a cookie between the two
  halves of its former owner's unregistration; that port hears nothing from then on
  (`crossed`). A callback in that window may reach the former owner (`NoStrayCallback`).
* `to_hidl_leaudio_config_2_1` ends the process with `LOG(FATAL)` when the codec *is* LC3,
  the codec it expects, and takes the frame duration from the sampling frequency.
* The codec factory reads past the end of its list when the hint names none of its
  codecs; SBC's maximum bitpool is the larger of the two sides' and not the smaller.
* `GetLeAudioOffloadCodecInfo` fills a local variable that hides the cache it means.
* From version 6 `close()` closes the legacy stream without joining its thread; the
  thread of a client that has died may be inside it. `StreamOut::setVolume` checks that
  `left` is in [0, 1] and never looks at `right`. `MAX_BUFFER_SIZE` is `2 << 30`, two GiB where its comment says one.
* `mOpenedStreamsCount` loses updates. When two destructors overlap, as after a client's
  death, a lost decrement leaves it too high: `~Device` then does not close the legacy
  device. When an open overlaps another update, a lost increment leaves it too low: the
  fatal check ends the service, or the device is closed under a stream. `DeviceAccounts`
  says which of them can come of which overlap.
* Up to version 6 `updateSourceMetadata` and `updateSinkMetadata` ignore a failed
  conversion, call the legacy HAL with what was converted and return nothing; the lists of
  version 2, and the formats up to version 5, are empty where the later interfaces say
  NOT_SUPPORTED. `HonestResult` speaks of calls that have a Result.
* `new-slot` goes by the slot that is selected and `delete-other-slot` by the one that
  runs. After a switch or an uninstallation without a reboot `new-slot` works on the
  image the system runs from. The clean-up at boot can delete an image that a quick
  update has just been given, and the truncation of `/metadata/phh/img` followed by a power
  failure sends the device back to its stock system.

## 5. Proofs

Each theorem holds for every value of the constants that satisfies the assumptions named
in the module that declares them, so for any number of streams, ports, cookies, lives of
a process, handles and for every size. Every invariant a run checks is proved.
Hardly any of them is inductive; the strengthening says what the
code relies on without stating it, and TLC has checked it on the instances of the runs
(`OtaInv` over all type-correct states) before it was proved.

* `BluetoothAudioSessionProofs` (`SessionAssumption`): `SessionInv` (types,
  `CallbacksRegistered`, the configuration fits the type) is inductive; from it type
  correctness, `CallbacksRegistered`, `ConfigFitsType` and the action property
  `ChangeAnnounced`.
* `BluetoothStreamOutProofs`, the providers (`ProviderAssumption`): `SessionOwned` is not
  inductive alone. It needs that a provider between `startSession` and `onSessionReady`
  already has its stack and an acceptable configuration (`StartPrepared`), and that a
  provider which has reported the end is not the session's (`EndReleases`). From
  `ProviderInv` follow `SessionOwned` and `StartReplaces`. `SessionWatched` needs
  that a running process is linked from `linkToDeath` on and as long as its session lasts
  (`Linked`), which `endSessionClear` keeps because of `EndReleases`.
* `BluetoothStreamOutProofs`, the streams (`StreamAssumption`): every step of a stream,
  callback or stack is a step of `ProviderNext` or a stutter, so `Spec => ProviderSafety`, and everything proved
  of sessions and providers holds of the whole control path. On top of it `TypeOK`,
  `NoUseAfterFree`, `OpenStreamHears` and `CallsExclusive`. None of the last three is
  inductive. `StreamInv` adds `Phases`: a thread is where the life of its stream says;
  `DeviceWalk`: while `adev_set_parameters` holds the device's lock, the streams it has
  still to visit are in the list, and a stream in the list is not being taken apart;
  `Registration`: a port is registered exactly from `RegisterStatusCback` to
  `UnregisterStatusCback`, under the cookie in `cookie_` or on its way there;
  `HandlerInWalk`: a callback in progress belongs to a walk that holds the session's
  mutex, so its port cannot be unregistered under it; `LocksHeld`: a thread inside a call
  has the stream's lock, the closing thread excepted, and that one is alone because the
  stream has left the list. The thread steps are first reduced to four effects
  (`ThreadEffect`), then each part has its own lemma.
  `StartedHasSession` has two exceptions, after which the session is gone while its stack is
  alive and may answer: a death notice delivered while the next process is up
  (`late_death`), and a start that fails at its queue. `StartedKeepsSession` proves it for
  behaviours in which neither occurs (`Undisturbed`), with any number of lives and sessions;
  `StartedHasSessionInOneLife` shows that one life and queues that map are enough for
  that. `StartedInv` adds that the session of a live process between two calls is ready
  (`OneProcess`, `Unborn`, `OwnerReady`), so that no result is reported without a session
  (`ReportReady`), that a stream is not STARTED before it is open (`Fresh`), and that a
  STARTED stream whose session has gone is still in the walk that tells it (`Told`).
* `PcmDataPathProofs` (`PcmAssumption`, `WholeFrames`): `PcmTypeOK` (neither queue nor
  buffer is overrun), `DataContiguous`, `FrameAligned` and `PositionBounded`, in stereo and
  mono. `DataContiguous` needs that between the last byte in the queue and the next to be
  written there are only dropped ones, that these lie before `pos`, and that a write in
  progress began at `pos` (`NextFollows`).
  `FrameAligned` needs that everything that moves is a whole number of frames
  (`AllWhole`), which rests on `WholeFrames`: the sizes of writes and queues are
  multiples of a frame, as the framework and the stack choose them. `PositionBounded`
  needs that what was presented counts what was accepted (`Counted`); dropped buffers are in
  neither.
* `BluetoothStreamInProofs` (`StreamInAssumption`, `HidlAssumption`): `ReadyHasConfig`,
  `NoDanglingPort`, `InputKnowsSession`, `StandbyHeeded` and `PositionSane`. `InputInv` adds
  where each thread can be in each life of the stream (`Life`) and what its lock is
  (`LocksHeld`), `Registration` and `HandlerInWalk` as above, that an interface without a
  queue comes from a failed start (`SessionKept`), that the bounded waits have a sleep left
  wherever they look (`SleepLeft`), and `Heeded`: while a stream is open only a callback
  that has read STARTING makes it STARTED, nobody writes over a STARTING that a callback
  has read, and after the first wait of `in_standby` there is no such callback. `Heeded`
  is the reason why a callback in the middle of its read and write of the state cannot
  undo a standby.
* `CodecsAndMiddlewareProofs`, the middleware (`SessionAssumption`, `ContentsAssumption`): the middleware implements
  `SessionSpec`, so `ChangeAnnounced` holds above it too; `KnownUnlessCrossed` and
  `NoStrayCallback`. `MiddlewareInv` adds that a port is an observer of the session exactly
  between the first halves of its registration and unregistration (`AtSession`), that a
  cookie with a new owner and an old one still to erase its entry is marked (`Filed`), and
  that a callback runs inside a walk of the session (`CallInWalk`).
  `ConfigArrives` for all contents a configuration may have, not only those of the run: what
  `GetAudioConfig` was given is what the session holds (`AnswerInv`); the tables of rates
  and sample sizes on the two sides are inverse to each other (`RatesConvert`,
  `BitsConvert`), so `LoadAudioConfig` gives back the PCM configuration; and each codec's
  conversion is injective on what its provider accepts (`SbcConverts`, `AacConverts`,
  `LdacConverts`, `AptxConverts`). `ContentsAssumption` says only which fields the
  configurations have.
* `CodecsAndMiddlewareProofs`, the negotiation (`ExtensibilityAssumption`, `RemotesAssumption`,
  `HintsAssumption`, `NoValueAssumption`: the remote device's capabilities and the hints are
  of the AIDL types, every SBC bit and bitpool, every AAC bit and every number among them):
  all six invariants, `ProposalAccepted`, `ChosenByBoth`, `BitpoolExact`, `RateUnderHint`,
  `FallsBack` and `AdvertisedIsAccepted`, for any list of remote capabilities and any hint.
  `CodecsInv` adds that the proposal is the factory's answer to the request it is kept
  with, and that what was started is what `startSession` made of it (`NegotiatedOK`,
  `StartedOK`); without this nothing ties the proposal to the device it was made for. What
  the factory answers was built by one of its codecs, from a remote entry of that codec
  (`GetConfigurationCases`). `SelectCommon`: a field is one bit that both sides have, the
  hinted one if it is such a bit; so none of the parser's checks fails for what SBC or AAC
  builds (`SbcSound`, `AacSound`). The search for a bitpool has eight steps, which are
  written out in the model, so no induction is needed: `SearchInv` says that the bitpool so far is below the
  rate and the next one a step away is not, and each step halves the interval. That the
  bit rate grows with the bitpool (`BitrateMonotone`) is needed for the clamping and for
  `RateUnderHint`, and that 23 bits of a rate are no more than the rate (`RemainderBound`)
  for AAC. `AdvertisedIsAccepted` goes by codec and needs only `StartedOK`.
* `AudioHalStreamsProofs` (`StreamsAssumption`, `QueueAssumption`, `MajorAssumption`,
  `CommandAssumption`, `CountAssumption`): `Lifetimes`, `HalStreamLive`, `DataMatchesReply`, `DeviceAccounts`,
  and the safety part of `AudioStreamContract` under the mapping of `HalLife` and
  `ClientRequest`. `AudioInv` adds when a legacy stream is open, by the state of the
  wrapper, the version and the stop flag (`Life`); that a command is in one place at a
  time, its queue, the thread or the status queue, and that a live client which is not
  waiting has none (`Turns`); whose bytes are in the data queue (`Carried`); and what the counter and each value on its
  way to it are worth (`Accounts`): while nothing has overlapped the counter is the
  cardinality of `Counted`, and while only closes have, both the counter and what each close
  is about to store are at least what `Counted` will then be. That no open is on
  its way beside another update is what makes the second part inductive; `LoadAccounts` and
  `StoreAccounts` are the two halves of an update.
* `AudioHalCallsProofs` (`HandlesAssumption`, `WordAssumption`, `LatencyAssumption`):
  `HonestResult`, `ClientPictureTrue` and `PropertiesKnown`. The
  result of a call is right whatever was before it; the patches and the parameters need
  both sides of the picture, and the properties what a call in progress has set so far.
  `SizeExact` is the arithmetic behind `prepareForWriting`: the
  division before the multiplication rules out a product that wraps around.
* `OtaSlotsProofs`: `SelectedIsWhole` and `RunningIsSpared`, for behaviours of any length.
  `OtaInv` adds what an update knows of its image at each step (`UpdateInv`), that it does
  not work on the selected slot (`UpdateSpares`), and that `delete-other-slot` keeps away
  from the running one and, unless the two overlap, from an update (`CleanerSpares`,
  `CleanerAlone`).

Model-checked only:

* Liveness (`DeathEndsSession`, `CallsReturn`, `WriteReturns`, `DestructorEnds` and the fair
  part of `MeetsContract`): the prover does not do fairness.

## 6. Plan

Every safety property of the runs is proved; what is left to the model checker is
liveness. The next part worth a module would be the matching of LE audio settings, once
a set of settings is kept in the repository.

## 7. Not modelled

* The LE audio settings (`BluetoothLeAudioAseConfigurationSettingProvider`,
  `BluetoothLeAudioCodecsProvider`) and the ASE and QoS matching of
  `LeAudioOffloadAudioProvider`: parsers of XML files, and a search through what they
  hold. The data is not in the source, and a model would check invented settings.
* The HIDL codec tables: the same form as the AIDL ones, without state.
* The fingerprint proxies: each call is forwarded to a vendor service, each callback
  back to the client.
* `DevicesFactory`'s loading of modules, microphone lists, metadata and the parsing of
  parameter strings: conversions of data no property here tells apart.
* Service start-up, command line tools, the in-call service, boot scripts, overlays,
  policies and prebuilt applications: one-shot input and output, stateless forwarding,
  data.
