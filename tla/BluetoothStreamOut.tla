------------------------- MODULE BluetoothStreamOut -------------------------
(***************************************************************************)
(* The output streams of the audio HAL (hw/stream_apis.cc and              *)
(* hw/audio_bluetooth_hw.cc) over their ports, the session, the providers  *)
(* and the Bluetooth stack: the whole control path.                        *)
(*                                                                         *)
(* Each stream p has one thread of the audio framework, also named p, that *)
(* opens it, writes, pauses, resumes, puts it in standby and closes it.    *)
(* One more thread, Ctl, delivers the device-wide parameter A2dpSuspended  *)
(* to every open stream.  The locks are the mutex_ of each stream, the     *)
(* mutex_ of the device, the session's mutex_ and the port's cv_mutex_     *)
(* (see BluetoothAudioSession and BluetoothAudioPort).  A thread takes a   *)
(* stream's lock in the step that first reads state_, and releases it in   *)
(* the last step of the call.                                              *)
(*                                                                         *)
(* The audio data and the frame counters are left to PcmDataPath.          *)
(***************************************************************************)
EXTENDS BluetoothAudioPort

CONSTANTS Ctl,          \* the thread of adev_set_parameters
          StreamCalls,  \* the calls the framework makes on its streams
          Unsolicited,  \* the results the stack may report without a request
          DeviceCalls   \* the values A2dpSuspended is set to: "suspend" for true

ASSUME StreamAssumption ==
  /\ Ctl \notin Ports \union {None}
  /\ StreamCalls \subseteq {"write", "standby", "pause", "resume", "closing"}
  /\ Unsolicited \subseteq Statuses
  /\ DeviceCalls \subseteq {"suspend", "unsuspend"}

VARIABLES
  obj,     \* the stream object: "closed" (none), "opening", "open", "closing"
  opened,  \* opened_stream_outs_ of the device
  dev,     \* holder of the device's mutex_
  lock,    \* holder of each stream's mutex_
  pc,      \* where each thread stands; "idle" between calls
  op,      \* the call each thread is making
  reg,     \* the cookie SetUp has been given and not yet stored
  walk,    \* the streams adev_set_parameters has still to visit
  at       \* the stream adev_set_parameters is visiting

streamOnly == << obj, opened, dev, lock, pc, op, reg, walk, at >>
vars == << providerVars, portVars, streamOnly >>

Threads == Ports \union {Ctl}

Init ==
  /\ ProviderInit
  /\ PortInit
  /\ obj = [p \in Ports |-> "closed"]
  /\ opened = {}
  /\ dev = None
  /\ lock = [p \in Ports |-> None]
  /\ pc = [t \in Threads |-> "idle"]
  /\ op = [t \in Threads |-> "none"]
  /\ reg = [p \in Ports |-> Undefined]
  /\ walk = {}
  /\ at = None

Target(t) == IF t = Ctl THEN at ELSE t
Goto(t, l) == pc' = [pc EXCEPT ![t] = l]
AtPort == << providerVars, portVars >>   \* everything below the streams

-----------------------------------------------------------------------------
\* The end of a call on a stream with result r: release the stream's lock and
\* go on with what called it.  op "wresume" is out_write's call of resume.
Return(t, r) ==
  /\ lock' = IF op[t] = "close" THEN lock ELSE [lock EXCEPT ![Target(t)] = None]
  /\ Goto(t, CASE op[t] = "wresume" -> IF r THEN "data" ELSE "idle"
               [] op[t] = "close"   -> "teardown"
               [] t = Ctl           -> "next"
               [] OTHER             -> "idle")
  /\ op' = [op EXCEPT ![t] = IF t = Ctl \/ @ = "close" THEN @ ELSE "none"]
  /\ UNCHANGED << obj, opened, dev, reg, walk, at >>

\* Stay inside the call, at label l.
Continue(t, l) ==
  /\ Goto(t, l)
  /\ UNCHANGED << obj, opened, dev, lock, op, reg, walk, at >>

\* The framework makes a call on an open stream.
CallStream(p, o) ==
  /\ pc[p] = "idle" /\ obj[p] = "open"
  /\ Goto(p, "enter")
  /\ op' = [op EXCEPT ![p] = o]
  /\ UNCHANGED << obj, opened, dev, lock, reg, walk, at, AtPort >>

\* The first test of each call, on taking the lock.
CanEnter(t) == pc[t] = "enter" /\ lock[Target(t)] = None
EnterLocked(t, l) ==
  /\ lock' = [lock EXCEPT ![Target(t)] = t]
  /\ Goto(t, l)
  /\ UNCHANGED << obj, opened, dev, op, reg, walk, at >>

\* out_standby, out_pause and A2dpSuspended=true look for STARTED.
EnterSuspend(t) ==
  /\ CanEnter(t)
  /\ op[t] \in {"standby", "pause", "suspend"}
  /\ op[t] = "suspend" => IsA2dp
  /\ EnterLocked(t, IF state[Target(t)] = "STARTED" THEN "susp.check" ELSE "read2")
  /\ UNCHANGED AtPort

\* out_resume looks for STANDBY.
EnterResume(t) ==
  /\ CanEnter(t)
  /\ op[t] \in {"resume", "wresume"}
  /\ EnterLocked(t, IF state[Target(t)] = "STANDBY" THEN "start.check" ELSE "read2")
  /\ UNCHANGED AtPort

\* closing=true and exiting=1 stop the stream, A2dpSuspended=false enables it.
EnterClosing(t) ==
  /\ CanEnter(t)
  /\ op[t] = "closing"
  /\ IF state[t] # "DISABLED" THEN EnterLocked(t, "stop.set") ELSE Return(t, TRUE)
  /\ UNCHANGED AtPort
EnterUnsuspend(t) ==
  /\ CanEnter(t)
  /\ op[t] = "unsuspend" /\ IsA2dp
  /\ IF state[at] = "DISABLED" THEN EnterLocked(t, "set.standby") ELSE Return(t, TRUE)
  /\ UNCHANGED AtPort

\* A2dpSuspended is nothing to the streams of other session types.
EnterIgnored(t) ==
  /\ CanEnter(t)
  /\ op[t] \in DeviceCalls /\ ~IsA2dp
  /\ Return(t, TRUE)
  /\ UNCHANGED AtPort

\* out_write lets go of the lock again before it writes, or resumes first.
EnterWrite(t) ==
  /\ CanEnter(t)
  /\ op[t] = "write"
  /\ LET started == state[t] = "STARTED" IN
     /\ Goto(t, IF started THEN "data" ELSE "enter")
     /\ op' = [op EXCEPT ![t] = IF started THEN "none" ELSE "wresume"]
  /\ UNCHANGED << obj, opened, dev, lock, reg, walk, at, AtPort >>

Enter(t) == \/ EnterSuspend(t) \/ EnterResume(t) \/ EnterClosing(t)
            \/ EnterUnsuspend(t) \/ EnterIgnored(t) \/ EnterWrite(t)

\* The tests that follow when the first one fails; the state may have changed
\* since, the callbacks do not take the stream's lock.
Read2(t) ==
  LET s == state[Target(t)] IN
  /\ pc[t] = "read2"
  /\ IF op[t] = "suspend" /\ s # "DISABLED"
     THEN Continue(t, "stop.set")
     ELSE Return(t, s \notin {"STARTING", "SUSPENDING", "DISABLED"})
  /\ UNCHANGED AtPort

\* Start: test, assign, call the stack, wait.
StartCheck(t) ==
  /\ pc[t] = "start.check"
  /\ IF state[Target(t)] = "STANDBY" THEN Continue(t, "start.set") ELSE Return(t, FALSE)
  /\ UNCHANGED AtPort
StartSet(t) ==
  /\ pc[t] = "start.set"
  /\ SetState(Target(t), "STARTING")
  /\ Continue(t, "start.call")
StartCall(t) ==
  /\ pc[t] = "start.call"
  /\ \E ret \in BOOLEAN :
       /\ PortStreamCall("start", ret)
       /\ IF ret THEN Continue(t, "start.wait") ELSE Return(t, FALSE)
StartWait(t) ==
  /\ pc[t] = "start.wait"
  /\ \E ret \in BOOLEAN : CondwaitState(Target(t), "STARTED", ret) /\ Return(t, ret)

\* Suspend: the same; A2dpSuspended=true then disables the stream.
SuspendEnd(t) ==
  IF op[t] = "suspend" THEN Continue(t, "set.disabled") ELSE Return(t, TRUE)
SuspendCheck(t) ==
  /\ pc[t] = "susp.check"
  /\ IF state[Target(t)] = "STARTED" THEN Continue(t, "susp.set") ELSE SuspendEnd(t)
  /\ UNCHANGED AtPort
SuspendSet(t) ==
  /\ pc[t] = "susp.set"
  /\ SetState(Target(t), "SUSPENDING")
  /\ Continue(t, "susp.call")
SuspendCall(t) ==
  /\ pc[t] = "susp.call"
  /\ \E ret \in BOOLEAN :
       /\ PortStreamCall("suspend", ret)
       /\ IF ret THEN Continue(t, "susp.wait") ELSE SuspendEnd(t)
SuspendWait(t) ==
  /\ pc[t] = "susp.wait"
  /\ \E ret \in BOOLEAN : CondwaitState(Target(t), "STANDBY", ret)
  /\ SuspendEnd(t)

\* Stop: assign, then tell the stack.
StopSet(t) ==
  /\ pc[t] = "stop.set"
  /\ SetState(Target(t), "DISABLED")
  /\ Continue(t, "stop.call")
StopCall(t) ==
  /\ pc[t] = "stop.call"
  /\ \E ret \in BOOLEAN : PortStreamCall("stop", ret)
  /\ Return(t, TRUE)

\* SetState by out_set_parameters.
SetDisabled(t) ==
  /\ pc[t] = "set.disabled"
  /\ SetState(Target(t), "DISABLED")
  /\ Return(t, TRUE)
SetStandby(t) ==
  /\ pc[t] = "set.standby"
  /\ SetState(Target(t), "STANDBY")
  /\ Return(t, TRUE)

\* out_write: WriteData without the lock, then the accounting under it.
WriteData(p) ==
  /\ pc[p] = "data"
  /\ Continue(p, "account")
  /\ UNCHANGED AtPort
Account(p) ==
  /\ pc[p] = "account"
  /\ lock[p] = None
  /\ Continue(p, "idle")
  /\ UNCHANGED AtPort

-----------------------------------------------------------------------------
\* adev_set_parameters: hold the device's lock and visit every open stream.
CallDevice(o) ==
  /\ pc[Ctl] = "idle"
  /\ Goto(Ctl, "dev")
  /\ op' = [op EXCEPT ![Ctl] = o]
  /\ UNCHANGED << obj, opened, dev, lock, reg, walk, at, AtPort >>
DeviceLock ==
  /\ pc[Ctl] = "dev"
  /\ dev = None
  /\ dev' = Ctl
  /\ walk' = opened
  /\ Goto(Ctl, "next")
  /\ UNCHANGED << obj, opened, lock, op, reg, at, AtPort >>
DeviceNext ==
  /\ pc[Ctl] = "next"
  /\ IF walk = {}
     THEN /\ dev' = None /\ at' = None
          /\ Goto(Ctl, "idle")
          /\ op' = [op EXCEPT ![Ctl] = "none"]
          /\ UNCHANGED walk
     ELSE /\ \E p \in walk : at' = p /\ walk' = walk \ {p}
          /\ Goto(Ctl, "enter")
          /\ UNCHANGED << dev, op >>
  /\ UNCHANGED << obj, opened, lock, reg, AtPort >>

-----------------------------------------------------------------------------
\* adev_open_output_stream: a new stream with a new port.
CallOpen(p) ==
  /\ pc[p] = "idle" /\ obj[p] = "closed"
  /\ obj' = [obj EXCEPT ![p] = "opening"]
  /\ Goto(p, "setup")
  /\ UNCHANGED << opened, dev, lock, op, reg, walk, at, AtPort >>
OpenSetUp(p) ==
  /\ pc[p] = "setup"
  /\ \E ret \in BOOLEAN :
       /\ SetUpBegin(p, ret)
       /\ Goto(p, IF ret THEN "register" ELSE "idle")
       /\ obj' = IF ret THEN obj ELSE [obj EXCEPT ![p] = "closed"]
  /\ UNCHANGED << opened, dev, lock, op, reg, walk, at >>
OpenRegister(p) ==
  /\ pc[p] = "register"
  /\ \E c \in Cookies \union {Undefined} :
       SetUpRegister(p, c) /\ reg' = [reg EXCEPT ![p] = c]
  /\ Goto(p, "cookie")
  /\ UNCHANGED << obj, opened, dev, lock, op, walk, at >>
OpenCookie(p) ==
  /\ pc[p] = "cookie"
  /\ SetUpCookie(p, reg[p])
  /\ reg' = [reg EXCEPT ![p] = Undefined]
  /\ Goto(p, IF reg[p] = Undefined THEN "idle" ELSE "push")
  /\ obj' = IF reg[p] = Undefined THEN [obj EXCEPT ![p] = "closed"] ELSE obj
  /\ UNCHANGED << opened, dev, lock, op, walk, at >>
OpenPush(p) ==
  /\ pc[p] = "push"
  /\ dev = None
  /\ opened' = opened \union {p}
  /\ obj' = [obj EXCEPT ![p] = "open"]
  /\ Goto(p, "idle")
  /\ UNCHANGED << dev, lock, op, reg, walk, at, AtPort >>

\* adev_close_output_stream: it does not take the stream's lock.
CallClose(p) ==
  /\ pc[p] = "idle" /\ obj[p] = "open"
  /\ obj' = [obj EXCEPT ![p] = "closing"]
  /\ op' = [op EXCEPT ![p] = "close"]
  /\ Goto(p, "remove")
  /\ UNCHANGED << opened, dev, lock, reg, walk, at, AtPort >>

CloseRemove(p) ==
  /\ pc[p] = "remove"
  /\ dev = None
  /\ opened' = opened \ {p}
  /\ Goto(p, "close.read")
  /\ UNCHANGED << obj, dev, lock, op, reg, walk, at, AtPort >>
CloseRead(p) ==
  /\ pc[p] = "close.read"
  /\ Continue(p, IF state[p] # "DISABLED" THEN "stop.set" ELSE "teardown")
  /\ UNCHANGED AtPort
CloseUnregister(p) ==
  /\ pc[p] = "teardown"
  /\ TearDownUnregister(p)
  /\ Continue(p, "delete")
CloseDelete(p) ==
  /\ pc[p] = "delete"
  /\ TearDownCookie(p)
  /\ obj' = [obj EXCEPT ![p] = "closed"]
  /\ op' = [op EXCEPT ![p] = "none"]
  /\ Goto(p, "idle")
  /\ UNCHANGED << opened, dev, lock, reg, walk, at >>

-----------------------------------------------------------------------------
\* The Bluetooth stack (external): it answers the requests it has received in
\* order, late or not at all, and may suspend a stream on its own, to
\* reconfigure it.
StackAnswers(i) ==
  /\ requests # << >>
  /\ Head(requests).stack = i
  /\ requests' = Tail(requests)
  /\ \E status \in Statuses :
       \/ Head(requests).kind = "start" /\ streamStarted(i, status)
       \/ Head(requests).kind = "suspend" /\ streamSuspended(i, status)
  /\ UNCHANGED << portVars, streamOnly >>
StackForgets ==
  /\ requests # << >>
  /\ requests' = Tail(requests)
  /\ UNCHANGED << sessionCore, observers, bcast, providerOnly, portVars, streamOnly >>
StackSuspends(i) ==
  /\ \E status \in Unsolicited : streamSuspended(i, status)
  /\ UNCHANGED << requests, portVars, streamOnly >>
StackControls(i) ==
  /\ \/ startSession(i, "pcmConfig", {})
     \/ endSession(i)
     \/ StackBoots(i)
     \/ StackDies(i)
  /\ UNCHANGED << portVars, streamOnly >>

-----------------------------------------------------------------------------
\* What the environment decides: the calls of the framework and of the stack.
EnvStep ==
  \/ \E p \in Ports : CallOpen(p) \/ CallClose(p) \/ \E o \in StreamCalls : CallStream(p, o)
  \/ \E o \in DeviceCalls : CallDevice(o)
  \/ \E i \in Stacks : StackAnswers(i) \/ StackSuspends(i) \/ StackControls(i)
  \/ StackForgets

\* What the HAL's threads do by themselves.
ThreadStep(t) ==
  \/ Enter(t) \/ Read2(t)
  \/ StartCheck(t) \/ StartSet(t) \/ StartCall(t) \/ StartWait(t)
  \/ SuspendCheck(t) \/ SuspendSet(t) \/ SuspendCall(t) \/ SuspendWait(t)
  \/ StopSet(t) \/ StopCall(t) \/ SetDisabled(t) \/ SetStandby(t)
OwnStep(p) ==
  \/ WriteData(p) \/ Account(p)
  \/ OpenSetUp(p) \/ OpenRegister(p) \/ OpenCookie(p) \/ OpenPush(p)
  \/ CloseRemove(p) \/ CloseRead(p) \/ CloseUnregister(p) \/ CloseDelete(p)
DeviceStep == DeviceLock \/ DeviceNext
CallbackStep ==
  /\ \/ \E c \in Cookies : CallbackBegin(c)
     \/ ControlResultHandler
     \/ SessionChangedHandler
  /\ UNCHANGED streamOnly
BinderStep(i) ==
  /\ linkToDeath(i) \/ onSessionReadySoftware(i) \/ endSessionClear(i) \/ binderDied(i)
  /\ UNCHANGED << portVars, streamOnly >>

SystemStep ==
  \/ \E t \in Threads : ThreadStep(t)
  \/ \E p \in Ports : OwnStep(p)
  \/ DeviceStep
  \/ CallbackStep
  \/ \E i \in Stacks : BinderStep(i)

Next == EnvStep \/ SystemStep
Spec == Init /\ [][Next]_vars

\* Every thread of the HAL runs, and none waits for ever for a mutex that keeps
\* being released.  Nothing is assumed of the framework and the stack: calls
\* need not be made, requests need not be answered.
Fairness ==
  /\ \A t \in Threads : SF_vars(ThreadStep(t))
  /\ \A p \in Ports : SF_vars(OwnStep(p))
  /\ SF_vars(DeviceStep)
  /\ WF_vars(CallbackStep)
  /\ \A i \in Stacks : SF_vars(BinderStep(i))
FairSpec == Spec /\ Fairness

-----------------------------------------------------------------------------
\* Type invariant of the streams and ports, beside the providers'.
Labels == { "idle", "enter", "read2", "start.check", "start.set", "start.call",
            "start.wait", "susp.check", "susp.set", "susp.call", "susp.wait",
            "stop.set", "stop.call", "set.disabled", "set.standby", "data",
            "account", "dev", "next", "setup", "register", "cookie", "push",
            "remove", "close.read", "teardown", "delete" }
TypeOK ==
  /\ ProviderTypeOK
  /\ state \in [Ports -> StreamStates]
  /\ cookie \in [Ports -> Cookies \union {Undefined}]
  /\ hdl \in [port : Ports \union {None}, cookie : Cookies \union {Undefined},
              prev : StreamStates]
  /\ obj \in [Ports -> {"closed", "opening", "open", "closing"}]
  /\ opened \in SUBSET Ports
  /\ dev \in {None, Ctl}
  /\ lock \in [Ports -> Threads \union {None}]
  /\ pc \in [Threads -> Labels]
  /\ op \in [Threads -> StreamCalls \union DeviceCalls \union {"none", "wresume", "close"}]
  /\ reg \in [Ports -> Cookies \union {Undefined}]
  /\ walk \in SUBSET Ports
  /\ at \in Ports \union {None}

\* The thread is executing code of the stream it has as its target.
Inside(t) == pc[t] \notin {"idle", "dev", "next"}

\* No stream is used after adev_close_output_stream has deleted it (or a failed
\* open has dropped it): no walk of the session over observers_ can reach its
\* port's callbacks, which hold a bare pointer to it, none of them is running,
\* and adev_set_parameters neither is in it nor will visit it.
NoUseAfterFree ==
  \A p \in Ports : obj[p] = "closed" =>
    /\ \A c \in Cookies : observers[c] # p
    /\ hdl.port # p
    /\ p \notin opened \union walk
    /\ Inside(Ctl) => at # p

\* An open stream hears its session: the callbacks registered for it carry the
\* very cookie its port compares them with, and they are registered once.
OpenStreamHears ==
  \A p \in Ports : obj[p] = "open" =>
    \A c \in Cookies : observers[c] = p <=> cookie[p] = c

\* Start, Suspend, Stop and SetState of one port never overlap, although
\* adev_close_output_stream does without the stream's lock.
Controls(t) == Inside(t) /\ pc[t] \notin {"enter", "data", "account", "remove"}
CallsExclusive ==
  \A t, u \in Threads :
    Controls(t) /\ Controls(u) /\ Target(t) = Target(u) => t = u

\* An open stream in STARTED has a session to write to, once the session's callbacks
\* have been delivered: neither the end of the session, nor its restart, nor
\* the death of the stack, nor a result that arrives after the wait for it was
\* given up leaves it STARTED without one.
StartedHasSession ==
  Unlocked => \A p \in Ports : obj[p] = "open" /\ state[p] = "STARTED" => IsSessionReady

\* Every call on a stream or on the device returns, whatever the stack does,
\* while the locks of the device, the stream, the session and the port are
\* contended: Start and Suspend are given up when no result comes.
CallsReturn == \A t \in Threads : pc[t] # "idle" ~> pc[t] = "idle"

=============================================================================
