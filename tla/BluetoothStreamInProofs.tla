------------------------ MODULE BluetoothStreamInProofs ------------------------
(***************************************************************************)
(* What the input stream and the HIDL session below it keep, for any       *)
(* number of cookies, any queue, any timeouts and any frame size.          *)
(***************************************************************************)
EXTENDS BluetoothStreamIn, TLAPS

\* Where the two threads can be, and where they hold in->mutex_.
ReaderLocked == { "read.poll", "read.fail", "read.check", "read.standby", "read.suspending",
                  "read.disabled", "read.unlock", "start.check", "start.set", "start.call",
                  "start.wait" }
ReaderLabels == ReaderLocked \union {"idle", "read.sleep", "read.data", "read.account"}
ControlLocked == { "standby.poll", "standby.check", "standby.check2", "standby.poll2",
                   "standby.wait", "standby.giveup", "standby.end", "susp.check", "susp.set",
                   "susp.call", "susp.wait", "position" }
ControlLabels == ControlLocked \union {"idle", "standby.sleep", "standby.sleep2"}
OpeningLabels == { "open.register", "open.cookie", "open.config", "open.done", "teardown",
                   "teardown.cookie" }
ClosingLabels == { "stop.set", "stop.call", "teardown", "teardown.cookie" }

\* The control thread is where the life of the stream says, the reader is in
\* in_read only while the stream is open, and a stream that is being opened has
\* not been started.
Life ==
  /\ pc[Reader] \in ReaderLabels
  /\ obj # "open" => pc[Reader] = "idle"
  /\ obj = "none" => pc[Control] = "idle"
  /\ obj = "opening" => pc[Control] \in OpeningLabels
  /\ obj = "open" => pc[Control] \in ControlLabels
  /\ obj = "closing" => pc[Control] \in ClosingLabels
  /\ obj = "opening" => state \in {"STANDBY", "DISABLED"} /\ hdl.prev \in {"STANDBY", "DISABLED"}

\* in_state_transition_timeout has a sleep left wherever it looks or sleeps.
Polling == { "read.poll", "read.sleep", "standby.poll", "standby.sleep", "standby.wait",
             "standby.sleep2" }
SleepLeft ==
  /\ \A t \in Threads : pc[t] \in Polling => polls[t] > 0
  /\ pc[Control] = "open.cookie" => polls[Control] \in Cookies \union {Undefined}

\* The mutex of the stream is with the thread that is inside.
LocksHeld ==
  /\ pc[Reader] \in ReaderLocked => lock = Reader
  /\ pc[Control] \in ControlLocked => lock = Control

\* The session knows the port from SetUp's call to TearDown's, under the cookie
\* the port has or is about to have.
Enrolled == obj # "none" /\ pc[Control] \notin {"open.register", "teardown.cookie"}
MyCookie == IF pc[Control] = "open.cookie" THEN polls[Control] ELSE cookie
Registration ==
  /\ \A c \in Cookies : observers[c] = "port" <=> Enrolled /\ MyCookie = c
  /\ Enrolled /\ pc[Control] # "open.cookie" => in_use
  /\ \A c \in walk.todo : observers[c] # "none"

\* A callback in progress belongs to the walk that holds the session's mutex.
HandlerInWalk ==
  \/ hdl = NoHandler
  \/ hdl.cookie \in walk.todo /\ observers[hdl.cookie] = "port" /\ cookie = hdl.cookie

\* A session with an interface is ready, unless a failed start has taken its
\* queue; and only such a session reports on streams.
SessionKept ==
  /\ iface /\ ~IsSessionReady => silenced
  /\ walk.todo # {} /\ walk.kind # "session" => iface

\* While the stream is open only a callback that has read STARTING can make it
\* STARTED, and nobody writes over a STARTING which a callback has read.  From
\* the end of in_standby's first wait on there is no such callback, and from its
\* suspension on the stream is not STARTED either, until a read starts it again.
NotStarting == state # "STARTING" /\ hdl.prev # "STARTING"
Quiet == NotStarting /\ state # "STARTED"
Heeded ==
  /\ obj = "open" /\ hdl.prev = "STARTING" => state = "STARTING"
  /\ pc[Control] \in {"standby.check", "susp.check", "susp.set"} => NotStarting
  /\ pc[Control] \in {"standby.check2", "susp.call", "susp.wait", "standby.poll2"} => Quiet
  /\ standby = "asked" /\ pc[Control] \in {"standby.wait", "standby.sleep2", "standby.end"} => Quiet

\* The inductive invariant.
InputInv ==
  /\ StreamInTypeOK /\ Life /\ SleepLeft /\ LocksHeld /\ Registration /\ HandlerInWalk
  /\ SessionKept /\ ReadyHasConfig /\ InputKnowsSession /\ Heeded

-----------------------------------------------------------------------------
\* What a step of the session's own variables may do: a request, or bytes taken.
SessionRest == << type, iface, cfg, cfg21, observers, walk, given, silenced >>
LightSession ==
  /\ UNCHANGED SessionRest
  /\ requests' \subseteq {"start", "suspend"}
  /\ mq' = mq \/ (mq > 0 /\ mq' \in 0..mq)

\* A step of the reader inside in_read, or into it.
ReaderGoes(l, n) ==
  /\ pc' = [pc EXCEPT ![Reader] = l]
  /\ polls' = [polls EXCEPT ![Reader] = n]
  /\ l \in Polling => n > 0
  /\ \/ lock' = lock /\ (l \in ReaderLocked => lock = Reader)
     \/ lock = "none" /\ lock' = Reader
     \/ lock = Reader /\ lock' = "none" /\ l \notin ReaderLocked
ReaderEffect ==
  /\ obj = "open"
  /\ LightSession
  /\ UNCHANGED << obj, cookie, hdl >>
  /\ \E l \in ReaderLabels, n \in Nat : ReaderGoes(l, n)
  /\ presented' \in Nat /\ total' \in 0..ReadBytes
  /\ \/ UNCHANGED << state, standby >>
     \/ pc[Reader] = "start.set" /\ state' = "STARTING" /\ standby' = "none"

\* A step of the control thread in in_standby or in_get_capture_position, or into it.
ControlGoes(l, n) ==
  /\ pc' = [pc EXCEPT ![Control] = l]
  /\ polls' = [polls EXCEPT ![Control] = n]
  /\ l \in Polling => n > 0
  /\ \/ lock' = lock /\ (l \in ControlLocked => lock = Control)
     \/ lock = "none" /\ lock' = Control
     \/ lock = Control /\ lock' = "none" /\ l \notin ControlLocked
ControlEffect ==
  /\ obj = "open"
  /\ LightSession
  /\ UNCHANGED << obj, cookie, hdl, presented, total >>
  /\ \E l \in ControlLabels, n \in Nat : ControlGoes(l, n)
  /\ standby' \in {"none", "asked"}
  /\ state' = state \/ (pc[Control] = "susp.set" /\ state' = "SUSPENDING")

LEMMA StreamCallLight ==
  ASSUME StreamInTypeOK, NEW kind \in {"start", "suspend", "stop"}, NEW ret \in BOOLEAN,
         StreamCall(kind, ret)
  PROVE  LightSession
BY DEF StreamInTypeOK, HidlTypeOK, StreamCall, LightSession, SessionRest

LEMMA Quiescent ==
  ASSUME StreamInTypeOK, UNCHANGED sessionVars
  PROVE  LightSession
BY DEF StreamInTypeOK, HidlTypeOK, LightSession, SessionRest, sessionVars

LEMMA ReadRoundLight ==
  ASSUME StreamInTypeOK, NEW n \in 1..ReadBytes, ReadRound(ReadBytes - total, n)
  PROVE  LightSession /\ total + n \in 0..ReadBytes
<1> USE StreamInAssumption, HidlAssumption
<1>1. mq \in Int /\ total \in Int /\ ReadBytes \in Nat /\ total >= 0 /\ n >= 1
  BY DEF StreamInTypeOK, HidlTypeOK, NoQueue
<1>2. n <= mq /\ n <= ReadBytes - total /\ mq' = mq - n /\ mq > 0
  BY <1>1 DEF ReadRound
<1>3. mq' \in 0..mq /\ total + n \in 0..ReadBytes
  BY <1>1, <1>2
<1>4. UNCHANGED SessionRest /\ requests' \subseteq {"start", "suspend"}
  BY DEF ReadRound, SessionRest, StreamInTypeOK, HidlTypeOK
<1> QED  BY <1>2, <1>3, <1>4 DEF LightSession

LEMMA ReaderSteps ==
  ASSUME InputInv, in_read \/ CallRead
  PROVE  ReaderEffect
<1> USE StreamInAssumption
<1>a. StreamInTypeOK /\ Life /\ SleepLeft /\ LocksHeld  BY DEF InputInv
<1>b. /\ pc \in [Threads -> Labels] /\ polls \in [Threads -> Nat] /\ total \in 0..ReadBytes
      /\ presented \in Nat /\ Reader \in Threads /\ polls[Reader] \in Nat /\ polls = [polls EXCEPT ![Reader] = polls[Reader]]
  BY <1>a DEF StreamInTypeOK, Threads
<1>c. pc[Reader] # "idle" => obj = "open"
  BY <1>a DEF Life
<1>d. pc[Reader] \in ReaderLocked => lock = Reader
  BY <1>a DEF LocksHeld
<1> USE DEF portVars, streamVars, Goto
<1>e. ASSUME NEW l \in ReaderLabels, NEW n \in Nat, ReaderGoes(l, n),
             obj = "open", LightSession, UNCHANGED << obj, cookie, hdl >>,
             presented' \in Nat, total' \in 0..ReadBytes, UNCHANGED << state, standby >>
      PROVE  ReaderEffect
  BY <1>e DEF ReaderEffect
<1>1. CASE CallRead
  <2>1. ReaderGoes("read.poll", StatePolls)
    BY <1>1, <1>a, <1>b, <1>c, <1>d DEF CallRead, Locked, ReaderGoes, ReaderLabels, ReaderLocked, Polling, SleepLeft, Threads
  <2>2. LightSession /\ obj = "open" /\ UNCHANGED << obj, cookie, hdl >>
    BY <1>1, <1>a, <1>c, Quiescent DEF CallRead, Locked, ReaderLabels, ReaderLocked
  <2>3. presented' \in Nat /\ total' \in 0..ReadBytes /\ UNCHANGED << state, standby >>
    BY <1>1, <1>b, <1>a DEF CallRead, Locked
  <2>4. ("read.poll") \in ReaderLabels /\ (StatePolls) \in Nat
    BY <1>1, <1>b DEF CallRead, Locked, ReaderLabels, ReaderLocked
  <2> QED  BY <1>e, <2>1, <2>2, <2>3, <2>4
<1>2. CASE ReadPoll
  BY <1>2, <1>a, <1>b, <1>c, <1>d, Quiescent
     DEF ReadPoll, ReaderEffect, ReaderGoes, TransitionPoll, ReaderLabels, ReaderLocked, Polling, SleepLeft
<1>3. CASE ReadSleep
  <2>1. ReaderGoes(IF polls[Reader] - 1 <= 0 THEN "read.fail" ELSE "read.poll", polls[Reader] - 1)
    BY <1>3, <1>a, <1>b, <1>c, <1>d DEF ReadSleep, TransitionSleep, Locked, ReaderGoes, ReaderLabels, ReaderLocked, Polling, SleepLeft, Threads
  <2>2. LightSession /\ obj = "open" /\ UNCHANGED << obj, cookie, hdl >>
    BY <1>3, <1>a, <1>c, Quiescent DEF ReadSleep, TransitionSleep, Locked, ReaderLabels, ReaderLocked
  <2>3. presented' \in Nat /\ total' \in 0..ReadBytes /\ UNCHANGED << state, standby >>
    BY <1>3, <1>b, <1>a DEF ReadSleep, TransitionSleep, Locked
  <2>4. (IF polls[Reader] - 1 <= 0 THEN "read.fail" ELSE "read.poll") \in ReaderLabels /\ (polls[Reader] - 1) \in Nat
    BY <1>3, <1>a, <1>b DEF ReadSleep, TransitionSleep, SleepLeft, Polling, ReaderLabels, ReaderLocked
  <2> QED  BY <1>e, <2>1, <2>2, <2>3, <2>4
<1>4. CASE ReadFail
  <2>1. ReaderGoes("idle", 0)
    BY <1>4, <1>a, <1>b, <1>c, <1>d DEF ReadFail, Return, ReaderGoes, ReaderLabels, ReaderLocked, Polling, SleepLeft, Threads
  <2>2. LightSession /\ obj = "open" /\ UNCHANGED << obj, cookie, hdl >>
    BY <1>4, <1>a, <1>c, Quiescent DEF ReadFail, Return, ReaderLabels, ReaderLocked
  <2>3. presented' \in Nat /\ total' \in 0..ReadBytes /\ UNCHANGED << state, standby >>
    BY <1>4, <1>b, <1>a DEF ReadFail, Return
  <2>4. ("idle") \in ReaderLabels /\ (0) \in Nat
    BY <1>4, <1>b DEF ReadFail, Return, ReaderLabels, ReaderLocked
  <2> QED  BY <1>e, <2>1, <2>2, <2>3, <2>4
<1>5. CASE ReadCheck
  BY <1>5, <1>a, <1>b, <1>c, <1>d, Quiescent
     DEF ReadCheck, ReaderEffect, ReaderGoes, Continue, ReaderLabels, ReaderLocked, Polling
<1>6. CASE ReadUnlock
  <2>1. ReaderGoes("read.data", FmqPolls)
    BY <1>6, <1>a, <1>b, <1>c, <1>d DEF ReadUnlock, ReaderGoes, ReaderLabels, ReaderLocked, Polling, SleepLeft, Threads
  <2>2. LightSession /\ obj = "open" /\ UNCHANGED << obj, cookie, hdl >>
    BY <1>6, <1>a, <1>c, Quiescent DEF ReadUnlock, ReaderLabels, ReaderLocked
  <2>3. presented' \in Nat /\ total' \in 0..ReadBytes /\ UNCHANGED << state, standby >>
    BY <1>6, <1>b, <1>a DEF ReadUnlock
  <2>4. ("read.data") \in ReaderLabels /\ (FmqPolls) \in Nat
    BY <1>6, <1>b DEF ReadUnlock, ReaderLabels, ReaderLocked
  <2> QED  BY <1>e, <2>1, <2>2, <2>3, <2>4
<1>7. CASE ReadSome
  <2> PICK n \in 1..ReadBytes :
         /\ ReadRound(ReadBytes - total, n)
         /\ total' = total + n
         /\ Goto(Reader, IF total + n < ReadBytes THEN "read.data" ELSE "read.account")
    BY <1>7 DEF ReadSome
  <2>1. ReaderGoes(IF total + n < ReadBytes THEN "read.data" ELSE "read.account", polls[Reader])
    BY <1>7, <1>b DEF ReadSome, ReaderGoes, ReaderLocked, Polling
  <2>2. LightSession /\ total' \in 0..ReadBytes
    BY <1>a, ReadRoundLight
  <2>3. obj = "open" /\ UNCHANGED << obj, cookie, hdl, presented, state, standby >>
    BY <1>7, <1>c DEF ReadSome
  <2>4. (IF total + n < ReadBytes THEN "read.data" ELSE "read.account") \in ReaderLabels
    BY DEF ReaderLabels
  <2> QED  BY <1>b, <1>e, <2>1, <2>2, <2>3, <2>4
<1>8. CASE ReadNothing
  BY <1>8, <1>a, <1>b, <1>c, <1>d, Quiescent
     DEF ReadNothing, ReaderEffect, ReaderGoes, ReaderLabels, ReaderLocked, Polling
<1>9. CASE ReadAccount
  <2>1. ReaderGoes("idle", 0)
    BY <1>9, <1>b DEF ReadAccount, ReaderGoes, ReaderLocked, Polling
  <2>2. total \div FrameSize \in Nat
    <3>1. total \in Nat /\ FrameSize \in Nat \ {0}  BY <1>b
    <3> HIDE StreamInAssumption
    <3> QED  BY <3>1
  <2>3. presented' \in Nat /\ total' \in 0..ReadBytes
    BY <1>9, <1>b, <2>2 DEF ReadAccount
  <2>4. LightSession /\ obj = "open" /\ UNCHANGED << obj, cookie, hdl, state, standby >>
    BY <1>9, <1>a, <1>c, Quiescent DEF ReadAccount
  <2> QED  BY <1>e, <2>1, <2>3, <2>4 DEF ReaderLabels
<1>10. CASE StartCheck(Reader)
  BY <1>10, <1>a, <1>b, <1>c, <1>d, Quiescent
     DEF StartCheck, ReaderEffect, ReaderGoes, Continue, Return, ReaderLabels, ReaderLocked, Polling
<1>11. CASE StartSet(Reader)
  BY <1>11, <1>a, <1>b, <1>c, <1>d, Quiescent
     DEF StartSet, ReaderEffect, ReaderGoes, ReaderLabels, ReaderLocked, Polling
<1>12. CASE StartCall(Reader)
  BY <1>12, <1>a, <1>b, <1>c, <1>d, StreamCallLight
     DEF StartCall, ReaderEffect, ReaderGoes, Continue, Return, ReaderLabels, ReaderLocked, Polling
<1>13. CASE StartWait(Reader)
  BY <1>13, <1>a, <1>b, <1>c, <1>d, Quiescent
     DEF StartWait, ReaderEffect, ReaderGoes, Continue, Return, ReaderLabels, ReaderLocked, Polling
<1> QED
  BY <1>1, <1>2, <1>3, <1>4, <1>5, <1>6, <1>7, <1>8, <1>9, <1>10, <1>11, <1>12, <1>13
     DEF in_read

LEMMA ControlSteps ==
  ASSUME InputInv, in_standby \/ in_get_capture_position \/ CallStandby \/ CallPosition
  PROVE  ControlEffect
<1> USE StreamInAssumption
<1>a. StreamInTypeOK /\ Life /\ SleepLeft /\ LocksHeld  BY DEF InputInv
<1>b. /\ pc \in [Threads -> Labels] /\ polls \in [Threads -> Nat] /\ standby \in {"none", "asked"}
      /\ Control \in Threads /\ polls[Control] \in Nat /\ polls = [polls EXCEPT ![Control] = polls[Control]]
  BY <1>a DEF StreamInTypeOK, Threads
<1>c. pc[Control] \in ControlLabels \ {"idle"} => obj = "open"
  BY <1>a DEF StreamInTypeOK, Life, ControlLabels, ControlLocked, OpeningLabels, ClosingLabels
<1>d. pc[Control] \in ControlLocked => lock = Control
  BY <1>a DEF LocksHeld
<1> USE DEF portVars, streamVars, Goto
<1>e. ASSUME NEW l \in ControlLabels, NEW n \in Nat, ControlGoes(l, n),
             obj = "open", LightSession, UNCHANGED << obj, cookie, hdl, presented, total, state >>,
             standby' \in {"none", "asked"}
      PROVE  ControlEffect
  BY <1>e DEF ControlEffect
<1>1. CASE CallStandby \/ CallPosition
  BY <1>1, <1>a, <1>b, Quiescent
     DEF CallStandby, ControlEffect, ControlGoes, CallPosition, Locked, ControlLabels, ControlLocked, Polling
<1>2. CASE StandbyPoll \/ StandbyWait
  BY <1>2, <1>a, <1>b, <1>c, <1>d, Quiescent
     DEF StandbyPoll, ControlEffect, ControlGoes, StandbyWait, TransitionPoll, ControlLabels, ControlLocked, Polling, SleepLeft
<1>3. CASE StandbySleep \/ StandbySleep2
  BY <1>3, <1>a, <1>b, <1>c, <1>d, Quiescent
     DEF StandbySleep, ControlEffect, ControlGoes, StandbySleep2, TransitionSleep, Locked, ControlLabels, ControlLocked,
         Polling, SleepLeft
<1>4. CASE StandbyCheck
  BY <1>4, <1>a, <1>b, <1>c, <1>d, Quiescent
     DEF StandbyCheck, ControlEffect, ControlGoes, Continue, ControlLabels, ControlLocked, Polling
<1>5. CASE StandbyPoll2
  <2>1. ControlGoes("standby.wait", StatePolls)
    BY <1>5, <1>a, <1>b, <1>c, <1>d DEF StandbyPoll2, ControlGoes, ControlLabels, ControlLocked, Polling, SleepLeft, Threads
  <2>2. LightSession /\ obj = "open" /\ UNCHANGED << obj, cookie, hdl >>
    BY <1>5, <1>a, <1>c, Quiescent DEF StandbyPoll2, ControlLabels, ControlLocked
  <2>3. UNCHANGED << presented, total, state >> /\ standby' \in {"none", "asked"}
    BY <1>5, <1>b, <1>a DEF StandbyPoll2
  <2>4. ("standby.wait") \in ControlLabels /\ (StatePolls) \in Nat
    BY <1>5, <1>b DEF StandbyPoll2, ControlLabels, ControlLocked
  <2> QED  BY <1>e, <2>1, <2>2, <2>3, <2>4
<1>6. CASE StandbyGivesUp \/ StandbyEnd
  BY <1>6, <1>a, <1>b, <1>c, <1>d, Quiescent
     DEF StandbyGivesUp, ControlEffect, ControlGoes, StandbyEnd, ControlLabels, ControlLocked, Polling
<1>7. CASE SuspendCheck(Control) \/ SuspendSet(Control)
  BY <1>7, <1>a, <1>b, <1>c, <1>d, Quiescent
     DEF SuspendCheck, ControlEffect, ControlGoes, SuspendSet, Continue, ControlLabels, ControlLocked, Polling
<1>8. CASE SuspendCall(Control)
  BY <1>8, <1>a, <1>b, <1>c, <1>d, StreamCallLight
     DEF SuspendCall, ControlEffect, ControlGoes, Continue, ControlLabels, ControlLocked, Polling
<1>9. CASE SuspendWait(Control)
  BY <1>9, <1>a, <1>b, <1>c, <1>d, Quiescent
     DEF SuspendWait, ControlEffect, ControlGoes, Continue, ControlLabels, ControlLocked, Polling
<1>10. CASE in_get_capture_position
  <2>1. ControlGoes("idle", 0)
    BY <1>10, <1>a, <1>b, <1>c, <1>d DEF in_get_capture_position, Return, ControlGoes, ControlLabels, ControlLocked, Polling, SleepLeft, Threads
  <2>2. LightSession /\ obj = "open" /\ UNCHANGED << obj, cookie, hdl >>
    BY <1>10, <1>a, <1>c, Quiescent DEF in_get_capture_position, Return, ControlLabels, ControlLocked
  <2>3. UNCHANGED << presented, total, state >> /\ standby' \in {"none", "asked"}
    BY <1>10, <1>b, <1>a DEF in_get_capture_position, Return
  <2>4. ("idle") \in ControlLabels /\ (0) \in Nat
    BY <1>10, <1>b DEF in_get_capture_position, Return, ControlLabels, ControlLocked
  <2> QED  BY <1>e, <2>1, <2>2, <2>3, <2>4
<1> QED
  BY <1>1, <1>2, <1>3, <1>4, <1>5, <1>6, <1>7, <1>8, <1>9, <1>10 DEF in_standby

-----------------------------------------------------------------------------
\* The steps that open and close the stream, and those of the session itself.
LifeStep == CallOpen \/ CallClose \/ OpenClose

LEMMA NextSteps ==
  ASSUME InputInv, Next
  PROVE  ReaderEffect \/ ControlEffect \/ LifeStep \/ SessionStep \/ Callbacks
BY ReaderSteps, ControlSteps DEF Next, Calls, ThreadStep, LifeStep, Threads

\* The session's variables keep their types, whatever the stack does.
LEMMA ConfigsTyped ==
  /\ {Pcm, Codec, InvalidSoftware, InvalidOffload} \subseteq Configs
  /\ \A c \in Configs : To20(c) \in Configs
  /\ \A t : Invalid(t) \in Configs
<1>1. {Pcm, Codec, InvalidSoftware, InvalidOffload} \subseteq Configs
  BY HidlAssumption DEF Pcm, Codec, InvalidSoftware, InvalidOffload, Configs
<1>2. \A c \in Configs : To20(c) \in Configs
  BY HidlAssumption DEF To20, Configs
<1> QED  BY <1>1, <1>2 DEF Invalid

\* The four ways a call of OnSessionStarted can end.
StartRefused == UNCHANGED << iface, mq, cfg, cfg21, walk, given, silenced >>
StartFails ==
  /\ type \notin {"A2DP_OFFLOAD", "LE_OFFLOAD"}
  /\ mq' = NoQueue
  /\ cfg' \in Configs /\ cfg21' \in Configs
  /\ silenced' = (silenced \/ IsSessionReady)
  /\ UNCHANGED << iface, walk, given >>
StartSucceeds ==
  /\ type = "A2DP_OFFLOAD" \/ mq' = 0
  /\ mq' \in {0, NoQueue}
  /\ given' \in Configs
  /\ given'.tag = IF type = "A2DP_OFFLOAD" THEN "codec" ELSE "pcm"
  /\ SetConfig(given')
  /\ iface' = TRUE /\ silenced' = FALSE
  /\ Report("session", "none")

LEMMA StartsStep ==
  ASSUME StreamInTypeOK, StackStarts
  PROVE  /\ Unlocked /\ UNCHANGED << type, observers, requests >>
         /\ StartRefused \/ StartFails \/ StartSucceeds
<1> PICK i \in BOOLEAN, c \in {Pcm, Codec, InvalidSoftware},
         d \in IF type \in {"A2DP_OFFLOAD", "LE_OFFLOAD"} THEN {"null"} ELSE {"invalid", "valid"} :
           OnSessionStarted(i, d, c)
  BY Zenon DEF StackStarts
<1>0. type \in AllTypes /\ c \in Configs /\ cfg \in Configs /\ cfg21 \in Configs
  BY ConfigsTyped, HidlAssumption DEF StreamInTypeOK, HidlTypeOK
<1>1. Unlocked /\ UNCHANGED << type, observers, requests >>
  BY DEF OnSessionStarted
<1>2. CASE ~i \/ ~UpdateAudioConfig(c)
  BY <1>1, <1>2 DEF OnSessionStarted, StartRefused
<1>3. CASE i /\ UpdateAudioConfig(c) /\ d = "invalid"
  <2>1. type \notin {"A2DP_OFFLOAD", "LE_OFFLOAD"}
    BY <1>3
  <2>2. mq' = NoQueue /\ ResetConfig
    BY <1>3 DEF OnSessionStarted, UpdateDataPath
  <2>3. silenced' = (silenced \/ IsSessionReady) /\ UNCHANGED << iface, walk, given >>
    BY <1>3 DEF OnSessionStarted
  <2>4. cfg' \in Configs /\ cfg21' \in Configs
    BY <2>2, <1>0, ConfigsTyped DEF ResetConfig
  <2> QED  BY <1>1, <2>1, <2>2, <2>3, <2>4 DEF StartFails
<1>4. CASE i /\ UpdateAudioConfig(c) /\ d # "invalid"
  <2>1. /\ UpdateDataPath(d) /\ SetConfig(c) /\ iface' = TRUE /\ given' = c /\ silenced' = FALSE
        /\ Report("session", "none")
    BY <1>4 DEF OnSessionStarted
  <2>2. c.tag \in {"pcm", "codec"} /\ To20(c).tag = c.tag
    BY <1>0 DEF Configs, To20
  <2>3. type # "LE_OFFLOAD" /\ c.tag = IF type = "A2DP_OFFLOAD" THEN "codec" ELSE "pcm"
    BY <1>4, <2>2 DEF UpdateAudioConfig, Accepts20, Accepts21, Is21, is_2_0_session_type,
                      is_unsupported_2_1_session_type
  <2>4. type # "A2DP_OFFLOAD" => d = "valid"
    BY <1>4, <2>3
  <2>5. (type = "A2DP_OFFLOAD" \/ mq' = 0) /\ mq' \in {0, NoQueue}
    BY <2>1, <2>4 DEF UpdateDataPath
  <2> QED  BY <1>0, <1>1, <2>1, <2>3, <2>5 DEF StartSucceeds
<1> QED  BY <1>2, <1>3, <1>4

\* What a report makes of the walk.
LEMMA Reported ==
  ASSUME StreamInTypeOK, NEW kind \in {"session", "start", "suspend"},
         NEW status \in {"none", "SUCCESS", "FAILURE"}, Report(kind, status)
  PROVE  /\ walk'.todo = Registered
         /\ Registered # {} => walk'.kind = kind
         /\ walk' \in [kind : {"none", "session", "start", "suspend"},
                       status : {"none", "SUCCESS", "FAILURE"}, todo : SUBSET Cookies]
<1>1. Registered \subseteq Cookies  BY DEF Registered
<1>2. CASE Registered = {}
  BY <1>2 DEF Report, NoWalk
<1>3. CASE Registered # {}
  BY <1>1, <1>3 DEF Report
<1> QED  BY <1>2, <1>3

LEMMA CalledBack ==
  ASSUME StreamInTypeOK, NEW c \in walk.todo, CallbackDone(c)
  PROVE  /\ walk'.todo = walk.todo \ {c}
         /\ walk'.todo # {} => walk'.kind = walk.kind
         /\ walk' \in [kind : {"none", "session", "start", "suspend"},
                       status : {"none", "SUCCESS", "FAILURE"}, todo : SUBSET Cookies]
<1>0. walk \in [kind : {"none", "session", "start", "suspend"},
                status : {"none", "SUCCESS", "FAILURE"}, todo : SUBSET Cookies]
  BY DEF StreamInTypeOK, HidlTypeOK
<1>1. CASE walk.todo = {c}
  BY <1>1 DEF CallbackDone, NoWalk
<1>2. CASE walk.todo # {c}
  BY <1>0, <1>2 DEF CallbackDone
<1> QED  BY <1>1, <1>2
-----------------------------------------------------------------------------
\* The types.
LEMMA TypesStep ==
  ASSUME InputInv, Next
  PROVE  StreamInTypeOK'
<1> USE StreamInAssumption, HidlAssumption
<1>a. StreamInTypeOK /\ Life /\ SleepLeft  BY DEF InputInv
<1>b. /\ type \in SessionTypes /\ iface \in BOOLEAN /\ silenced \in BOOLEAN
      /\ mq \in NoQueue..QueueSize
      /\ cfg \in Configs /\ cfg21 \in Configs /\ given \in Configs
      /\ observers \in [Cookies -> {"none", "port", "other"}]
      /\ walk \in [kind : {"none", "session", "start", "suspend"},
                   status : {"none", "SUCCESS", "FAILURE"}, todo : SUBSET Cookies]
      /\ requests \subseteq {"start", "suspend"}
  BY <1>a DEF StreamInTypeOK, HidlTypeOK
<1>c. /\ state \in States /\ cookie \in Cookies \union {Undefined}
      /\ hdl \in [cookie : Cookies \union {Undefined}, prev : States]
      /\ obj \in {"none", "opening", "open", "closing"}
      /\ presented \in Nat
      /\ lock \in Threads \union {"none"}
      /\ pc \in [Threads -> Labels] /\ polls \in [Threads -> Nat] /\ total \in 0..ReadBytes
      /\ standby \in {"none", "asked"}
  BY <1>a DEF StreamInTypeOK
<1>d. /\ ReaderLabels \subseteq Labels /\ ControlLabels \subseteq Labels
      /\ OpeningLabels \subseteq Labels /\ ClosingLabels \subseteq Labels
      /\ Reader \in Threads /\ Control \in Threads
  BY DEF ReaderLabels, ReaderLocked, ControlLabels, ControlLocked, OpeningLabels, ClosingLabels,
         Labels, Threads
<1>e. ASSUME LightSession  PROVE HidlTypeOK'
  <2>1. mq' \in NoQueue..QueueSize
    <3>1. mq \in Int /\ mq >= -1 /\ mq <= QueueSize /\ QueueSize \in Nat
      BY <1>b DEF NoQueue
    <3>2. mq' = mq \/ mq' \in 0..mq
      BY <1>e DEF LightSession
    <3> QED  BY <3>1, <3>2 DEF NoQueue
  <2> QED
    BY <1>b, <1>e, <2>1, Zenon DEF LightSession, SessionRest, HidlTypeOK
<1>1. CASE ReaderEffect
  <2>1. HidlTypeOK'
    BY <1>1, <1>e DEF ReaderEffect
  <2>2. PICK l \in ReaderLabels, n \in Nat : ReaderGoes(l, n)
    BY <1>1, Zenon DEF ReaderEffect
  <2>3. pc' \in [Threads -> Labels] /\ polls' \in [Threads -> Nat] /\ lock' \in Threads \union {"none"}
    BY <1>c, <1>d, <2>2 DEF ReaderGoes
  <2>4. state' \in States /\ standby' \in {"none", "asked"}
    BY <1>1, <1>c DEF ReaderEffect, States
  <2> QED  BY <1>1, <1>c, <2>1, <2>3, <2>4 DEF ReaderEffect, StreamInTypeOK
<1>2. CASE ControlEffect
  <2>1. HidlTypeOK'
    BY <1>2, <1>e DEF ControlEffect
  <2>2. PICK l \in ControlLabels, n \in Nat : ControlGoes(l, n)
    BY <1>2, Zenon DEF ControlEffect
  <2>3. pc' \in [Threads -> Labels] /\ polls' \in [Threads -> Nat] /\ lock' \in Threads \union {"none"}
    BY <1>c, <1>d, <2>2 DEF ControlGoes
  <2>4. state' \in States /\ standby' \in {"none", "asked"}
    BY <1>2, <1>c DEF ControlEffect, States
  <2> QED  BY <1>2, <1>c, <2>1, <2>3, <2>4 DEF ControlEffect, StreamInTypeOK
<1>3. CASE LifeStep
  <2>1. HidlTypeOK'
    <3>1. CASE UNCHANGED sessionVars
      BY <1>b, <3>1 DEF sessionVars, HidlTypeOK
    <3>2. CASE OpenRegister
      <4>1. UNCHANGED << type, iface, mq, cfg, cfg21, walk, requests, given, silenced >>
        BY <3>2 DEF OpenRegister, RegisterStatusCback
      <4>2. observers' \in [Cookies -> {"none", "port", "other"}]
        BY <1>b, <3>2 DEF OpenRegister, RegisterStatusCback
      <4> QED  BY <1>b, <4>1, <4>2 DEF HidlTypeOK
    <3>3. CASE StopCall
      BY <1>a, <1>e, <3>3, StreamCallLight DEF StopCall
    <3>4. CASE TearDown
      <4>1. UNCHANGED << type, iface, mq, cfg, cfg21, walk, requests, given, silenced >>
        BY <3>4 DEF TearDown, UnregisterStatusCback
      <4>2. observers' \in [Cookies -> {"none", "port", "other"}]
        BY <1>b, <3>4 DEF TearDown, UnregisterStatusCback
      <4> QED  BY <1>b, <4>1, <4>2 DEF HidlTypeOK
    <3> QED
      BY <1>3, <3>1, <3>2, <3>3, <3>4 DEF LifeStep, OpenClose, CallOpen, CallClose, OpenCookie,
         OpenConfig, OpenDone, StopSet, TearDownCookie
  <2>2. /\ lock' = lock /\ total' = total /\ hdl' = hdl
        /\ presented' \in {presented, 0} /\ standby' \in {standby, "none"}
    BY <1>3 DEF LifeStep, OpenClose, CallOpen, CallClose, OpenRegister, OpenCookie, OpenConfig,
       OpenDone, StopSet, StopCall, TearDown, TearDownCookie, Stage, portVars, streamVars
  <2>3. state' \in States /\ cookie' \in Cookies \union {Undefined}
    BY <1>3, <1>a, <1>c DEF LifeStep, OpenClose, CallOpen, CallClose, OpenRegister, OpenCookie,
       OpenConfig, OpenDone, StopSet, StopCall, TearDown, TearDownCookie, portVars, States, SleepLeft
  <2>4. obj' \in {"none", "opening", "open", "closing"}
    BY <1>3, <1>c DEF LifeStep, OpenClose, CallOpen, CallClose, OpenRegister, OpenCookie, OpenConfig,
       OpenDone, StopSet, StopCall, TearDown, TearDownCookie, Stage, streamVars
  <2>5. pc' \in [Threads -> Labels]
    <3>1. \E l \in OpeningLabels \union ClosingLabels \union {"idle"} : pc' = [pc EXCEPT ![Control] = l]
      BY <1>3 DEF LifeStep, OpenClose, CallOpen, CallClose, OpenRegister, OpenCookie, OpenConfig,
       OpenDone, StopSet, StopCall, TearDown, TearDownCookie, Stage, Goto, OpeningLabels, ClosingLabels
    <3>2. "idle" \in Labels  BY DEF Labels
    <3> QED  BY <1>c, <1>d, <3>1, <3>2
  <2>6. polls' \in [Threads -> Nat]
    <3>1. \E n \in Nat : polls' = [polls EXCEPT ![Control] = n]
      <4>0. polls = [polls EXCEPT ![Control] = polls[Control]] /\ polls[Control] \in Nat
        BY <1>c, <1>d
      <4>1. CASE OpenRegister
        <5>1. \E c \in Cookies \union {Undefined} : polls' = [polls EXCEPT ![Control] = c]
          BY <4>1 DEF OpenRegister
        <5>2. Cookies \union {Undefined} \subseteq Nat  BY DEF Cookies, Undefined
        <5> QED  BY <5>1, <5>2
      <4>2. CASE OpenDone \/ TearDownCookie
        BY <4>2 DEF OpenDone, TearDownCookie
      <4>3. CASE UNCHANGED polls
        BY <4>0, <4>3
      <4> QED
        BY <1>3, <4>1, <4>2, <4>3 DEF LifeStep, OpenClose, CallOpen, CallClose, OpenCookie, OpenConfig,
           StopSet, StopCall, TearDown, Stage
    <3> QED  BY <1>c, <3>1
  <2>7. presented' \in Nat /\ standby' \in {"none", "asked"}
    BY <1>c, <2>2
  <2>8. /\ hdl' \in [cookie : Cookies \union {Undefined}, prev : States]
        /\ lock' \in Threads \union {"none"} /\ total' \in 0..ReadBytes
    BY <1>c, <2>2, Zenon
  <2> QED  BY <2>1, <2>3, <2>4, <2>5, <2>6, <2>7, <2>8, Zenon DEF StreamInTypeOK
<1>4. CASE SessionStep
  <2>1. UNCHANGED << portVars, threadVars, streamVars >>
    BY <1>4 DEF SessionStep
  <2>2. HidlTypeOK'
    <3>1. CASE StackStarts
      <4>1. UNCHANGED << type, observers, requests >>
        BY <1>a, <3>1, StartsStep
      <4>2. CASE StartRefused
        BY <1>b, <4>1, <4>2 DEF StartRefused, HidlTypeOK
      <4>3. CASE StartFails
        <5>1. mq' \in NoQueue..QueueSize /\ silenced' \in BOOLEAN
          BY <4>3, <1>b DEF StartFails, NoQueue
        <5> QED  BY <1>b, <4>1, <4>3, <5>1 DEF StartFails, HidlTypeOK
      <4>4. CASE StartSucceeds
        <5>1. mq' \in NoQueue..QueueSize /\ silenced' \in BOOLEAN /\ iface' \in BOOLEAN
          <6>1. mq' \in NoQueue..QueueSize
            BY <4>4, <1>b DEF StartSucceeds, NoQueue
          <6> QED  BY <4>4, <6>1 DEF StartSucceeds
        <5>2. cfg' \in Configs /\ cfg21' \in Configs /\ given' \in Configs
          BY <4>4, <1>b, ConfigsTyped DEF StartSucceeds, SetConfig
        <5>3. walk' \in [kind : {"none", "session", "start", "suspend"},
                   status : {"none", "SUCCESS", "FAILURE"}, todo : SUBSET Cookies]
          BY <4>4, <1>a, Reported DEF StartSucceeds
        <5> QED  BY <1>b, <4>1, <5>1, <5>2, <5>3, Zenon DEF HidlTypeOK
      <4> QED  BY <1>a, <3>1, <4>2, <4>3, <4>4, StartsStep
    <3>2. CASE OnSessionEnded
      <4>1. walk' \in [kind : {"none", "session", "start", "suspend"},
                   status : {"none", "SUCCESS", "FAILURE"}, todo : SUBSET Cookies]
        BY <3>2, <1>a, <1>b, Reported DEF OnSessionEnded
      <4>2. mq' \in NoQueue..QueueSize
        BY <3>2 DEF OnSessionEnded, UpdateDataPath, NoQueue
      <4>3. cfg' \in Configs /\ given' \in Configs
        BY <3>2, ConfigsTyped DEF OnSessionEnded
      <4> QED  BY <1>b, <3>2, <4>1, <4>2, <4>3 DEF OnSessionEnded, HidlTypeOK
    <3>3. CASE \E kind \in {"start", "suspend"}, status \in {"SUCCESS", "FAILURE"} :
                 ReportControlStatus(kind, status)
      <4>1. walk' \in [kind : {"none", "session", "start", "suspend"},
                   status : {"none", "SUCCESS", "FAILURE"}, todo : SUBSET Cookies]
        BY <3>3, <1>a, Reported DEF ReportControlStatus
      <4> QED  BY <1>b, <3>3, <4>1 DEF ReportControlStatus, HidlTypeOK
    <3>4. CASE StackProduces
      <4>1. mq' \in NoQueue..QueueSize
        BY <1>b, <3>4 DEF StackProduces, NoQueue
      <4> QED  BY <1>b, <3>4, <4>1 DEF StackProduces, HidlTypeOK
    <3>5. CASE OtherRegisters \/ OtherUnregisters
      <4>1. UNCHANGED << type, iface, mq, cfg, cfg21, walk, requests, given, silenced >>
        BY <3>5 DEF OtherRegisters, OtherUnregisters, RegisterStatusCback, UnregisterStatusCback
      <4>2. observers' \in [Cookies -> {"none", "port", "other"}]
        BY <1>b, <3>5 DEF OtherRegisters, OtherUnregisters, RegisterStatusCback,
           UnregisterStatusCback
      <4> QED  BY <1>b, <4>1, <4>2 DEF HidlTypeOK
    <3> QED  BY <1>4, <3>1, <3>2, <3>3, <3>4, <3>5 DEF SessionStep
  <2> QED  BY <1>c, <2>1, <2>2 DEF StreamInTypeOK, portVars, threadVars, streamVars
<1>5. CASE Callbacks
  <2>1. UNCHANGED << type, iface, mq, cfg, cfg21, observers, requests, given, silenced,
                     cookie, threadVars, streamVars >>
    BY <1>5 DEF Callbacks, CallbackBegin, CallbackEnd
  <2>2. CASE \E c \in Cookies : CallbackBegin(c)
    <3> PICK c \in Cookies : CallbackBegin(c)  BY <2>2
    <3>1. state' = state /\ hdl' \in [cookie : Cookies \union {Undefined}, prev : States]
      BY <1>c DEF CallbackBegin
    <3>2. walk' \in [kind : {"none", "session", "start", "suspend"},
                   status : {"none", "SUCCESS", "FAILURE"}, todo : SUBSET Cookies]
      BY <1>a, <1>b, CalledBack DEF CallbackBegin
    <3> QED  BY <1>b, <1>c, <2>1, <3>1, <3>2 DEF StreamInTypeOK, HidlTypeOK, threadVars, streamVars
  <2>3. CASE CallbackEnd
    <3>1. state' \in States
      BY <1>c, <2>3 DEF CallbackEnd, ControlResultState, States
    <3>2. hdl' \in [cookie : Cookies \union {Undefined}, prev : States]
      BY <2>3 DEF CallbackEnd, NoHandler, States
    <3>3. walk' \in [kind : {"none", "session", "start", "suspend"},
                   status : {"none", "SUCCESS", "FAILURE"}, todo : SUBSET Cookies]
      BY <1>a, <2>3, CalledBack DEF CallbackEnd, InputInv, HandlerInWalk
    <3> QED  BY <1>b, <1>c, <2>1, <3>1, <3>2, <3>3 DEF StreamInTypeOK, HidlTypeOK, threadVars, streamVars
  <2> QED  BY <1>5, <2>2, <2>3 DEF Callbacks
<1> QED  BY <1>1, <1>2, <1>3, <1>4, <1>5, NextSteps
-----------------------------------------------------------------------------
\* The threads and the life of the stream.
LEMMA ThreadsTyped ==
  ASSUME StreamInTypeOK
  PROVE  /\ pc \in [Threads -> Labels] /\ polls \in [Threads -> Nat]
         /\ Threads = {Reader, Control} /\ Reader # Control
BY DEF StreamInTypeOK, Threads, Reader, Control

\* A step of opening or closing moves the control thread alone.
LEMMA LifeMoves ==
  ASSUME InputInv, LifeStep
  PROVE  /\ pc' = [pc EXCEPT ![Control] = pc'[Control]]
         /\ polls' = [polls EXCEPT ![Control] = polls'[Control]]
         /\ pc[Control] \notin ControlLocked /\ pc'[Control] \notin ControlLocked \union Polling
         /\ pc[Reader] = "idle" \/ obj = "none"
         /\ UNCHANGED << lock, total, hdl >>
<1>a. StreamInTypeOK /\ Life /\ Threads = {Reader, Control}  BY ThreadsTyped DEF InputInv
<1>b. pc \in [Threads -> Labels] /\ polls \in [Threads -> Nat]  BY <1>a, ThreadsTyped
<1>1. \E l \in OpeningLabels \union ClosingLabels \union {"idle"} : pc' = [pc EXCEPT ![Control] = l]
  BY DEF LifeStep, OpenClose, CallOpen, CallClose, OpenRegister, OpenCookie, OpenConfig,
     OpenDone, StopSet, StopCall, TearDown, TearDownCookie, Stage, Goto, OpeningLabels, ClosingLabels
<1>2. \E n : polls' = [polls EXCEPT ![Control] = n]
  <2>0. polls = [polls EXCEPT ![Control] = polls[Control]]
    BY <1>a, <1>b
  <2>1. CASE OpenRegister
    BY <2>1 DEF OpenRegister
  <2>2. CASE OpenDone \/ TearDownCookie
    BY <2>2 DEF OpenDone, TearDownCookie
  <2>3. CASE UNCHANGED polls
    BY <2>0, <2>3
  <2> QED
    BY <2>1, <2>2, <2>3 DEF LifeStep, OpenClose, CallOpen, CallClose, OpenCookie, OpenConfig,
       StopSet, StopCall, TearDown, Stage
<1>3. /\ pc[Control] \in OpeningLabels \union ClosingLabels \union {"idle"}
      /\ pc[Control] = "idle" => obj = "none" \/ pc[Reader] = "idle"
  BY <1>a DEF LifeStep, OpenClose, CallOpen, CallClose, OpenRegister, OpenCookie, OpenConfig,
     OpenDone, StopSet, StopCall, TearDown, TearDownCookie, OpeningLabels, ClosingLabels
<1>4. (OpeningLabels \union ClosingLabels \union {"idle"}) \intersect (ControlLocked \union Polling) = {}
  BY DEF OpeningLabels, ClosingLabels, ControlLocked, Polling
<1>5. pc[Control] # "idle" => pc[Reader] = "idle"
  BY <1>a, <1>3 DEF Life, StreamInTypeOK, OpeningLabels, ClosingLabels, ControlLabels, ControlLocked
<1>6. UNCHANGED << lock, total, hdl >>
  BY DEF LifeStep, OpenClose, CallOpen, CallClose, OpenRegister, OpenCookie, OpenConfig,
     OpenDone, StopSet, StopCall, TearDown, TearDownCookie, Stage, portVars
<1>7. pc' = [pc EXCEPT ![Control] = pc'[Control]] /\ polls' = [polls EXCEPT ![Control] = polls'[Control]]
  BY <1>a, <1>b, <1>1, <1>2
<1>8. pc'[Control] \in OpeningLabels \union ClosingLabels \union {"idle"}
  BY <1>a, <1>b, <1>1
<1> QED  BY <1>3, <1>4, <1>5, <1>6, <1>7, <1>8

LEMMA LifeKept ==
  ASSUME InputInv, Next
  PROVE  Life'
<1>a. StreamInTypeOK /\ Life /\ HandlerInWalk  BY DEF InputInv
<1>b. pc \in [Threads -> Labels] /\ Threads = {Reader, Control} /\ Reader # Control
  BY <1>a, ThreadsTyped
<1>1. CASE ReaderEffect
  <2>1. PICK l \in ReaderLabels, n \in Nat : ReaderGoes(l, n)
    BY <1>1, Zenon DEF ReaderEffect
  <2>2. pc'[Reader] = l /\ pc'[Control] = pc[Control]
    BY <1>b, <2>1 DEF ReaderGoes
  <2> QED  BY <1>1, <1>a, <2>2 DEF ReaderEffect, Life
<1>2. CASE ControlEffect
  <2>1. PICK l \in ControlLabels, n \in Nat : ControlGoes(l, n)
    BY <1>2, Zenon DEF ControlEffect
  <2>2. pc'[Control] = l /\ pc'[Reader] = pc[Reader]
    BY <1>b, <2>1 DEF ControlGoes
  <2> QED  BY <1>2, <1>a, <2>2 DEF ControlEffect, Life
<1>3. CASE LifeStep
  <2>1. pc'[Reader] = pc[Reader] /\ (pc[Reader] = "idle" \/ obj = "none") /\ hdl' = hdl
    BY <1>3, <1>b, LifeMoves
  <2>2. pc'[Reader] = "idle"
    BY <1>a, <2>1 DEF Life
  <2>3. /\ obj' = "none" => pc'[Control] = "idle"
        /\ obj' = "opening" => pc'[Control] \in OpeningLabels
        /\ obj' = "open" => pc'[Control] \in ControlLabels
        /\ obj' = "closing" => pc'[Control] \in ClosingLabels
    BY <1>3, <1>a, <1>b DEF LifeStep, OpenClose, CallOpen, CallClose, OpenRegister, OpenCookie,
       OpenConfig, OpenDone, StopSet, StopCall, TearDown, TearDownCookie, Stage, Goto, streamVars,
       Life, OpeningLabels, ClosingLabels, ControlLabels, ControlLocked, StreamInTypeOK
  <2>4. CASE CallOpen
    <3>1. walk.todo = {} /\ state' = "STANDBY"
      BY <2>4 DEF CallOpen, Unlocked
    <3>2. hdl = NoHandler
      BY <1>a, <3>1 DEF HandlerInWalk
    <3> QED  BY <2>1, <2>2, <2>3, <3>1, <3>2 DEF Life, ReaderLabels, NoHandler
  <2>5. CASE ~CallOpen
    <3>1. obj' = "opening" => obj = "opening"
      BY <1>3, <1>a, <2>5 DEF LifeStep, OpenClose, CallClose, OpenRegister, OpenCookie,
         OpenConfig, OpenDone, StopSet, StopCall, TearDown, TearDownCookie, Stage, streamVars,
         Life, StreamInTypeOK, ClosingLabels, ControlLabels, ControlLocked
    <3>2. state' \in {state, "DISABLED"}
      BY <1>3, <2>5 DEF LifeStep, OpenClose, CallClose, OpenRegister, OpenCookie,
         OpenConfig, OpenDone, StopSet, StopCall, TearDown, TearDownCookie, portVars
    <3> QED  BY <1>a, <2>1, <2>2, <2>3, <3>1, <3>2 DEF Life, ReaderLabels
  <2> QED  BY <2>4, <2>5
<1>4. CASE SessionStep
  BY <1>4, <1>a DEF SessionStep, portVars, threadVars, streamVars, Life
<1>5. CASE Callbacks
  <2>1. UNCHANGED << pc, obj >>
    BY <1>5 DEF Callbacks, CallbackBegin, CallbackEnd, threadVars, streamVars
  <2>2. obj = "opening" => state' \in {"STANDBY", "DISABLED"} /\ hdl'.prev \in {"STANDBY", "DISABLED"}
    <3>1. CASE \E c \in Cookies : CallbackBegin(c)
      BY <1>a, <3>1 DEF CallbackBegin, Life
    <3>2. CASE CallbackEnd
      BY <1>a, <3>2 DEF CallbackEnd, ControlResultState, NoHandler, Life
    <3> QED  BY <1>5, <3>1, <3>2 DEF Callbacks
  <2> QED  BY <1>a, <2>1, <2>2 DEF Life
<1> QED  BY <1>1, <1>2, <1>3, <1>4, <1>5, NextSteps

LEMMA SleepsKept ==
  ASSUME InputInv, Next
  PROVE  SleepLeft'
<1>a. StreamInTypeOK /\ Life /\ SleepLeft  BY DEF InputInv
<1>b. pc \in [Threads -> Labels] /\ polls \in [Threads -> Nat] /\ Threads = {Reader, Control} /\ Reader # Control
  BY <1>a, ThreadsTyped
<1>1. CASE ReaderEffect
  <2>1. PICK l \in ReaderLabels, n \in Nat : ReaderGoes(l, n)
    BY <1>1, Zenon DEF ReaderEffect
  <2>2. /\ pc'[Reader] = l /\ pc'[Control] = pc[Control] /\ polls'[Reader] = n
        /\ polls'[Control] = polls[Control] /\ (l \in Polling => n > 0)
    BY <1>b, <2>1 DEF ReaderGoes
  <2> QED  BY <1>a, <1>b, <2>2 DEF SleepLeft
<1>2. CASE ControlEffect
  <2>1. PICK l \in ControlLabels, n \in Nat : ControlGoes(l, n)
    BY <1>2, Zenon DEF ControlEffect
  <2>2. /\ pc'[Control] = l /\ pc'[Reader] = pc[Reader] /\ polls'[Control] = n
        /\ polls'[Reader] = polls[Reader] /\ (l \in Polling => n > 0)
    BY <1>b, <2>1 DEF ControlGoes
  <2>3. l # "open.cookie"
    BY DEF ControlLabels, ControlLocked
  <2> QED  BY <1>a, <1>b, <2>2, <2>3 DEF SleepLeft
<1>3. CASE LifeStep
  <2>1. /\ pc'[Reader] = pc[Reader] /\ polls'[Reader] = polls[Reader]
        /\ pc'[Control] \notin Polling
    BY <1>3, <1>b, LifeMoves
  <2>2. pc'[Control] = "open.cookie" => polls'[Control] \in Cookies \union {Undefined}
    <3>1. CASE OpenRegister
      BY <1>b, <3>1 DEF OpenRegister
    <3>2. CASE ~OpenRegister
      <4>1. pc'[Control] # "open.cookie"
        BY <1>3, <1>b, <3>2 DEF LifeStep, OpenClose, CallOpen, CallClose, OpenCookie,
           OpenConfig, OpenDone, StopSet, StopCall, TearDown, TearDownCookie, Stage, Goto
      <4> QED  BY <4>1
    <3> QED  BY <3>1, <3>2
  <2> QED  BY <1>a, <1>b, <2>1, <2>2 DEF SleepLeft
<1>4. CASE SessionStep \/ Callbacks
  <2>1. UNCHANGED << pc, polls >>
    BY <1>4 DEF SessionStep, Callbacks, CallbackBegin, CallbackEnd, threadVars
  <2> QED  BY <1>a, <2>1 DEF SleepLeft
<1> QED  BY <1>1, <1>2, <1>3, <1>4, NextSteps

LEMMA LocksKept ==
  ASSUME InputInv, Next
  PROVE  LocksHeld'
<1>a. StreamInTypeOK /\ LocksHeld  BY DEF InputInv
<1>b. pc \in [Threads -> Labels] /\ Threads = {Reader, Control} /\ Reader # Control
      /\ Reader # "none" /\ Control # "none"
  BY <1>a, ThreadsTyped DEF Reader, Control
<1>1. CASE ReaderEffect
  <2>1. PICK l \in ReaderLabels, n \in Nat : ReaderGoes(l, n)
    BY <1>1, Zenon DEF ReaderEffect
  <2>2. pc'[Reader] = l /\ pc'[Control] = pc[Control]
    BY <1>b, <2>1 DEF ReaderGoes
  <2> QED  BY <1>a, <1>b, <2>1, <2>2 DEF ReaderGoes, LocksHeld
<1>2. CASE ControlEffect
  <2>1. PICK l \in ControlLabels, n \in Nat : ControlGoes(l, n)
    BY <1>2, Zenon DEF ControlEffect
  <2>2. pc'[Control] = l /\ pc'[Reader] = pc[Reader]
    BY <1>b, <2>1 DEF ControlGoes
  <2> QED  BY <1>a, <1>b, <2>1, <2>2 DEF ControlGoes, LocksHeld
<1>3. CASE LifeStep
  BY <1>3, <1>a, <1>b, LifeMoves DEF LocksHeld
<1>4. CASE SessionStep \/ Callbacks
  <2>1. UNCHANGED << pc, lock >>
    BY <1>4 DEF SessionStep, Callbacks, CallbackBegin, CallbackEnd, threadVars
  <2> QED  BY <1>a, <2>1 DEF LocksHeld
<1> QED  BY <1>1, <1>2, <1>3, <1>4, NextSteps
-----------------------------------------------------------------------------
\* The port and the session.

\* While the stream is open its port is enrolled under its cookie, whatever the
\* threads do.
LEMMA OpenEnrolled ==
  ASSUME InputInv, obj = "open"
  PROVE  /\ Enrolled /\ MyCookie = cookie
         /\ cookie \in Cookies /\ observers[cookie] = "port"
<1>1. pc[Control] \notin {"open.register", "teardown.cookie", "open.cookie"}
  BY DEF InputInv, Life, ControlLabels, ControlLocked
<1>2. cookie \in Cookies \union {Undefined}  BY DEF InputInv, StreamInTypeOK
<1> QED  BY <1>1, <1>2 DEF InputInv, Registration, Enrolled, MyCookie, in_use

LEMMA RegistrationKept ==
  ASSUME InputInv, Next
  PROVE  Registration'
<1>a. StreamInTypeOK /\ Life /\ SleepLeft /\ Registration  BY DEF InputInv
<1>b. /\ pc \in [Threads -> Labels] /\ polls \in [Threads -> Nat] /\ Threads = {Reader, Control}
      /\ Reader # Control
  BY <1>a, ThreadsTyped
<1>c. /\ observers \in [Cookies -> {"none", "port", "other"}]
      /\ walk.todo \subseteq Cookies /\ cookie \in Cookies \union {Undefined}
      /\ Undefined \notin Cookies
  BY <1>a DEF StreamInTypeOK, HidlTypeOK, Cookies, Undefined
<1>1. CASE ReaderEffect
  <2>1. PICK l \in ReaderLabels, n \in Nat : ReaderGoes(l, n)
    BY <1>1, Zenon DEF ReaderEffect
  <2>2. pc'[Control] = pc[Control] /\ polls'[Control] = polls[Control]
    BY <1>b, <2>1 DEF ReaderGoes
  <2>3. UNCHANGED << obj, cookie, observers, walk >>
    BY <1>1 DEF ReaderEffect, LightSession, SessionRest
  <2> QED  BY <1>a, <2>2, <2>3 DEF Registration, Enrolled, MyCookie, in_use
<1>2. CASE ControlEffect
  <2>1. PICK l \in ControlLabels, n \in Nat : ControlGoes(l, n)
    BY <1>2, Zenon DEF ControlEffect
  <2>2. pc'[Control] = l /\ l \notin {"open.register", "teardown.cookie", "open.cookie"}
    BY <1>b, <2>1 DEF ControlGoes, ControlLabels, ControlLocked
  <2>3. UNCHANGED << obj, cookie, observers, walk >> /\ obj = "open"
    BY <1>2 DEF ControlEffect, LightSession, SessionRest
  <2>4. Enrolled' /\ MyCookie' = cookie
    BY <2>2, <2>3 DEF Enrolled, MyCookie
  <2>5. Enrolled /\ MyCookie = cookie /\ cookie \in Cookies
    BY <2>3, OpenEnrolled
  <2>6. \A c \in Cookies : observers'[c] = "port" <=> Enrolled' /\ MyCookie' = c
    BY <1>a, <2>3, <2>4, <2>5 DEF Registration
  <2>7. cookie' # Undefined
    BY <1>c, <2>3, <2>5
  <2> QED  BY <1>a, <2>3, <2>6, <2>7 DEF Registration, in_use
<1>3. CASE LifeStep
  <2>0. pc'[Control] \in Labels
    BY TypesStep, <1>b DEF StreamInTypeOK, Threads
  <2>1. CASE CallOpen
    <3>1. UNCHANGED << observers, walk, cookie >> /\ obj' = "opening" /\ pc'[Control] = "open.register"
      BY <2>1, <1>b DEF CallOpen, Stage, Goto, sessionVars
    <3>2. obj = "none"
      BY <2>1 DEF CallOpen
    <3> QED  BY <1>a, <3>1, <3>2 DEF Registration, Enrolled
  <2>2. CASE OpenRegister
    <3>1. PICK c \in Cookies \union {Undefined} :
            RegisterStatusCback("port", c) /\ polls' = [polls EXCEPT ![Control] = c]
      BY <2>2 DEF OpenRegister
    <3>2. pc[Control] = "open.register" /\ pc'[Control] = "open.cookie" /\ polls'[Control] = c
      BY <2>2, <1>b, <3>1 DEF OpenRegister, Goto
    <3>3. UNCHANGED << obj, cookie, walk >> /\ walk.todo = {}
      BY <2>2, <3>1 DEF OpenRegister, RegisterStatusCback, streamVars, portVars, Unlocked
    <3>4. obj = "opening"
      BY <1>a, <3>2 DEF StreamInTypeOK, Life, ClosingLabels, ControlLabels, ControlLocked
    <3>5. \A b \in Cookies : observers[b] # "port"
      BY <1>a, <3>2 DEF Registration, Enrolled
    <3>6. Enrolled' /\ MyCookie' = c
      BY <3>2, <3>3, <3>4 DEF Enrolled, MyCookie
    <3>7. \/ c \in Cookies /\ observers' = [observers EXCEPT ![c] = "port"]
          \/ c = Undefined /\ UNCHANGED observers
      BY <3>1 DEF RegisterStatusCback, FreeCookie
    <3>8. \A b \in Cookies : observers'[b] = "port" <=> c = b
      BY <1>c, <3>5, <3>7
    <3> QED  BY <3>2, <3>3, <3>6, <3>8 DEF Registration
  <2>3. CASE OpenCookie
    <3>1. UNCHANGED << observers, walk >> /\ pc[Control] = "open.cookie" /\ cookie' = polls[Control]
      BY <2>3 DEF OpenCookie, sessionVars
    <3>2. obj = "opening"
      BY <1>a, <3>1 DEF StreamInTypeOK, Life, ClosingLabels, ControlLabels, ControlLocked
    <3>3. Enrolled /\ MyCookie = polls[Control]
      BY <3>1, <3>2 DEF Enrolled, MyCookie
    <3>4. CASE polls[Control] = Undefined
      <4>1. obj' = "none"
        BY <2>3, <3>4 DEF OpenCookie, Stage
      <4> QED  BY <1>a, <1>c, <3>1, <3>3, <3>4, <4>1 DEF Registration, Enrolled
    <3>5. CASE polls[Control] # Undefined
      <4>1. obj' = "opening" /\ pc'[Control] = "open.config"
        BY <2>3, <1>b, <3>5 DEF OpenCookie, Stage, Goto
      <4>2. Enrolled' /\ MyCookie' = polls[Control]
        BY <3>1, <4>1 DEF Enrolled, MyCookie
      <4> QED  BY <1>a, <3>1, <3>3, <3>5, <4>2 DEF Registration, in_use
    <3> QED  BY <3>4, <3>5
  <2>4. CASE OpenConfig \/ OpenDone \/ CallClose \/ StopSet \/ StopCall
    <3>1. UNCHANGED << observers, walk, cookie >>
      BY <2>4 DEF OpenConfig, OpenDone, CallClose, StopSet, StopCall, StreamCall, sessionVars, portVars
    <3>2. /\ pc[Control] \notin {"open.register", "teardown.cookie", "open.cookie"}
          /\ pc'[Control] \notin {"open.register", "teardown.cookie", "open.cookie"}
      BY <2>4, <1>b DEF OpenConfig, OpenDone, CallClose, StopSet, StopCall, Stage, Goto
    <3>3. obj # "none" /\ obj' # "none"
      BY <2>4, <1>a DEF OpenConfig, OpenDone, CallClose, StopSet, StopCall, Stage, Life
    <3>4. Enrolled /\ Enrolled' /\ MyCookie = cookie /\ MyCookie' = cookie
      BY <3>1, <3>2, <3>3 DEF Enrolled, MyCookie
    <3> QED  BY <1>a, <3>1, <3>2, <3>4 DEF Registration, in_use
  <2>5. CASE TearDown
    <3>1. /\ observers' = [observers EXCEPT ![cookie] = "none"]
          /\ pc[Control] = "teardown" /\ pc'[Control] = "teardown.cookie"
          /\ UNCHANGED walk /\ walk.todo = {}
      BY <2>5, <1>b DEF TearDown, UnregisterStatusCback, Stage, Goto, Unlocked
    <3>2. Enrolled /\ MyCookie = cookie
      BY <1>a, <3>1 DEF Enrolled, MyCookie, Life
    <3>3. \A c \in Cookies : observers'[c] # "port"
      BY <1>a, <1>c, <3>1, <3>2 DEF Registration
    <3> QED  BY <3>1, <3>3 DEF Registration, Enrolled
  <2>6. CASE TearDownCookie
    <3>1. UNCHANGED << observers, walk >> /\ obj' = "none" /\ pc[Control] = "teardown.cookie"
      BY <2>6 DEF TearDownCookie, sessionVars
    <3> QED  BY <1>a, <3>1 DEF Registration, Enrolled
  <2> QED  BY <1>3, <2>1, <2>2, <2>3, <2>4, <2>5, <2>6 DEF LifeStep, OpenClose
<1>4. CASE SessionStep
  <2>1. UNCHANGED << obj, cookie, pc, polls >>
    BY <1>4 DEF SessionStep, portVars, threadVars, streamVars
  <2>2. \A c \in Cookies : observers'[c] = "port" <=> observers[c] = "port"
    <3>1. CASE OtherRegisters \/ OtherUnregisters
      <4>1. \E c \in Cookies, w \in {"none", "other"} :
              observers' = [observers EXCEPT ![c] = w] /\ observers[c] # "port"
        BY <1>c, <3>1 DEF OtherRegisters, OtherUnregisters, RegisterStatusCback, UnregisterStatusCback,
           FreeCookie, Registered, Undefined
      <4> QED  BY <1>c, <4>1
    <3>2. CASE ~(OtherRegisters \/ OtherUnregisters)
      <4>1. observers' = observers
        BY <1>4, <1>a, <3>2, StartsStep DEF SessionStep, OnSessionEnded, ReportControlStatus, StackProduces
      <4> QED  BY <4>1
    <3> QED  BY <3>1, <3>2
  <2>3. \A c \in walk'.todo : observers'[c] # "none"
    <3>1. CASE OtherRegisters \/ OtherUnregisters
      BY <3>1 DEF OtherRegisters, OtherUnregisters, RegisterStatusCback, UnregisterStatusCback, Unlocked
    <3>2. CASE StackProduces
      BY <1>a, <3>2 DEF StackProduces, Registration
    <3>3. CASE walk' = walk /\ observers' = observers
      BY <1>a, <3>3 DEF Registration
    <3>4. CASE walk'.todo = Registered /\ observers' = observers
      BY <3>4 DEF Registered
    <3>5. CASE StackStarts
      BY <1>a, <3>3, <3>4, <3>5, StartsStep, Reported DEF StartRefused, StartFails, StartSucceeds
    <3>6. CASE OnSessionEnded
      BY <1>a, <3>3, <3>4, <3>6, Reported DEF OnSessionEnded
    <3>7. CASE \E kind \in {"start", "suspend"}, status \in {"SUCCESS", "FAILURE"} :
                 ReportControlStatus(kind, status)
      BY <1>a, <3>4, <3>7, Reported DEF ReportControlStatus
    <3> QED  BY <1>4, <3>1, <3>2, <3>5, <3>6, <3>7 DEF SessionStep
  <2>4. Enrolled' = Enrolled /\ MyCookie' = MyCookie
    BY <2>1 DEF Enrolled, MyCookie
  <2> QED  BY <1>a, <2>1, <2>2, <2>3, <2>4 DEF Registration, in_use
<1>5. CASE Callbacks
  <2>1. UNCHANGED << obj, cookie, pc, polls, observers >>
    BY <1>5 DEF Callbacks, CallbackBegin, CallbackEnd, threadVars, streamVars
  <2>2. walk'.todo \subseteq walk.todo
    BY <1>5, <1>a, CalledBack DEF Callbacks, CallbackBegin, CallbackEnd, InputInv, HandlerInWalk
  <2>3. Enrolled' = Enrolled /\ MyCookie' = MyCookie
    BY <2>1 DEF Enrolled, MyCookie
  <2> QED  BY <1>a, <2>1, <2>2, <2>3 DEF Registration, in_use
<1> QED  BY <1>1, <1>2, <1>3, <1>4, <1>5, NextSteps

LEMMA HandlerKept ==
  ASSUME InputInv, Next
  PROVE  HandlerInWalk'
<1>a. StreamInTypeOK /\ Life /\ HandlerInWalk  BY DEF InputInv
<1>b. Unlocked => hdl = NoHandler
  BY <1>a DEF Unlocked, HandlerInWalk
<1>1. CASE ReaderEffect \/ ControlEffect
  BY <1>1, <1>a DEF ReaderEffect, ControlEffect, LightSession, SessionRest, HandlerInWalk
<1>2. CASE LifeStep
  <2>1. CASE OpenRegister \/ TearDown
    BY <1>b, <2>1 DEF OpenRegister, TearDown, RegisterStatusCback, UnregisterStatusCback, portVars,
       HandlerInWalk
  <2>2. CASE OpenCookie \/ TearDownCookie
    <3>1. UNCHANGED << hdl, walk, observers >>
      BY <2>2 DEF OpenCookie, TearDownCookie, sessionVars
    <3>2. hdl # NoHandler => hdl.cookie \in Cookies /\ observers[hdl.cookie] = "port"
      BY <1>a DEF HandlerInWalk, StreamInTypeOK, HidlTypeOK
    <3>3. hdl # NoHandler => Enrolled /\ MyCookie = hdl.cookie
      BY <3>2 DEF InputInv, Registration
    <3>4. hdl # NoHandler => cookie' = hdl.cookie
      BY <2>2, <3>3 DEF OpenCookie, TearDownCookie, Enrolled, MyCookie
    <3> QED  BY <1>a, <3>1, <3>2, <3>4 DEF HandlerInWalk
  <2>3. CASE CallOpen \/ CallClose \/ OpenConfig \/ OpenDone \/ StopSet \/ StopCall
    <3>1. UNCHANGED << walk, observers, cookie, hdl >>
      BY <2>3 DEF CallOpen, CallClose, OpenConfig, OpenDone, StopSet, StopCall, StreamCall,
         sessionVars, portVars
    <3> QED  BY <1>a, <3>1 DEF HandlerInWalk
  <2> QED  BY <1>2, <2>1, <2>2, <2>3 DEF LifeStep, OpenClose
<1>3. CASE SessionStep
  <2>1. UNCHANGED << cookie, hdl >>
    BY <1>3 DEF SessionStep, portVars
  <2>2. CASE Unlocked
    BY <1>b, <2>1, <2>2 DEF HandlerInWalk
  <2>3. CASE ~Unlocked
    <3>1. UNCHANGED << walk, observers >>
      BY <1>3, <1>a, <2>3, StartsStep DEF SessionStep, OnSessionEnded, ReportControlStatus, StackProduces,
         OtherRegisters, OtherUnregisters, RegisterStatusCback, UnregisterStatusCback
    <3> QED  BY <1>a, <2>1, <3>1 DEF HandlerInWalk
  <2> QED  BY <2>2, <2>3
<1>4. CASE Callbacks
  <2>1. CASE CallbackEnd
    BY <2>1 DEF CallbackEnd, HandlerInWalk
  <2>2. CASE \E c \in Cookies : CallbackBegin(c)
    <3> PICK c \in Cookies : CallbackBegin(c)  BY <2>2
    <3>1. CASE observers[c] = "port" /\ cookie = c
      BY <3>1 DEF CallbackBegin, HandlerInWalk
    <3>2. CASE ~(observers[c] = "port" /\ cookie = c)
      BY <3>2 DEF CallbackBegin, HandlerInWalk
    <3> QED  BY <3>1, <3>2
  <2> QED  BY <1>4, <2>1, <2>2 DEF Callbacks
<1> QED  BY <1>1, <1>2, <1>3, <1>4, NextSteps
-----------------------------------------------------------------------------
\* What the stream knows of its session.

\* A step that leaves the session alone, or takes bytes out of its queue, or puts
\* one in, does not change whether it is ready.
SameSession == UNCHANGED << type, iface, cfg, cfg21, given, silenced >> /\ (mq' # NoQueue <=> mq # NoQueue)

LEMMA SameReady ==
  ASSUME SameSession
  PROVE  /\ IsSessionReady' <=> IsSessionReady
         /\ ReadyHasConfig => ReadyHasConfig'
         /\ iface' = iface /\ silenced' = silenced
<1>1. IsSessionReady' <=> IsSessionReady
  BY DEF SameSession, IsSessionReady
<1>2. UNCHANGED << type, cfg, cfg21, given >>
  BY DEF SameSession
<1>3. IsSessionReady => GetAudioConfig' = GetAudioConfig
  BY <1>1, <1>2 DEF GetAudioConfig
<1>4. ReadyHasConfig => ReadyHasConfig'
  BY <1>1, <1>2, <1>3 DEF ReadyHasConfig
<1> QED  BY <1>1, <1>4 DEF SameSession

LEMMA LightSame ==
  ASSUME StreamInTypeOK, LightSession
  PROVE  SameSession /\ UNCHANGED << walk, observers >>
<1>1. UNCHANGED SessionRest
  BY DEF LightSession
<1>2. mq' # NoQueue <=> mq # NoQueue
  <2>1. mq \in Int  BY HidlAssumption DEF StreamInTypeOK, HidlTypeOK, NoQueue
  <2>2. mq' = mq \/ (mq > 0 /\ mq' \in 0..mq)  BY DEF LightSession
  <2> QED  BY <2>1, <2>2 DEF NoQueue
<1> QED  BY <1>1, <1>2 DEF SameSession, SessionRest

\* Every step but the start and the end of a session leaves it the same.
LEMMA SessionSame ==
  ASSUME InputInv, Next
  PROVE  SameSession \/ (SessionStep /\ (StackStarts \/ OnSessionEnded))
<1>a. StreamInTypeOK  BY DEF InputInv
<1>1. CASE ReaderEffect \/ ControlEffect
  BY <1>1, <1>a, LightSame DEF ReaderEffect, ControlEffect
<1>2. CASE LifeStep
  BY <1>2 DEF LifeStep, OpenClose, CallOpen, CallClose, OpenRegister, OpenCookie, OpenConfig,
     OpenDone, StopSet, StopCall, TearDown, TearDownCookie, sessionVars, RegisterStatusCback,
     UnregisterStatusCback, StreamCall, SameSession
<1>3. CASE SessionStep
  <2>1. CASE StackProduces
    <3>1. mq \in Int /\ mq # NoQueue /\ mq' = mq + 1 /\ mq >= NoQueue
      BY <1>a, <2>1, HidlAssumption DEF StackProduces, StreamInTypeOK, HidlTypeOK, NoQueue
    <3>2. mq' # NoQueue
      BY <3>1 DEF NoQueue
    <3> QED  BY <2>1, <3>1, <3>2 DEF StackProduces, SameSession
  <2> QED  BY <1>3, <2>1 DEF SessionStep, ReportControlStatus, OtherRegisters, OtherUnregisters,
     RegisterStatusCback, UnregisterStatusCback, SameSession
<1>4. CASE Callbacks
  BY <1>4 DEF Callbacks, CallbackBegin, CallbackEnd, SameSession
<1> QED  BY <1>1, <1>2, <1>3, <1>4, NextSteps

LEMMA ConfigKept ==
  ASSUME InputInv, Next
  PROVE  ReadyHasConfig'
<1>a. StreamInTypeOK /\ ReadyHasConfig  BY DEF InputInv
<1>1. CASE SameSession
  BY <1>1, <1>a, SameReady
<1>2. CASE OnSessionEnded
  BY <1>2 DEF OnSessionEnded, ReadyHasConfig, IsSessionReady
<1>3. CASE StackStarts
  <2>0. UNCHANGED type
    BY <1>a, <1>3, StartsStep
  <2>1. CASE StartRefused
    BY <1>1, <2>0, <2>1 DEF StartRefused, SameSession
  <2>2. CASE StartFails
    BY <2>0, <2>2 DEF StartFails, ReadyHasConfig, IsSessionReady
  <2>3. CASE StartSucceeds
    <3>1. given' \in Configs /\ given'.tag = (IF type = "A2DP_OFFLOAD" THEN "codec" ELSE "pcm")
      BY <2>3 DEF StartSucceeds
    <3>2. To20(given').tag = given'.tag
      BY <3>1 DEF To20, Configs
    <3>3. (IF Is21(type') THEN cfg21' ELSE cfg') = IF Is21(type') THEN given' ELSE To20(given')
      BY <2>0, <2>3 DEF StartSucceeds, SetConfig
    <3> QED  BY <2>0, <3>1, <3>2, <3>3 DEF ReadyHasConfig, GetAudioConfig
  <2> QED  BY <1>a, <1>3, <2>1, <2>2, <2>3, StartsStep
<1> QED  BY <1>1, <1>2, <1>3, SessionSame

LEMMA SessionKeptStep ==
  ASSUME InputInv, Next
  PROVE  SessionKept'
<1>a. StreamInTypeOK /\ SessionKept  BY DEF InputInv
<1>1. CASE SameSession
  <2>1. iface' /\ ~IsSessionReady' => silenced'
    BY <1>a, <1>1, SameReady DEF SessionKept
  <2>2. walk'.todo # {} /\ walk'.kind # "session" => iface'
    <3>0. iface' = iface  BY <1>1, SameReady
    <3>1. CASE walk' = walk
      BY <1>a, <3>0, <3>1 DEF SessionKept
    <3>2. CASE ReaderEffect \/ ControlEffect
      BY <3>1, <3>2 DEF ReaderEffect, ControlEffect, LightSession, SessionRest
    <3>3. CASE LifeStep
      BY <3>1, <3>3 DEF LifeStep, OpenClose, CallOpen, CallClose, OpenRegister, OpenCookie, OpenConfig,
         OpenDone, StopSet, StopCall, TearDown, TearDownCookie, sessionVars, RegisterStatusCback,
         UnregisterStatusCback, StreamCall
    <3>4. CASE SessionStep
      <4>1. CASE StackStarts
        BY <1>a, <3>1, <4>1, StartsStep, Reported DEF StartRefused, StartFails, StartSucceeds
      <4>2. CASE OnSessionEnded
        BY <1>a, <3>1, <4>2, Reported DEF OnSessionEnded
      <4>3. CASE \E kind \in {"start", "suspend"}, status \in {"SUCCESS", "FAILURE"} :
                   ReportControlStatus(kind, status)
        BY <3>0, <4>3 DEF ReportControlStatus
      <4> QED  BY <3>1, <3>4, <4>1, <4>2, <4>3 DEF SessionStep, StackProduces, OtherRegisters,
         OtherUnregisters, RegisterStatusCback, UnregisterStatusCback
    <3>5. CASE Callbacks
      <4>1. walk' = walk \/ (walk'.todo # {} => walk'.kind = walk.kind /\ walk.todo # {})
        BY <1>a, <3>5, CalledBack DEF Callbacks, CallbackBegin, CallbackEnd, InputInv, HandlerInWalk
      <4> QED  BY <1>a, <3>0, <3>1, <4>1 DEF SessionKept
    <3> QED  BY <3>2, <3>3, <3>4, <3>5, NextSteps
  <2> QED  BY <2>1, <2>2 DEF SessionKept
<1>2. CASE OnSessionEnded
  <2>1. ~iface' /\ Unlocked
    BY <1>2 DEF OnSessionEnded
  <2>2. walk' = walk \/ (walk'.todo # {} => walk'.kind = "session")
    BY <1>2, <1>a, Reported DEF OnSessionEnded
  <2> QED  BY <2>1, <2>2 DEF SessionKept, Unlocked
<1>3. CASE StackStarts
  <2>0. UNCHANGED type /\ Unlocked
    BY <1>a, <1>3, StartsStep
  <2>1. CASE StartRefused
    BY <1>1, <2>0, <2>1 DEF StartRefused, SameSession
  <2>2. CASE StartFails
    BY <1>a, <2>0, <2>2 DEF StartFails, SessionKept, Unlocked
  <2>3. CASE StartSucceeds
    <3>1. iface' /\ IsSessionReady'
      BY <2>0, <2>3 DEF StartSucceeds, IsSessionReady, NoQueue
    <3> QED  BY <3>1 DEF SessionKept
  <2> QED  BY <1>a, <1>3, <2>1, <2>2, <2>3, StartsStep
<1> QED  BY <1>1, <1>2, <1>3, SessionSame

LEMMA KnowsKept ==
  ASSUME InputInv, Next
  PROVE  InputKnowsSession'
<1>a. StreamInTypeOK /\ Life /\ HandlerInWalk /\ SessionKept /\ InputKnowsSession /\ Heeded
  BY DEF InputInv
<1>b. CASE ~(obj' = "open" /\ state' = "STARTED")
  BY <1>b DEF InputKnowsSession
<1>c. CASE obj = "open" /\ state = "STARTED" /\ SameSession /\ UNCHANGED << walk, cookie >>
  BY <1>a, <1>c, SameReady DEF InputKnowsSession
<1>1. CASE ReaderEffect \/ ControlEffect
  <2>1. obj = "open" /\ UNCHANGED << walk, cookie >> /\ SameSession
    BY <1>1, <1>a, LightSame DEF ReaderEffect, ControlEffect
  <2>2. state' = "STARTED" => state = "STARTED"
    BY <1>1 DEF ReaderEffect, ControlEffect
  <2> QED  BY <1>b, <1>c, <2>1, <2>2
<1>2. CASE LifeStep
  <2>1. CASE OpenDone
    <3>1. pc[Control] = "open.done" /\ state' = state
      BY <2>1 DEF OpenDone, portVars
    <3>2. obj = "opening"
      BY <1>a, <3>1 DEF StreamInTypeOK, Life, ClosingLabels, ControlLabels, ControlLocked
    <3> QED  BY <1>a, <1>b, <3>1, <3>2 DEF Life
  <2>2. CASE ~OpenDone
    <3>1. obj' # "open"
      BY <1>2, <1>a, <2>2 DEF LifeStep, OpenClose, CallOpen, CallClose, OpenRegister, OpenCookie,
         OpenConfig, StopSet, StopCall, TearDown, TearDownCookie, Stage, streamVars,
         Life, ControlLabels, ControlLocked
    <3> QED  BY <1>b, <3>1
  <2> QED  BY <2>1, <2>2
<1>3. CASE SessionStep
  <2>0. UNCHANGED << obj, state, cookie >>
    BY <1>3 DEF SessionStep, portVars, streamVars
  <2>1. CASE obj = "open" /\ state = "STARTED"
    <3>0. cookie \in Registered
      BY <2>1, OpenEnrolled DEF Registered
    <3>1. CASE StackStarts
      <4>1. UNCHANGED type /\ Unlocked
        BY <1>a, <3>1, StartsStep
      <4>2. IsSessionReady \/ silenced
        BY <1>a, <2>1, <4>1 DEF InputKnowsSession, Unlocked
      <4>3. CASE StartRefused
        BY <1>c, <2>0, <2>1, <4>1, <4>3 DEF StartRefused, SameSession
      <4>4. CASE StartFails
        BY <4>2, <4>4 DEF StartFails, InputKnowsSession
      <4>5. CASE StartSucceeds
        BY <4>1, <4>5 DEF StartSucceeds, InputKnowsSession, IsSessionReady, NoQueue
      <4> QED  BY <1>a, <3>1, <4>3, <4>4, <4>5, StartsStep
    <3>2. CASE OnSessionEnded
      <4>1. Unlocked /\ UNCHANGED silenced
        BY <3>2 DEF OnSessionEnded
      <4>2. CASE IsSessionReady
        <5>1. Report("session", "none")
          BY <3>2, <4>2 DEF OnSessionEnded
        <5>2. walk'.kind = "session" /\ cookie \in walk'.todo
          BY <1>a, <3>0, <5>1, Reported
        <5> QED  BY <2>0, <5>2 DEF InputKnowsSession
      <4>3. CASE ~IsSessionReady
        BY <1>a, <2>1, <4>1, <4>3 DEF InputKnowsSession, Unlocked
      <4> QED  BY <4>2, <4>3
    <3>3. CASE ~(StackStarts \/ OnSessionEnded)
      <4>1. SameSession
        BY <3>3, SessionSame
      <4>2. CASE UNCHANGED walk
        BY <1>c, <2>0, <2>1, <4>1, <4>2
      <4>3. CASE Unlocked
        BY <1>a, <2>0, <2>1, <4>1, <4>3, SameReady DEF InputKnowsSession, Unlocked
      <4> QED  BY <1>3, <3>3, <4>2, <4>3 DEF SessionStep, ReportControlStatus, StackProduces,
         OtherRegisters, OtherUnregisters, RegisterStatusCback, UnregisterStatusCback
    <3> QED  BY <3>1, <3>2, <3>3
  <2> QED  BY <1>b, <2>0, <2>1
<1>4. CASE Callbacks
  <2>0. SameSession /\ UNCHANGED << obj, cookie >>
    BY <1>4 DEF Callbacks, CallbackBegin, CallbackEnd, SameSession, streamVars
  <2>1. CASE \E c \in Cookies : CallbackBegin(c)
    <3> PICK c \in Cookies : CallbackBegin(c)  BY <2>1
    <3>1. state' = state
      BY DEF CallbackBegin
    <3>2. CASE obj = "open" /\ state = "STARTED"
      <4>1. CASE UNCHANGED walk
        BY <1>c, <2>0, <3>2, <4>1
      <4>2. CASE walk' # walk
        <5>1. CallbackDone(c) /\ c \in walk.todo /\ ~(observers[c] = "port" /\ cookie = c)
          BY <4>2 DEF CallbackBegin
        <5>2. c # cookie
          BY <3>2, <5>1, OpenEnrolled
        <5>3. walk'.todo = walk.todo \ {c} /\ (walk'.todo # {} => walk'.kind = walk.kind)
          BY <1>a, <5>1, CalledBack
        <5> QED  BY <1>a, <2>0, <3>2, <5>2, <5>3, SameReady DEF InputKnowsSession
      <4> QED  BY <4>1, <4>2
    <3> QED  BY <1>b, <2>0, <3>1, <3>2
  <2>2. CASE CallbackEnd
    <3>1. CASE obj = "open" /\ state' = "STARTED"
      <4>1. walk.kind # "session" /\ hdl.cookie \in walk.todo
        BY <1>a, <2>2, <3>1 DEF CallbackEnd, HandlerInWalk
      <4>2. iface
        BY <1>a, <4>1 DEF SessionKept
      <4> QED  BY <1>a, <2>0, <4>2, SameReady DEF SessionKept, InputKnowsSession
    <3> QED  BY <1>b, <2>0, <3>1
  <2> QED  BY <1>4, <2>1, <2>2 DEF Callbacks
<1> QED  BY <1>1, <1>2, <1>3, <1>4, NextSteps
-----------------------------------------------------------------------------
\* Standby against start.
LEMMA HeededKept ==
  ASSUME InputInv, Next
  PROVE  Heeded'
<1>a. StreamInTypeOK /\ Life /\ LocksHeld /\ Heeded /\ HandlerInWalk  BY DEF InputInv
<1>b. pc \in [Threads -> Labels] /\ Threads = {Reader, Control} /\ Reader # Control
  BY <1>a, ThreadsTyped
<1>1. CASE ReaderEffect
  <2>1. PICK l \in ReaderLabels, n \in Nat : ReaderGoes(l, n)
    BY <1>1, Zenon DEF ReaderEffect
  <2>2. pc'[Control] = pc[Control] /\ UNCHANGED << obj, hdl >>
    BY <1>1, <1>b, <2>1 DEF ReaderEffect, ReaderGoes
  <2>3. CASE UNCHANGED << state, standby >>
    BY <1>a, <2>2, <2>3 DEF Heeded, NotStarting, Quiet
  <2>4. CASE pc[Reader] = "start.set" /\ state' = "STARTING" /\ standby' = "none"
    <3>1. pc[Control] \notin ControlLocked
      BY <1>a, <1>b, <2>4 DEF LocksHeld, ReaderLocked
    <3> QED  BY <2>2, <2>4, <3>1 DEF Heeded, ControlLocked
  <2> QED  BY <1>1, <2>3, <2>4 DEF ReaderEffect
<1>2. CASE in_standby \/ in_get_capture_position \/ CallStandby \/ CallPosition
  <2>0. UNCHANGED << obj, hdl >> /\ obj = "open" /\ in_use
    <3>1. ControlEffect
      BY <1>2, ControlSteps
    <3> QED  BY <3>1, OpenEnrolled DEF ControlEffect, in_use, Cookies, Undefined
  <2>1. CASE StandbyPoll
    <3>1. UNCHANGED state
      BY <2>1 DEF StandbyPoll, TransitionPoll, portVars
    <3>2. CASE state = "STARTING"
      BY <2>0, <2>1, <3>1, <3>2, <1>b DEF StandbyPoll, TransitionPoll, Goto, Heeded
    <3>3. CASE state # "STARTING"
      BY <1>a, <1>b, <2>0, <2>1, <3>1, <3>3 DEF StandbyPoll, TransitionPoll, Goto, Heeded, NotStarting
    <3> QED  BY <3>2, <3>3
  <2>2. CASE StandbySleep \/ StandbyGivesUp \/ StandbyEnd \/ in_get_capture_position \/ CallStandby \/ CallPosition
    <3>1. pc'[Control] \in {"standby.poll", "standby.giveup", "idle", "position"} /\ UNCHANGED state
      BY <2>2, <1>b DEF StandbySleep, TransitionSleep, StandbyGivesUp, StandbyEnd,
         in_get_capture_position, Return, CallStandby, CallPosition, Locked, Goto, portVars
    <3> QED  BY <1>a, <2>0, <3>1 DEF Heeded
  <2>3. CASE StandbyCheck
    <3>1. /\ UNCHANGED << state, standby >>
          /\ \/ pc[Control] = "standby.check" /\ pc'[Control] = "susp.check"
             \/ pc[Control] = "standby.check" /\ state # "STARTED" /\ pc'[Control] = "standby.check2"
             \/ pc[Control] = "standby.check2" /\ pc'[Control] \in {"standby.poll2", "standby.end"}
      BY <2>3, <1>b DEF StandbyCheck, Continue, Goto, portVars, streamVars
    <3> QED  BY <1>a, <2>0, <3>1 DEF Heeded, NotStarting, Quiet
  <2>4. CASE StandbyPoll2
    <3>1. UNCHANGED << state, standby >> /\ pc[Control] = "standby.poll2" /\ pc'[Control] = "standby.wait"
      BY <2>4, <1>b DEF StandbyPoll2, Goto, portVars, streamVars
    <3> QED  BY <1>a, <2>0, <3>1 DEF Heeded, NotStarting, Quiet
  <2>5. CASE StandbyWait \/ StandbySleep2
    <3>1. /\ UNCHANGED << state, standby >> /\ pc[Control] \in {"standby.wait", "standby.sleep2"}
          /\ pc'[Control] \in {"standby.wait", "standby.sleep2", "standby.end", "standby.giveup"}
      BY <2>5, <1>b DEF StandbyWait, StandbySleep2, TransitionPoll, TransitionSleep, Locked, Goto, portVars, streamVars
    <3> QED  BY <1>a, <2>0, <3>1 DEF Heeded, NotStarting, Quiet
  <2>6. CASE SuspendCheck(Control)
    <3>1. /\ UNCHANGED << state, standby >> /\ pc[Control] = "susp.check"
          /\ \/ pc'[Control] = "susp.set"
             \/ pc'[Control] = "standby.poll2" /\ state # "STARTED"
      BY <2>6, <2>0, <1>b DEF SuspendCheck, Continue, Goto, portVars, streamVars
    <3> QED  BY <1>a, <2>0, <3>1 DEF Heeded, NotStarting, Quiet
  <2>7. CASE SuspendSet(Control)
    <3>1. state' = "SUSPENDING" /\ pc[Control] = "susp.set" /\ pc'[Control] = "susp.call"
      BY <2>7, <1>b DEF SuspendSet, Continue, Goto
    <3> QED  BY <1>a, <2>0, <3>1 DEF Heeded, NotStarting, Quiet
  <2>8. CASE SuspendCall(Control) \/ SuspendWait(Control)
    <3>1. /\ UNCHANGED << state, standby >> /\ pc[Control] \in {"susp.call", "susp.wait"}
          /\ pc'[Control] \in {"susp.wait", "standby.poll2"}
      BY <2>8, <1>b DEF SuspendCall, SuspendWait, Continue, Goto, portVars, streamVars
    <3> QED  BY <1>a, <2>0, <3>1 DEF Heeded, NotStarting, Quiet
  <2> QED  BY <1>2, <2>1, <2>2, <2>3, <2>4, <2>5, <2>6, <2>7, <2>8 DEF in_standby
<1>3. CASE LifeStep
  <2>0. hdl' = hdl /\ pc'[Control] \notin ControlLocked \union Polling
    BY <1>3, <1>b, LifeMoves
  <2>1. CASE OpenDone
    <3>1. pc[Control] = "open.done" /\ state' = state
      BY <2>1 DEF OpenDone, portVars
    <3>2. obj = "opening"
      BY <1>a, <3>1 DEF StreamInTypeOK, Life, ClosingLabels, ControlLabels, ControlLocked
    <3> QED  BY <1>a, <2>0, <3>1, <3>2 DEF Life, Heeded, ControlLocked, Polling
  <2>2. CASE ~OpenDone
    <3>1. obj' # "open"
      BY <1>3, <1>a, <2>2 DEF LifeStep, OpenClose, CallOpen, CallClose, OpenRegister, OpenCookie,
         OpenConfig, StopSet, StopCall, TearDown, TearDownCookie, Stage, streamVars,
         Life, ControlLabels, ControlLocked
    <3> QED  BY <2>0, <3>1 DEF Heeded, ControlLocked, Polling
  <2> QED  BY <2>1, <2>2
<1>4. CASE SessionStep
  BY <1>4, <1>a DEF SessionStep, portVars, threadVars, streamVars, Heeded, NotStarting, Quiet
<1>5. CASE Callbacks
  <2>0. UNCHANGED << obj, pc, standby >>
    BY <1>5 DEF Callbacks, CallbackBegin, CallbackEnd, threadVars, streamVars
  <2>1. CASE \E c \in Cookies : CallbackBegin(c)
    <3>1. state' = state /\ (hdl' = hdl \/ hdl'.prev = state)
      BY <2>1 DEF CallbackBegin
    <3> QED  BY <1>a, <2>0, <3>1 DEF Heeded, NotStarting, Quiet
  <2>2. CASE CallbackEnd
    <3>1. hdl'.prev = "DISABLED"
      BY <2>2 DEF CallbackEnd, NoHandler
    <3>2. /\ state' = "STARTED" => hdl.prev = "STARTING" \/ state = "STARTED"
          /\ state' = "STARTING" => state = "STARTING"
      BY <2>2 DEF CallbackEnd, ControlResultState
    <3> QED  BY <1>a, <2>0, <3>1, <3>2 DEF Heeded, NotStarting, Quiet
  <2> QED  BY <1>5, <2>1, <2>2 DEF Callbacks
<1> QED
  BY <1>1, <1>2, <1>3, <1>4, <1>5, ReaderSteps DEF Next, Calls, ThreadStep, LifeStep, Threads

-----------------------------------------------------------------------------
\* The invariant holds at the start, is kept by every step of the threads, the
\* callbacks and the stack, and by steps that change nothing.
LEMMA InputInitial ==
  ASSUME Init
  PROVE  InputInv
<1> USE StreamInAssumption, HidlAssumption
<1>1. /\ type \in SessionTypes /\ iface = FALSE /\ mq = NoQueue /\ cfg = InvalidSoftware
      /\ cfg21 = InvalidSoftware /\ observers = [c \in Cookies |-> "none"] /\ walk = NoWalk
      /\ requests = {} /\ given = InvalidSoftware /\ silenced = FALSE
  BY DEF Init, SessionInit
<1>2. /\ state = "DISABLED" /\ cookie = Undefined /\ hdl = NoHandler /\ obj = "none"
      /\ presented = 0 /\ lock = "none" /\ pc = [t \in Threads |-> "idle"]
      /\ polls = [t \in Threads |-> 0] /\ total = 0 /\ standby = "none"
  BY DEF Init
<1>3. HidlTypeOK
  <2>1. mq \in NoQueue..QueueSize
    BY <1>1 DEF NoQueue
  <2>2. walk \in [kind : {"none", "session", "start", "suspend"},
               status : {"none", "SUCCESS", "FAILURE"}, todo : SUBSET Cookies]
    BY <1>1 DEF NoWalk
  <2> QED  BY <1>1, <2>1, <2>2, ConfigsTyped DEF HidlTypeOK
<1>4. StreamInTypeOK
  BY <1>2, <1>3 DEF StreamInTypeOK, States, NoHandler, Labels, Undefined
<1>5. pc[Reader] = "idle" /\ pc[Control] = "idle" /\ \A t \in Threads : pc[t] = "idle"
  BY <1>2 DEF Threads
<1>6. Life
  BY <1>2, <1>5 DEF Life, ReaderLabels
<1>7. SleepLeft /\ LocksHeld
  BY <1>5 DEF SleepLeft, LocksHeld, Polling, ReaderLocked, ControlLocked
<1>8. Registration /\ HandlerInWalk
  BY <1>1, <1>2 DEF Registration, HandlerInWalk, Enrolled, NoWalk
<1>9. SessionKept /\ ReadyHasConfig /\ InputKnowsSession
  BY <1>1, <1>2 DEF SessionKept, ReadyHasConfig, InputKnowsSession, IsSessionReady, NoWalk
<1>10. Heeded
  BY <1>2, <1>5 DEF Heeded, NoHandler
<1> QED  BY <1>4, <1>6, <1>7, <1>8, <1>9, <1>10 DEF InputInv

LEMMA InputStutters ==
  ASSUME InputInv, UNCHANGED vars
  PROVE  InputInv'
<1> USE DEF vars, sessionVars, portVars, threadVars, streamVars
<1>1. StreamInTypeOK'  BY DEF InputInv, StreamInTypeOK, HidlTypeOK
<1>2. Life' /\ SleepLeft' /\ LocksHeld'  BY DEF InputInv, Life, SleepLeft, LocksHeld
<1>3. Registration' /\ HandlerInWalk'
  BY DEF InputInv, Registration, HandlerInWalk, Enrolled, MyCookie, in_use
<1>4. IsSessionReady' = IsSessionReady /\ GetAudioConfig' = GetAudioConfig
  BY DEF IsSessionReady, GetAudioConfig
<1>5. SessionKept' /\ ReadyHasConfig' /\ InputKnowsSession'
  BY <1>4 DEF InputInv, SessionKept, ReadyHasConfig, InputKnowsSession
<1>6. Heeded'  BY DEF InputInv, Heeded, NotStarting, Quiet
<1> QED  BY <1>1, <1>2, <1>3, <1>5, <1>6 DEF InputInv

\* The inductive invariant of the input stream, its port and the HIDL session
\* (hw/stream_apis.cc, hw/device_port_proxy_hidl.cc, utils/session) holds in every
\* reachable state.
THEOREM InputInvariant == Spec => []InputInv
<1>1. Init => InputInv
  BY InputInitial
<1>2. InputInv /\ [Next]_vars => InputInv'
  <2>1. ASSUME InputInv, Next PROVE InputInv'
    BY <2>1, TypesStep, LifeKept, SleepsKept, LocksKept, RegistrationKept, HandlerKept, SessionKeptStep,
       ConfigKept, KnowsKept, HeededKept DEF InputInv
  <2> QED  BY <2>1, InputStutters
<1> QED  BY <1>1, <1>2, PTL DEF Spec

\* A HIDL session that is ready answers GetAudioConfig with the configuration it
\* was started with, however many starts have failed since.
THEOREM ReadyAlwaysHasConfig == Spec => []ReadyHasConfig
<1>1. InputInv => ReadyHasConfig
  BY DEF InputInv
<1> QED  BY <1>1, InputInvariant, PTL

\* No callback of the session runs on an input port that has been destroyed, and
\* an open stream is known to its session under its cookie.
THEOREM NeverDanglingPort == Spec => []NoDanglingPort
<1>1. InputInv => NoDanglingPort
  <2> SUFFICES ASSUME InputInv PROVE NoDanglingPort
    OBVIOUS
  <2>1. StreamInTypeOK /\ \A c \in walk.todo : observers[c] # "none"
    BY DEF InputInv, Registration
  <2>2. \A c \in Cookies : observers[c] = "port" =>
          obj # "none" /\ (cookie = c \/ (pc[Control] = "open.cookie" /\ polls[Control] = c))
    BY DEF InputInv, Registration, Enrolled, MyCookie
  <2>3. obj = "open" => in_use /\ observers[cookie] = "port"
    BY OpenEnrolled DEF in_use, Cookies, Undefined
  <2>4. hdl # NoHandler => obj # "none" /\ observers[hdl.cookie] = "port" /\ cookie = hdl.cookie
    <3>1. hdl # NoHandler =>
            hdl.cookie \in walk.todo /\ observers[hdl.cookie] = "port" /\ cookie = hdl.cookie
      BY DEF InputInv, HandlerInWalk
    <3>2. walk.todo \subseteq Cookies
      BY <2>1 DEF StreamInTypeOK, HidlTypeOK
    <3> QED  BY <2>2, <3>1, <3>2
  <2> QED  BY <2>1, <2>2, <2>3, <2>4 DEF NoDanglingPort
<1> QED  BY <1>1, InputInvariant, PTL

\* An open input stream that believes it is STARTED has a session, or is about to
\* hear that it has none, unless a failed start has taken the queue in silence.
THEOREM InputAlwaysKnows == Spec => []InputKnowsSession
<1>1. InputInv => InputKnowsSession
  BY DEF InputInv
<1> QED  BY <1>1, InputInvariant, PTL

\* in_standby that returns without having given up leaves a stream that is neither
\* started nor about to be, unless a read has started it again.
THEOREM StandbyAlwaysHeeded == Spec => []StandbyHeeded
<1>1. InputInv => StandbyHeeded
  BY DEF InputInv, Heeded, NotStarting, Quiet, StandbyHeeded
<1> QED  BY <1>1, InputInvariant, PTL

\* What in_calculate_starving_delay_ms takes for the frames presented is never
\* more than the client has read.
LEMMA StarvingDelayBounded ==
  ASSUME presented \in Nat, NEW frames \in Nat, NEW latency \in Nat
  PROVE  StarvingDelay(frames, latency) \in 0..presented
BY DEF StarvingDelay

\* The capture position reported is never beyond what the client has read,
\* whatever counters the stack reports.
THEOREM PositionAlwaysSane == Spec => []PositionSane
<1>1. InputInv => PositionSane
  <2> SUFFICES ASSUME InputInv, NEW pos \in CapturePositions PROVE pos \in 0..presented
    BY DEF PositionSane
  <2>1. presented \in Nat  BY DEF InputInv, StreamInTypeOK
  <2>2. Latency \in Nat /\ MaxFrames \in Nat /\ 0 \in Nat  BY StreamInAssumption
  <2>3. \E frames \in Nat, latency \in Nat : pos = StarvingDelay(frames, latency)
    BY <2>2 DEF CapturePositions
  <2> QED  BY <2>1, <2>3, StarvingDelayBounded
<1> QED  BY <1>1, InputInvariant, PTL
=============================================================================
