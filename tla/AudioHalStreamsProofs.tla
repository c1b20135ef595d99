------------------------ MODULE AudioHalStreamsProofs ------------------------
(***************************************************************************)
(* Proofs about the streams of the HIDL audio service, for any number of   *)
(* streams, any queue size, any set of commands and every version of the   *)
(* interface.                                                              *)
(*                                                                         *)
(* The properties are not inductive by themselves.  AudioInv adds what the *)
(* code relies on without saying so: Life, when a legacy stream is open,   *)
(* by the state of its wrapper, the version and the stop flag; Turns, that *)
(* a command is in one place at a time and a live client that is not       *)
(* waiting has none; Carried, where the bytes of a data queue belong; and  *)
(* Accounts, what the Device's counter and the values about to be stored   *)
(* in it are worth while no updates, or only those of closes, overlap.     *)
(***************************************************************************)
EXTENDS AudioHalStreams, FiniteSetTheorems, TLAPS

Ops == WriteCommands \cup ReadCommands \cup {"none"}
Messages == [op : Ops, ret : Results, n : Nat]

\* Types, the exact ones of queues and commands included.
Types ==
  /\ major \in Nat /\ major \in MajorVersions
  /\ dev \in [alive : BOOLEAN, ref : BOOLEAN, closed : BOOLEAN, count : 0 .. MaxCount, hal : BOOLEAN]
  /\ upd \in [Streams -> {NoUpdate} \cup 0 .. MaxCount] /\ raced \in {"none", "closes", "opens"}
  /\ obj \in [Streams -> {"none", "opening", "open", "destructor", "leaving"}]
  /\ stop \in [Streams -> BOOLEAN] /\ closing \in [Streams -> BOOLEAN] /\ mq \in [Streams -> BOOLEAN]
  /\ ef \in [Streams -> SUBSET {NOT_EMPTY, NOT_FULL}]
  /\ cmd \in [Streams -> Seq(Messages)] /\ sts \in [Streams -> Seq(Messages)]
  /\ data \in [Streams -> Nat]
  /\ pc \in [Streams -> {"none", "loop", "wait", "call", "reply", "exit"}]
  /\ cur \in [Streams -> Messages]
  /\ hal \in [Streams -> {"open", "closed"}]
  /\ cb \in [Streams -> BOOLEAN] /\ inCb \in [Streams -> BOOLEAN]
  /\ client \in [Streams -> {"idle", "sent", "waiting", "closing"}]
  /\ dead \in BOOLEAN

\* When the legacy stream is open, and what close() and the destructor have done.
Life(s) ==
  /\ hal[s] = "open" <=>
       \/ obj[s] = "opening"
       \/ obj[s] = "leaving" /\ upd[s] = NoUpdate
       \/ obj[s] \in {"open", "destructor"} /\ (~stop[s] \/ (closing[s] /\ upd[s] = NoUpdate) \/ major <= 5)
  /\ upd[s] # NoUpdate <=> obj[s] = "opening" \/ (closing[s] /\ hal[s] # "open")
  /\ obj[s] = "opening" => ~closing[s] /\ ~stop[s]
  /\ closing[s] => stop[s] /\ (obj[s] = "leaving" \/ (major >= 6 /\ obj[s] \in {"open", "destructor"}))
  /\ obj[s] = "leaving" => closing[s]
  /\ obj[s] \in {"destructor", "leaving"} => stop[s]
  /\ inCb[s] => hal[s] = "open"
  /\ obj[s] # "none" => dev.alive
  /\ obj[s] \in {"none", "opening", "leaving"} => Joined(s)

\* Where a command is: in its queue, with the thread, or answered.
Asked(s) == cmd[s] # << >>
Busy(s) == pc[s] \in {"call", "reply"}
Answered(s) == sts[s] # << >>

Turns(s) ==
  /\ client[s] # "idle" => obj[s] = "open" /\ ~dead
  /\ client[s] \in {"sent", "waiting"} => ~stop[s]
  /\ client[s] = "closing" => closing[s]
  /\ ~(Asked(s) /\ Busy(s)) /\ ~(Asked(s) /\ Answered(s)) /\ ~(Busy(s) /\ Answered(s))
  /\ ~dead /\ client[s] \in {"idle", "closing"} => ~Asked(s) /\ ~Busy(s) /\ ~Answered(s)
  /\ obj[s] \in {"none", "opening", "leaving"} => ~Asked(s) /\ ~Answered(s) /\ data[s] = 0

\* The messages in the queues, and the bytes that go with them.
Read(m) == m.op = "READ" /\ m.ret = "OK"
Carried(s) ==
  /\ data[s] <= QueueSize
  /\ Asked(s) => /\ Len(cmd[s]) = 1 /\ Head(cmd[s]).op \in Commands(s)
                 /\ Head(cmd[s]).ret = "OK"
  /\ Answered(s) => Len(sts[s]) = 1 /\ Head(sts[s]).op \in Commands(s)
  /\ cur[s].op \in Commands(s) \cup {"none"}
  /\ Busy(s) => cur[s].op \in Commands(s)
  /\ ~(Asked(s) /\ Head(cmd[s]).op = "WRITE") =>
       data[s] = IF pc[s] = "reply" /\ Read(cur[s]) THEN cur[s].n
                 ELSE IF Answered(s) /\ Read(Head(sts[s])) THEN Head(sts[s]).n ELSE 0
  /\ pc[s] = "call" => cur[s].ret = "OK" /\ (cur[s].op = "READ" => cur[s].n <= QueueSize)

\* The Device's counter, as far as the updates of it have not overlapped.
Pending(s) == upd[s] # NoUpdate

Exact ==
  /\ dev.count = Cardinality(Counted)
  /\ \A s, t \in Streams : Pending(s) /\ Pending(t) => s = t
  /\ \A s \in Streams : Pending(s) =>
       upd[s] = IF hal[s] = "open" THEN Cardinality(Counted) + 1 ELSE Cardinality(Counted) - 1
  /\ ~dev.alive => ~dev.hal

Enough ==
  /\ dev.count >= Cardinality(Counted)
  /\ \A s, t \in Streams : Pending(s) /\ hal[s] = "open" /\ Pending(t) => s = t
  /\ \A s \in Streams : Pending(s) =>
       upd[s] >= IF hal[s] = "open" THEN Cardinality(Counted) + 1 ELSE Cardinality(Counted) - 1
  /\ dev.closed => ~dev.hal /\ \A s \in Streams : hal[s] # "open"

Accounts ==
  /\ dev.ref => dev.alive
  /\ raced = "none" => Exact
  /\ raced # "opens" => Enough

AudioInv ==
  /\ Types
  /\ \A s \in Streams : Life(s) /\ Turns(s) /\ Carried(s)
  /\ Accounts
------------------------------------------------------------------------------
\* Steps of one stream.  A step of s leaves the other streams alone.
Same(t) ==
  /\ upd'[t] = upd[t] /\ obj'[t] = obj[t] /\ stop'[t] = stop[t] /\ closing'[t] = closing[t]
  /\ cmd'[t] = cmd[t] /\ data'[t] = data[t] /\ sts'[t] = sts[t]
  /\ pc'[t] = pc[t] /\ cur'[t] = cur[t] /\ hal'[t] = hal[t]
  /\ inCb'[t] = inCb[t] /\ client'[t] = client[t]

StreamInv(s) == Life(s) /\ Turns(s) /\ Carried(s)

LEMMA SameKeeps ==
  ASSUME NEW t \in Streams, StreamInv(t), Same(t), UNCHANGED << major, dead >>, dev'.alive = dev.alive
  PROVE  StreamInv(t)'
BY DEF StreamInv, Same, Life, Turns, Carried, Asked, Busy, Answered, Read, Joined

\* A step that leaves the legacy streams and the Device alone keeps the accounts.
LEMMA AccountsKept ==
  ASSUME Accounts, UNCHANGED << hal, dev, upd, raced >>
  PROVE  Accounts'
BY DEF Accounts, Exact, Enough, Pending, Counted

\* What remains to be shown of a step of stream s.
LEMMA StreamStep ==
  ASSUME NEW s \in Streams, AudioInv, Types', Accounts', StreamInv(s)',
         \A t \in Streams \ {s} : Same(t), UNCHANGED << major, dead >>, dev'.alive = dev.alive
  PROVE  AudioInv'
<1>1. ASSUME NEW t \in Streams PROVE StreamInv(t)'
  BY SameKeeps DEF AudioInv, StreamInv
<1> QED BY <1>1 DEF AudioInv, StreamInv

LEMMA PrepareKeeps ==
  ASSUME NEW s \in Streams, AudioInv, Prepare(s)
  PROVE  AudioInv'
<1>1. Types'
  BY DEF AudioInv, Types, Prepare, threadVars, callbackVars, countVars
<1>2. UNCHANGED << hal, dev, upd, raced, major, dead >> /\ \A t \in Streams \ {s} : Same(t)
  BY DEF AudioInv, Types, Same, Prepare, threadVars, callbackVars, countVars
<1>3. Life(s)'
  BY DEF AudioInv, Types, Life, Turns, Joined, Prepare, threadVars, callbackVars, countVars
<1>4. Turns(s)'
  BY DEF AudioInv, Types, Life, Turns, Asked, Busy, Answered, Joined, Prepare, threadVars, callbackVars, countVars
<1>5. Carried(s)'
  BY QueueAssumption DEF AudioInv, Types, Turns, Carried, Asked, Busy, Answered, Read, Joined, Prepare, threadVars, callbackVars, countVars
<1> QED BY <1>1, <1>2, <1>3, <1>4, <1>5, StreamStep, AccountsKept DEF StreamInv, AudioInv

LEMMA ClientSendsKeeps ==
  ASSUME NEW s \in Streams, AudioInv, ClientSends(s)
  PROVE  AudioInv'
<1>0. PICK op \in Commands(s), n \in 1 .. QueueSize + 1 :
        /\ op = "WRITE" => n <= QueueSize - data[s]
        /\ cmd' = [cmd EXCEPT ![s] = << [op |-> op, ret |-> "OK", n |-> n] >>]
        /\ data' = [data EXCEPT ![s] = IF op = "WRITE" THEN @ + n ELSE @]
  BY DEF ClientSends
<1> DEFINE m == [op |-> op, ret |-> "OK", n |-> n]
<1>m. m \in Messages /\ << m >> \in Seq(Messages) /\ n \in Nat
  BY CommandAssumption, QueueAssumption DEF Messages, Ops, Commands, Results
<1>1. Types'
  <2>1. cmd' \in [Streams -> Seq(Messages)] /\ data' \in [Streams -> Nat]
    BY <1>0, <1>m DEF AudioInv, Types
  <2> QED BY <2>1 DEF AudioInv, Types, ClientSends, threadVars, callbackVars, countVars
<1>2. UNCHANGED << hal, dev, upd, raced, major, dead >> /\ \A t \in Streams \ {s} : Same(t)
  BY <1>0 DEF AudioInv, Types, Same, ClientSends, threadVars, callbackVars, countVars
<1>3. Life(s)'
  BY DEF AudioInv, Types, Life, Turns, Joined, ClientSends, callbackVars, countVars
<1>4. Turns(s)'
  BY <1>0 DEF AudioInv, Types, Life, Turns, Asked, Busy, Answered, ClientSends
<1>5. Carried(s)'
  BY <1>0, QueueAssumption
     DEF AudioInv, Types, Turns, Carried, Asked, Busy, Answered, Read, ClientSends
<1> QED BY <1>1, <1>2, <1>3, <1>4, <1>5, StreamStep, AccountsKept DEF StreamInv, AudioInv

LEMMA ClientWakesKeeps ==
  ASSUME NEW s \in Streams, AudioInv, ClientWakes(s)
  PROVE  AudioInv'
<1>1. Types'
  BY DEF AudioInv, Types, ClientWakes, ThreadBit, threadVars, callbackVars, countVars
<1>2. UNCHANGED << hal, dev, upd, raced, major, dead >> /\ \A t \in Streams \ {s} : Same(t)
  BY DEF AudioInv, Types, Same, ClientWakes, ThreadBit, threadVars, callbackVars, countVars
<1>3. Life(s)'
  BY DEF AudioInv, Types, Life, Turns, Joined, ClientWakes, ThreadBit, threadVars, callbackVars, countVars
<1>4. Turns(s)'
  BY DEF AudioInv, Types, Life, Turns, Asked, Busy, Answered, Joined, ClientWakes, ThreadBit, threadVars, callbackVars, countVars
<1>5. Carried(s)'
  BY QueueAssumption DEF AudioInv, Types, Turns, Carried, Asked, Busy, Answered, Read, Joined, ClientWakes, ThreadBit, threadVars, callbackVars, countVars
<1> QED BY <1>1, <1>2, <1>3, <1>4, <1>5, StreamStep, AccountsKept DEF StreamInv, AudioInv

LEMMA ClientTakesKeeps ==
  ASSUME NEW s \in Streams, AudioInv, ClientTakes(s)
  PROVE  AudioInv'
<1>0. ef' \in [Streams -> SUBSET {NOT_EMPTY, NOT_FULL}]
  BY DEF AudioInv, Types, ClientTakes
<1>1. CASE sts[s] = << >>
  <2>1. UNCHANGED << sts, data, client >>
    BY <1>1 DEF ClientTakes
  <2>2. Types'
    BY <1>0, <2>1 DEF AudioInv, Types, ClientTakes, callbackVars, countVars
  <2>3. UNCHANGED << hal, dev, upd, raced, major, dead >> /\ (\A t \in Streams : Same(t))
    BY <2>1 DEF Same, ClientTakes, callbackVars, countVars
  <2>4. StreamInv(s)'
    BY <2>3, SameKeeps DEF AudioInv, StreamInv
  <2> QED BY <2>2, <2>3, <2>4, StreamStep, AccountsKept DEF AudioInv
<1>2. CASE sts[s] # << >>
  <2>0. Head(sts[s]) \in Messages /\ Head(sts[s]).n \in Nat /\ data[s] \in Nat
    <3>1. sts[s] \in Seq(Messages) /\ data[s] \in Nat
      BY DEF AudioInv, Types
    <3>2. Head(sts[s]) \in Messages
      BY <1>2, <3>1
    <3> QED BY <3>1, <3>2 DEF Messages
  <2>1. /\ sts' = [sts EXCEPT ![s] = << >>]
        /\ client' = [client EXCEPT ![s] = "idle"]
        /\ data' = [data EXCEPT ![s] = IF Read(Head(sts[s])) THEN @ - Least(@, Head(sts[s]).n) ELSE @]
    BY <1>2 DEF ClientTakes, Read
  <2>2. data'[s] = 0
    BY <1>2, <2>0, <2>1 DEF AudioInv, Types, Turns, Carried, Asked, Busy, Answered, Least
  <2>3. Types'
    <3>1. data' \in [Streams -> Nat]
      BY <2>0, <2>1 DEF AudioInv, Types, Least
    <3>2. sts' \in [Streams -> Seq(Messages)]
      BY <2>1 DEF AudioInv, Types
    <3>3. client' \in [Streams -> {"idle", "sent", "waiting", "closing"}]
      BY <2>1 DEF AudioInv, Types
    <3> QED BY <1>0, <3>1, <3>2, <3>3 DEF AudioInv, Types, ClientTakes, callbackVars, countVars
  <2>4. UNCHANGED << hal, dev, upd, raced, major, dead, cmd, pc, cur, obj, stop, closing, inCb >>
    BY DEF ClientTakes, callbackVars, countVars
  <2>5. \A t \in Streams \ {s} : Same(t)
    BY <2>1, <2>4 DEF AudioInv, Types, Same
  <2>6. sts'[s] = << >> /\ client'[s] = "idle" /\ client[s] = "waiting"
    BY <2>1 DEF AudioInv, Types, ClientTakes
  <2>7. Life(s)'
    BY <2>4 DEF AudioInv, Life, Joined
  <2>8. Turns(s)'
    BY <1>2, <2>2, <2>4, <2>6 DEF AudioInv, Turns, Asked, Busy, Answered
  <2>9. Carried(s)'
    BY <1>2, <2>2, <2>4, <2>6, QueueAssumption
       DEF AudioInv, Turns, Carried, Asked, Busy, Answered, Read
  <2> QED BY <2>3, <2>4, <2>5, <2>7, <2>8, <2>9, StreamStep, AccountsKept DEF StreamInv, AudioInv
<1> QED BY <1>1, <1>2

LEMMA ThreadChecksStopKeeps ==
  ASSUME NEW s \in Streams, AudioInv, ThreadChecksStop(s)
  PROVE  AudioInv'
<1>1. Types'
  BY DEF AudioInv, Types, ThreadChecksStop, threadVars, callbackVars, countVars
<1>2. UNCHANGED << hal, dev, upd, raced, major, dead >> /\ \A t \in Streams \ {s} : Same(t)
  BY DEF AudioInv, Types, Same, ThreadChecksStop, threadVars, callbackVars, countVars
<1>3. Life(s)'
  BY DEF AudioInv, Types, Life, Turns, Joined, ThreadChecksStop, threadVars, callbackVars, countVars
<1>4. Turns(s)'
  BY DEF AudioInv, Types, Life, Turns, Asked, Busy, Answered, Joined, ThreadChecksStop, threadVars, callbackVars, countVars
<1>5. Carried(s)'
  BY QueueAssumption DEF AudioInv, Types, Turns, Carried, Asked, Busy, Answered, Read, Joined, ThreadChecksStop, threadVars, callbackVars, countVars
<1> QED BY <1>1, <1>2, <1>3, <1>4, <1>5, StreamStep, AccountsKept DEF StreamInv, AudioInv

LEMMA HalReturnsKeeps ==
  ASSUME NEW s \in Streams, AudioInv, HalReturns(s)
  PROVE  AudioInv'
<1>0. /\ pc[s] = "call" /\ pc' = [pc EXCEPT ![s] = "reply"] /\ pc'[s] = "reply"
      /\ UNCHANGED << major, dev, upd, raced, obj, stop, closing, mq, ef, cmd, sts, hal, cb, inCb, client, dead >>
  BY DEF HalReturns, callbackVars, countVars, AudioInv, Types
<1>t. cur[s] \in Messages /\ cur[s].n \in Nat /\ data[s] \in Nat /\ data[s] = 0
      /\ QueueSize \in Nat
  BY <1>0, QueueAssumption DEF AudioInv, Types, Messages, Turns, Carried, Asked, Busy, Answered
<1>1. \/ \E k \in 0 .. cur[s].n :
           /\ cur' = [cur EXCEPT ![s] = [cur[s] EXCEPT !.n = k]]
           /\ data' = [data EXCEPT ![s] = IF cur[s].op = "READ" /\ @ + k <= QueueSize THEN @ + k ELSE @]
      \/ /\ cur' = [cur EXCEPT ![s] = [cur[s] EXCEPT !.ret = "INVALID_STATE"]]
         /\ UNCHANGED data
  BY DEF HalReturns, AudioInv, Types
<1>2. /\ cur'[s] \in Messages /\ cur'[s].op = cur[s].op
      /\ data'[s] \in Nat /\ data'[s] <= QueueSize
      /\ data'[s] = IF Read(cur'[s]) THEN cur'[s].n ELSE 0
      /\ cur' = [cur EXCEPT ![s] = cur'[s]] /\ data' = [data EXCEPT ![s] = data'[s]]
  <2>1. ASSUME NEW k \in 0 .. cur[s].n,
               cur' = [cur EXCEPT ![s] = [cur[s] EXCEPT !.n = k]],
               data' = [data EXCEPT ![s] = IF cur[s].op = "READ" /\ @ + k <= QueueSize THEN @ + k ELSE @]
        PROVE  /\ cur'[s] \in Messages /\ cur'[s].op = cur[s].op
               /\ data'[s] \in Nat /\ data'[s] <= QueueSize
               /\ data'[s] = IF Read(cur'[s]) THEN cur'[s].n ELSE 0
               /\ cur' = [cur EXCEPT ![s] = cur'[s]] /\ data' = [data EXCEPT ![s] = data'[s]]
    <3>1. k \in Nat /\ (cur[s].op = "READ" => k <= QueueSize) /\ cur[s].ret = "OK"
      BY <1>0, <1>t, <2>1 DEF AudioInv, Carried
    <3>2. /\ cur'[s] = [cur[s] EXCEPT !.n = k] /\ cur'[s] \in Messages
          /\ cur'[s].op = cur[s].op /\ cur'[s].ret = "OK" /\ cur'[s].n = k
          /\ cur' = [cur EXCEPT ![s] = cur'[s]]
      BY <1>t, <2>1, <3>1 DEF AudioInv, Types, Messages
    <3>3. /\ data'[s] = IF cur[s].op = "READ" THEN k ELSE 0
          /\ data' = [data EXCEPT ![s] = data'[s]]
      BY <1>t, <2>1, <3>1 DEF AudioInv, Types
    <3> QED BY <1>t, <3>1, <3>2, <3>3 DEF Read
  <2>2. ASSUME cur' = [cur EXCEPT ![s] = [cur[s] EXCEPT !.ret = "INVALID_STATE"]], UNCHANGED data
        PROVE  /\ cur'[s] \in Messages /\ cur'[s].op = cur[s].op
               /\ data'[s] \in Nat /\ data'[s] <= QueueSize
               /\ data'[s] = IF Read(cur'[s]) THEN cur'[s].n ELSE 0
               /\ cur' = [cur EXCEPT ![s] = cur'[s]] /\ data' = [data EXCEPT ![s] = data'[s]]
    <3>1. /\ cur'[s] = [cur[s] EXCEPT !.ret = "INVALID_STATE"] /\ cur'[s] \in Messages
          /\ cur'[s].op = cur[s].op /\ cur'[s].ret = "INVALID_STATE"
          /\ cur' = [cur EXCEPT ![s] = cur'[s]]
      BY <1>t, <2>2 DEF AudioInv, Types, Messages, Results
    <3>2. data'[s] = 0 /\ data' = [data EXCEPT ![s] = data'[s]]
      BY <1>t, <2>2 DEF AudioInv, Types
    <3> QED BY <1>t, <3>1, <3>2 DEF Read
  <2> QED BY <1>1, <2>1, <2>2
<1>3. Types'
  BY <1>0, <1>2 DEF AudioInv, Types
<1>4. \A t \in Streams \ {s} : Same(t)
  BY <1>0, <1>2 DEF AudioInv, Types, Same
<1>5. Life(s)'
  BY <1>0 DEF AudioInv, Life, Joined
<1>6. Turns(s)'
  BY <1>0 DEF AudioInv, Life, Turns, Asked, Busy, Answered, Joined
<1>7. Carried(s)'
  BY <1>0, <1>2 DEF AudioInv, Turns, Carried, Asked, Busy, Answered
<1> QED BY <1>0, <1>3, <1>4, <1>5, <1>6, <1>7, StreamStep, AccountsKept DEF StreamInv, AudioInv

LEMMA ThreadRepliesKeeps ==
  ASSUME NEW s \in Streams, AudioInv, ThreadReplies(s)
  PROVE  AudioInv'
<1>0. /\ pc[s] = "reply" /\ pc' = [pc EXCEPT ![s] = "loop"] /\ pc'[s] = "loop"
      /\ cur' = [cur EXCEPT ![s] = NoCommand] /\ cur'[s] = NoCommand
      /\ UNCHANGED << major, dev, upd, raced, obj, stop, closing, mq, cmd, data, hal, cb, inCb, client, dead >>
  BY DEF ThreadReplies, callbackVars, countVars, AudioInv, Types
<1>1. sts[s] = << >> /\ cmd[s] = << >>
  BY <1>0 DEF AudioInv, Turns, Asked, Busy, Answered
<1>2. sts' = [sts EXCEPT ![s] = << cur[s] >>] /\ sts'[s] = << cur[s] >>
  BY <1>1 DEF ThreadReplies, AudioInv, Types
<1>3. cur[s] \in Messages /\ << cur[s] >> \in Seq(Messages) /\ NoCommand \in Messages
  BY DEF AudioInv, Types, NoCommand, Messages, Ops, Results
<1>4. ef' \in [Streams -> SUBSET {NOT_EMPTY, NOT_FULL}]
  BY DEF ThreadReplies, ClientBit, AudioInv, Types
<1>5. Types'
  BY <1>0, <1>2, <1>3, <1>4 DEF AudioInv, Types
<1>6. \A t \in Streams \ {s} : Same(t)
  BY <1>0, <1>2 DEF AudioInv, Types, Same
<1>7. Life(s)'
  BY <1>0 DEF AudioInv, Life, Joined
<1>8. sts'[s] # << >> /\ Len(sts'[s]) = 1 /\ Head(sts'[s]) = cur[s]
  BY <1>2, <1>3
<1>9. Turns(s)'
  BY <1>0, <1>1, <1>8 DEF AudioInv, Life, Turns, Asked, Busy, Answered, Joined
<1>10. Carried(s)'
  BY <1>0, <1>1, <1>8 DEF AudioInv, Carried, Asked, Busy, Answered, Read, NoCommand
<1> QED BY <1>0, <1>5, <1>6, <1>7, <1>9, <1>10, StreamStep, AccountsKept DEF StreamInv, AudioInv

LEMMA BeginCloseTypes ==
  ASSUME NEW s \in Streams, Types, NEW bit \in {NOT_EMPTY, NOT_FULL}, BeginClose(s, bit)
  PROVE  /\ stop' \in [Streams -> BOOLEAN] /\ closing' \in [Streams -> BOOLEAN]
         /\ ef' \in [Streams -> SUBSET {NOT_EMPTY, NOT_FULL}]
         /\ stop'[s] = TRUE /\ closing'[s] = (major >= 6)
         /\ \A t \in Streams \ {s} : stop'[t] = stop[t] /\ closing'[t] = closing[t]
<1>1. (major >= 6) \in BOOLEAN
  OBVIOUS
<1> QED BY <1>1 DEF BeginClose, Types

LEMMA BeginDestructorKeeps ==
  ASSUME NEW s \in Streams, AudioInv, BeginDestructor(s)
  PROVE  AudioInv'
<1>1. Types'
  BY BeginCloseTypes DEF AudioInv, Types, BeginDestructor, ThreadBit, threadVars, callbackVars, countVars
<1>2. UNCHANGED << hal, dev, upd, raced, major, dead >> /\ \A t \in Streams \ {s} : Same(t)
  BY DEF AudioInv, Types, Same, BeginDestructor, BeginClose, ThreadBit, threadVars, callbackVars, countVars
<1>3. Life(s)'
  BY DEF AudioInv, Types, Life, Turns, Joined, BeginDestructor, BeginClose, ThreadBit, threadVars, callbackVars, countVars
<1>4. Turns(s)'
  BY DEF AudioInv, Types, Life, Turns, Asked, Busy, Answered, Joined, BeginDestructor, BeginClose, ThreadBit, threadVars, callbackVars, countVars
<1>5. Carried(s)'
  BY QueueAssumption DEF AudioInv, Types, Turns, Carried, Asked, Busy, Answered, Read, Joined, BeginDestructor, BeginClose, ThreadBit, threadVars, callbackVars, countVars
<1> QED BY <1>1, <1>2, <1>3, <1>4, <1>5, StreamStep, AccountsKept DEF StreamInv, AudioInv

LEMMA setCallbackKeeps ==
  ASSUME NEW s \in Streams, AudioInv, setCallback(s)
  PROVE  AudioInv'
<1>1. Types'
  BY DEF AudioInv, Types, setCallback, threadVars, callbackVars, countVars
<1>2. UNCHANGED << hal, dev, upd, raced, major, dead >> /\ \A t \in Streams \ {s} : Same(t)
  BY DEF AudioInv, Types, Same, setCallback, threadVars, callbackVars, countVars
<1>3. Life(s)'
  BY DEF AudioInv, Types, Life, Turns, Joined, setCallback, threadVars, callbackVars, countVars
<1>4. Turns(s)'
  BY DEF AudioInv, Types, Life, Turns, Asked, Busy, Answered, Joined, setCallback, threadVars, callbackVars, countVars
<1>5. Carried(s)'
  BY QueueAssumption DEF AudioInv, Types, Turns, Carried, Asked, Busy, Answered, Read, Joined, setCallback, threadVars, callbackVars, countVars
<1> QED BY <1>1, <1>2, <1>3, <1>4, <1>5, StreamStep, AccountsKept DEF StreamInv, AudioInv

LEMMA clearCallbackKeeps ==
  ASSUME NEW s \in Streams, AudioInv, clearCallback(s)
  PROVE  AudioInv'
<1>1. Types'
  BY DEF AudioInv, Types, clearCallback, threadVars, callbackVars, countVars
<1>2. UNCHANGED << hal, dev, upd, raced, major, dead >> /\ \A t \in Streams \ {s} : Same(t)
  BY DEF AudioInv, Types, Same, clearCallback, threadVars, callbackVars, countVars
<1>3. Life(s)'
  BY DEF AudioInv, Types, Life, Turns, Joined, clearCallback, threadVars, callbackVars, countVars
<1>4. Turns(s)'
  BY DEF AudioInv, Types, Life, Turns, Asked, Busy, Answered, Joined, clearCallback, threadVars, callbackVars, countVars
<1>5. Carried(s)'
  BY QueueAssumption DEF AudioInv, Types, Turns, Carried, Asked, Busy, Answered, Read, Joined, clearCallback, threadVars, callbackVars, countVars
<1> QED BY <1>1, <1>2, <1>3, <1>4, <1>5, StreamStep, AccountsKept DEF StreamInv, AudioInv

LEMMA asyncCallbackKeeps ==
  ASSUME NEW s \in Streams, AudioInv, asyncCallback(s)
  PROVE  AudioInv'
<1>1. Types'
  BY DEF AudioInv, Types, asyncCallback, threadVars, callbackVars, countVars
<1>2. UNCHANGED << hal, dev, upd, raced, major, dead >> /\ \A t \in Streams \ {s} : Same(t)
  BY DEF AudioInv, Types, Same, asyncCallback, threadVars, callbackVars, countVars
<1>3. Life(s)'
  BY DEF AudioInv, Types, Life, Turns, Joined, asyncCallback, threadVars, callbackVars, countVars
<1>4. Turns(s)'
  BY DEF AudioInv, Types, Life, Turns, Asked, Busy, Answered, Joined, asyncCallback, threadVars, callbackVars, countVars
<1>5. Carried(s)'
  BY QueueAssumption DEF AudioInv, Types, Turns, Carried, Asked, Busy, Answered, Read, Joined, asyncCallback, threadVars, callbackVars, countVars
<1> QED BY <1>1, <1>2, <1>3, <1>4, <1>5, StreamStep, AccountsKept DEF StreamInv, AudioInv

LEMMA CallbackReturnsKeeps ==
  ASSUME NEW s \in Streams, AudioInv, CallbackReturns(s)
  PROVE  AudioInv'
<1>1. Types'
  BY DEF AudioInv, Types, CallbackReturns, threadVars, callbackVars, countVars
<1>2. UNCHANGED << hal, dev, upd, raced, major, dead >> /\ \A t \in Streams \ {s} : Same(t)
  BY DEF AudioInv, Types, Same, CallbackReturns, threadVars, callbackVars, countVars
<1>3. Life(s)'
  BY DEF AudioInv, Types, Life, Turns, Joined, CallbackReturns, threadVars, callbackVars, countVars
<1>4. Turns(s)'
  BY DEF AudioInv, Types, Life, Turns, Asked, Busy, Answered, Joined, CallbackReturns, threadVars, callbackVars, countVars
<1>5. Carried(s)'
  BY QueueAssumption DEF AudioInv, Types, Turns, Carried, Asked, Busy, Answered, Read, Joined, CallbackReturns, threadVars, callbackVars, countVars
<1> QED BY <1>1, <1>2, <1>3, <1>4, <1>5, StreamStep, AccountsKept DEF StreamInv, AudioInv

\* The dispatch of a command leaves the data queue empty and the command with the
\* thread, with no more bytes to read than fit.
LEMMA DispatchTakes ==
  ASSUME NEW s \in Streams, AudioInv, cmd[s] # << >>, Dispatch(s, Head(cmd[s]))
  PROVE  /\ cur'[s] \in Messages /\ cur' = [cur EXCEPT ![s] = cur'[s]]
         /\ cur'[s].op \in Commands(s)
         /\ pc'[s] = "call" => cur'[s].ret = "OK" /\ (cur'[s].op = "READ" => cur'[s].n <= QueueSize)
         /\ pc'[s] = "reply" => ~Read(cur'[s])
         /\ pc' = [pc EXCEPT ![s] = pc'[s]] /\ pc'[s] \in {"call", "reply"}
         /\ data' = [data EXCEPT ![s] = 0]
<1> DEFINE c == Head(cmd[s])
<1>1. c \in Messages /\ c.op \in Commands(s) /\ c.ret = "OK"
  <2>1. cmd[s] \in Seq(Messages)
    BY DEF AudioInv, Types
  <2> QED BY <2>1 DEF AudioInv, Carried, Asked
<1>2. c.n \in Nat /\ data[s] \in Nat /\ (c.op # "WRITE" => data[s] = 0) /\ QueueSize \in Nat
  BY <1>1, QueueAssumption DEF AudioInv, Types, Messages, Turns, Carried, Asked, Busy, Answered
<1>p. /\ pc' = [pc EXCEPT ![s] = IF c.op = "other" THEN "reply" ELSE "call"]
      /\ pc'[s] = IF c.op = "other" THEN "reply" ELSE "call"
  BY DEF Dispatch, AudioInv, Types
<1> HIDE DEF c
<1>c. /\ c.op = "WRITE" => doWrite(s, c)
      /\ c.op = "READ" => doRead(s, c)
      /\ c.op = "other" => cur' = [cur EXCEPT ![s] = [c EXCEPT !.ret = "NOT_SUPPORTED"]] /\ UNCHANGED data
      /\ c.op \notin {"WRITE", "READ", "other"} => cur' = [cur EXCEPT ![s] = c] /\ UNCHANGED data
  BY DEF Dispatch, c
<1>d. data' = [data EXCEPT ![s] = 0]
  BY <1>2, <1>c DEF doWrite, doRead, AudioInv, Types
<1>e. /\ cur'[s] \in Messages /\ cur' = [cur EXCEPT ![s] = cur'[s]] /\ cur'[s].op = c.op
      /\ c.op # "other" => cur'[s].ret = "OK"
      /\ c.op = "READ" => cur'[s].n <= QueueSize
  <2>1. CASE c.op = "WRITE"
    <3>1. cur' = [cur EXCEPT ![s] = [c EXCEPT !.n = data[s]]] /\ cur'[s] = [c EXCEPT !.n = data[s]]
      BY <1>c, <2>1 DEF doWrite, AudioInv, Types
    <3> QED BY <1>1, <1>2, <2>1, <3>1 DEF Messages
  <2>2. CASE c.op = "READ"
    <3>1. data[s] = 0
      BY <1>2, <2>2
    <3>2. /\ cur' = [cur EXCEPT ![s] = [c EXCEPT !.n = Least(@, QueueSize - data[s])]]
          /\ cur'[s] = [c EXCEPT !.n = Least(c.n, QueueSize - data[s])]
      BY <1>1, <1>c, <2>2 DEF doRead, AudioInv, Types, Messages
    <3>3. Least(c.n, QueueSize - data[s]) \in Nat /\ Least(c.n, QueueSize - data[s]) <= QueueSize
      BY <1>2, <3>1 DEF Least
    <3>4. cur'[s] \in Messages /\ cur'[s].op = c.op /\ cur'[s].ret = c.ret /\ cur'[s].n <= QueueSize
      BY <1>1, <3>2, <3>3 DEF Messages
    <3>5. cur' = [cur EXCEPT ![s] = cur'[s]]
      BY <3>2 DEF AudioInv, Types
    <3> QED BY <1>1, <2>2, <3>4, <3>5
  <2>3. CASE c.op = "other"
    <3>1. /\ cur' = [cur EXCEPT ![s] = [c EXCEPT !.ret = "NOT_SUPPORTED"]]
          /\ cur'[s] = [c EXCEPT !.ret = "NOT_SUPPORTED"]
      BY <1>c, <2>3 DEF AudioInv, Types
    <3> QED BY <1>1, <2>3, <3>1 DEF Messages, Results
  <2>4. CASE c.op \notin {"WRITE", "READ", "other"}
    BY <1>1, <1>c, <2>4 DEF AudioInv, Types
  <2> QED BY <2>1, <2>2, <2>3, <2>4
<1>f. pc' = [pc EXCEPT ![s] = pc'[s]] /\ pc'[s] \in {"call", "reply"}
  BY <1>p
<1>g. /\ pc'[s] = "call" => cur'[s].ret = "OK" /\ (cur'[s].op = "READ" => cur'[s].n <= QueueSize)
      /\ pc'[s] = "reply" => ~Read(cur'[s])
  BY <1>p, <1>e DEF Read
<1>h. cur'[s].op \in Commands(s)
  BY <1>1, <1>e
<1> QED BY <1>d, <1>e, <1>f, <1>g, <1>h

\* A round of WriteThread::threadLoop or ReadThread::threadLoop.
ServesOne(s) ==
  /\ Woken(s)
  /\ IF cmd[s] = << >>
       THEN pc' = [pc EXCEPT ![s] = "loop"] /\ UNCHANGED << cur, data >>
       ELSE Dispatch(s, Head(cmd[s]))
  /\ UNCHANGED << major, dev, countVars, obj, stop, closing, mq, sts, hal, callbackVars, client, dead >>

LEMMA ThreadLoopKeeps ==
  ASSUME NEW s \in Streams, AudioInv, ServesOne(s)
  PROVE  AudioInv'
<1>0. /\ pc[s] = "wait" /\ cmd' = [cmd EXCEPT ![s] = << >>] /\ cmd'[s] = << >>
      /\ UNCHANGED << major, dev, upd, raced, obj, stop, closing, mq, sts, hal, cb, inCb, client, dead >>
  BY DEF ServesOne, Woken, callbackVars, countVars, AudioInv, Types
<1>1. /\ ef' \in [Streams -> SUBSET {NOT_EMPTY, NOT_FULL}]
      /\ cmd' \in [Streams -> Seq(Messages)]
  <2>1. << >> \in Seq(Messages)
    OBVIOUS
  <2> QED BY <1>0, <2>1 DEF ServesOne, Woken, ThreadBit, AudioInv, Types
<1>2. CASE cmd[s] = << >>
  <2>1. /\ pc' = [pc EXCEPT ![s] = "loop"] /\ pc'[s] = "loop" /\ UNCHANGED << cur, data >>
        /\ cmd'[s] = cmd[s]
    BY <1>0, <1>2 DEF ServesOne, AudioInv, Types
  <2>2. Types'
    BY <1>0, <1>1, <2>1 DEF AudioInv, Types
  <2>3. \A t \in Streams \ {s} : Same(t)
    BY <1>0, <2>1 DEF AudioInv, Types, Same
  <2>4. Life(s)'
    BY <1>0, <2>1 DEF AudioInv, Life, Joined
  <2>5. Turns(s)'
    BY <1>0, <2>1 DEF AudioInv, Life, Joined, Turns, Asked, Busy, Answered
  <2>6. Carried(s)'
    BY <1>0, <2>1 DEF AudioInv, Carried, Asked, Busy, Answered, Read
  <2> QED BY <1>0, <2>2, <2>3, <2>4, <2>5, <2>6, StreamStep, AccountsKept DEF StreamInv, AudioInv
<1>3. CASE cmd[s] # << >>
  <2>1. Dispatch(s, Head(cmd[s]))
    BY <1>3 DEF ServesOne
  <2>2. /\ cur'[s] \in Messages /\ cur' = [cur EXCEPT ![s] = cur'[s]]
        /\ cur'[s].op \in Commands(s)
        /\ pc'[s] = "call" => cur'[s].ret = "OK" /\ (cur'[s].op = "READ" => cur'[s].n <= QueueSize)
        /\ pc'[s] = "reply" => ~Read(cur'[s])
        /\ pc' = [pc EXCEPT ![s] = pc'[s]] /\ pc'[s] \in {"call", "reply"}
        /\ data' = [data EXCEPT ![s] = 0]
    BY <1>3, <2>1, DispatchTakes
  <2>3. data'[s] = 0 /\ data' \in [Streams -> Nat]
    BY <2>2 DEF AudioInv, Types
  <2>4. Types'
    <3>1. cur' \in [Streams -> Messages]
      BY <2>2 DEF AudioInv, Types
    <3>2. pc' \in [Streams -> {"none", "loop", "wait", "call", "reply", "exit"}]
      BY <2>2 DEF AudioInv, Types
    <3> QED BY <1>0, <1>1, <2>3, <3>1, <3>2 DEF AudioInv, Types
  <2>5. \A t \in Streams \ {s} : Same(t)
    BY <1>0, <2>2 DEF AudioInv, Types, Same
  <2>6. Life(s)'
    BY <1>0, <2>2 DEF AudioInv, Life, Joined
  <2>7. Turns(s)'
    BY <1>0, <1>3, <2>2, <2>3 DEF AudioInv, Life, Joined, Turns, Asked, Busy, Answered
  <2>8. Carried(s)'
    BY <1>0, <1>3, <2>2, <2>3, QueueAssumption
       DEF AudioInv, Turns, Carried, Asked, Busy, Answered
  <2> QED BY <1>0, <2>4, <2>5, <2>6, <2>7, <2>8, StreamStep, AccountsKept DEF StreamInv, AudioInv
<1> QED BY <1>2, <1>3

\* StreamOut::close and StreamIn::close up to the call into the legacy HAL.
Closes(s) ==
  /\ obj[s] = "open" /\ client[s] = "idle" /\ ~dead /\ ~stop[s]
  /\ BeginClose(s, ThreadBit(s))
  /\ client' = [client EXCEPT ![s] = IF major >= 6 THEN "closing" ELSE "idle"]
  /\ UNCHANGED << major, dev, countVars, obj, mq, cmd, data, sts, pc, cur, hal, callbackVars, dead >>

LEMMA CloseKeeps ==
  ASSUME NEW s \in Streams, AudioInv, Closes(s)
  PROVE  AudioInv'
<1>0. /\ obj[s] = "open" /\ client[s] = "idle" /\ ~dead /\ ~stop[s]
      /\ client' = [client EXCEPT ![s] = IF major >= 6 THEN "closing" ELSE "idle"]
      /\ client'[s] = IF major >= 6 THEN "closing" ELSE "idle"
      /\ UNCHANGED << major, dev, upd, raced, obj, mq, cmd, data, sts, pc, cur, hal, cb, inCb, dead >>
  BY DEF Closes, callbackVars, countVars, AudioInv, Types
<1>1. /\ stop' \in [Streams -> BOOLEAN] /\ closing' \in [Streams -> BOOLEAN]
      /\ ef' \in [Streams -> SUBSET {NOT_EMPTY, NOT_FULL}]
      /\ stop'[s] = TRUE /\ closing'[s] = (major >= 6)
      /\ \A t \in Streams \ {s} : stop'[t] = stop[t] /\ closing'[t] = closing[t]
  <2>1. ThreadBit(s) \in {NOT_EMPTY, NOT_FULL}
    BY DEF ThreadBit
  <2> QED BY <2>1, BeginCloseTypes DEF Closes, AudioInv
<1>2. Types'
  BY <1>0, <1>1 DEF AudioInv, Types
<1>3. \A t \in Streams \ {s} : Same(t)
  BY <1>0, <1>1 DEF AudioInv, Types, Same
<1>4. Life(s)'
  BY <1>0, <1>1 DEF AudioInv, Types, Life, Joined
<1>5. Turns(s)'
  <2>1. CASE major >= 6
    <3>1. client'[s] = "closing" /\ closing'[s]
      BY <1>0, <1>1, <2>1
    <3> QED BY <1>0, <3>1 DEF AudioInv, Turns, Asked, Busy, Answered
  <2>2. CASE ~(major >= 6)
    BY <1>0, <2>2 DEF AudioInv, Turns, Asked, Busy, Answered
  <2> QED BY <2>1, <2>2
<1>6. Carried(s)'
  BY <1>0 DEF AudioInv, Carried, Asked, Busy, Answered, Read
<1> QED BY <1>0, <1>2, <1>3, <1>4, <1>5, <1>6, StreamStep, AccountsKept DEF StreamInv, AudioInv

\* What the counter counts is finite.
LEMMA CountedFinite == IsFiniteSet(Counted) /\ Cardinality(Counted) \in Nat
                       /\ (Cardinality(Counted) = 0 <=> Counted = {})
<1>1. Counted \in SUBSET Streams
  BY DEF Counted
<1> QED BY <1>1, StreamsAssumption, FS_Subset, FS_CardinalityType, FS_EmptySet

\* A call that is about to store a new count is an open or a close, and its legacy
\* stream tells which.
LEMMA OpensAndCloses ==
  ASSUME AudioInv, NEW t \in Streams
  PROVE  obj[t] = "opening" <=> Pending(t) /\ hal[t] = "open"
BY DEF AudioInv, Types, Life, Pending

\* A load of the counter, with the legacy stream opened or closed before it: what is
\* counted stays the same until the store.
LEMMA LoadAccounts ==
  ASSUME AudioInv, NEW s \in Streams, NEW n \in Nat, NEW h \in {"open", "closed"},
         Loads(s, n), upd[s] = NoUpdate, hal' = [hal EXCEPT ![s] = h], hal[s] # h, dev' = dev,
         n = IF h = "open" THEN dev.count + 1 ELSE dev.count - 1,
         h = "open" => ~dev.closed,
         h = "open" <=> ~closing[s]
  PROVE  Accounts'
<1>1. /\ upd' = [upd EXCEPT ![s] = n] /\ upd'[s] = n /\ n # NoUpdate /\ hal'[s] = h
      /\ \A t \in Streams \ {s} : upd'[t] = upd[t] /\ hal'[t] = hal[t]
      /\ hal \in [Streams -> {"open", "closed"}]
  BY DEF Loads, AudioInv, Types, NoUpdate
<1>2. Counted' = Counted
  BY <1>1 DEF Counted
<1>3. /\ ~Pending(s) /\ Pending(s)'
      /\ \A t \in Streams \ {s} : Pending(t)' <=> Pending(t)
  BY <1>1 DEF Pending
<1>4. /\ (\E t \in Streams : Pending(t)) => raced' # "none"
      /\ raced' = "none" => raced = "none"
      /\ raced' # "opens" => raced # "opens" \/ \A t \in Streams : ~Pending(t)
      /\ raced = "opens" => raced' = "opens"
      /\ raced' # "opens" => (\A t \in Streams : ~Pending(t)) \/
                             (h = "closed" /\ \A t \in Streams : Pending(t) => hal[t] # "open")
  <2> DEFINE under == {t \in Streams : upd[t] # NoUpdate}
  <2>1. raced' = IF under = {} THEN raced
                 ELSE IF ~closing[s] \/ \E t \in under : obj[t] = "opening" THEN "opens"
                 ELSE IF raced = "none" THEN "closes" ELSE raced
    BY DEF Loads
  <2>2. (under = {} <=> \A t \in Streams : ~Pending(t))
    BY DEF Pending
  <2>3. (\E t \in under : obj[t] = "opening") <=> \E t \in Streams : Pending(t) /\ hal[t] = "open"
    BY OpensAndCloses DEF Pending
  <2> HIDE DEF under
  <2> QED BY <2>1, <2>2, <2>3
<1>5. dev.count \in Nat /\ Cardinality(Counted) \in Nat
  BY CountedFinite DEF AudioInv, Types
<1>6. raced' = "none" => Exact'
  <2> SUFFICES ASSUME raced' = "none" PROVE Exact'
    OBVIOUS
  <2>1. Exact /\ \A t \in Streams : ~Pending(t)
    BY <1>4 DEF AudioInv, Accounts
  <2> QED BY <1>1, <1>2, <1>3, <1>5, <2>1 DEF Exact
<1>7. raced' # "opens" => Enough'
  <2> SUFFICES ASSUME raced' # "opens" PROVE Enough'
    OBVIOUS
  <2>1. Enough
    BY <1>4 DEF AudioInv, Accounts
  <2>2. dev'.closed => ~dev'.hal /\ \A t \in Streams : hal'[t] # "open"
    BY <1>1, <2>1 DEF Enough
  <2>3. \A t, u \in Streams : Pending(t)' /\ hal'[t] = "open" /\ Pending(u)' => t = u
    BY <1>1, <1>3, <1>4
  <2>4. ASSUME NEW t \in Streams, Pending(t)'
        PROVE  upd'[t] >= IF hal'[t] = "open" THEN Cardinality(Counted') + 1 ELSE Cardinality(Counted') - 1
    BY <1>1, <1>2, <1>3, <1>5, <2>1, <2>4 DEF Enough
  <2> QED BY <1>2, <2>1, <2>2, <2>3, <2>4 DEF Enough
<1> QED BY <1>6, <1>7 DEF AudioInv, Accounts

\* A store of the counter: what was to be counted is.
LEMMA StoreAccounts ==
  ASSUME AudioInv, NEW s \in Streams, Pending(s), upd' = [upd EXCEPT ![s] = NoUpdate],
         dev' = [dev EXCEPT !.count = upd[s]], UNCHANGED << hal, raced >>
  PROVE  Accounts'
<1>1. /\ upd[s] \in 0 .. MaxCount /\ upd'[s] = NoUpdate
      /\ \A t \in Streams \ {s} : upd'[t] = upd[t]
      /\ dev'.count = upd[s] /\ dev'.alive = dev.alive /\ dev'.ref = dev.ref
      /\ dev'.closed = dev.closed /\ dev'.hal = dev.hal
  BY DEF AudioInv, Types, Pending
<1>2. ~Pending(s)' /\ \A t \in Streams \ {s} : Pending(t)' <=> Pending(t)
  BY <1>1 DEF Pending
<1>3. /\ hal[s] = "open" => Cardinality(Counted') = Cardinality(Counted) + 1
      /\ hal[s] # "open" => Cardinality(Counted') = Cardinality(Counted) - 1
  <2>1. CASE hal[s] = "open"
    <3>1. Counted' = Counted \cup {s} /\ s \notin Counted
      BY <1>1, <2>1 DEF Counted, Pending
    <3> QED BY <2>1, <3>1, CountedFinite, FS_AddElement
  <2>2. CASE hal[s] # "open"
    <3>1. Counted' = Counted \ {s} /\ s \in Counted
      BY <1>1, <2>2 DEF Counted, Pending
    <3> QED BY <2>2, <3>1, CountedFinite, FS_RemoveElement
  <2> QED BY <2>1, <2>2
<1>4. Cardinality(Counted) \in Nat /\ upd[s] \in Nat
  BY <1>1, CountedFinite, CountAssumption
<1>5. Exact => Exact'
  <2> SUFFICES ASSUME Exact PROVE Exact'
    OBVIOUS
  <2>1. dev'.count = Cardinality(Counted')
    BY <1>1, <1>3, <1>4 DEF Exact
  <2>2. \A t \in Streams : ~Pending(t)'
    BY <1>2 DEF Exact
  <2> QED BY <1>1, <2>1, <2>2 DEF Exact
<1>6. Enough => Enough'
  <2> SUFFICES ASSUME Enough PROVE Enough'
    OBVIOUS
  <2>1. dev'.count >= Cardinality(Counted')
    BY <1>1, <1>3, <1>4 DEF Enough
  <2>2. \A t, u \in Streams : Pending(t)' /\ hal'[t] = "open" /\ Pending(u)' => t = u
    BY <1>2 DEF Enough
  <2>3. ASSUME NEW t \in Streams, Pending(t)'
        PROVE  upd'[t] >= IF hal'[t] = "open" THEN Cardinality(Counted') + 1 ELSE Cardinality(Counted') - 1
    <3>1. t # s /\ Pending(t) /\ upd'[t] = upd[t] /\ upd[t] \in Nat
      BY <1>1, <1>2, <2>3, CountAssumption DEF AudioInv, Types, Pending
    <3>2. hal[t] # "open" /\ hal[s] # "open"
      BY <3>1 DEF Enough
    <3> QED BY <1>3, <1>4, <3>1, <3>2 DEF Enough
  <2> QED BY <1>1, <2>1, <2>2, <2>3 DEF Enough
<1> QED BY <1>1, <1>5, <1>6 DEF AudioInv, Accounts

\* Device::closeOutputStream and closeInputStream at the end of close() and of the
\* destructor: the legacy stream is closed and the counter loaded.
LEMMA EndCloseKeeps ==
  ASSUME NEW s \in Streams, AudioInv, EndClose(s)
  PROVE  AudioInv'
<1>0. /\ closing[s] /\ ~inCb[s] /\ hal[s] = "open" /\ upd[s] = NoUpdate
      /\ hal' = [hal EXCEPT ![s] = "closed"] /\ hal'[s] = "closed"
      /\ Loads(s, dev.count - 1) /\ dev.count # 0
      /\ upd' = [upd EXCEPT ![s] = dev.count - 1] /\ upd'[s] = dev.count - 1
      /\ UNCHANGED << major, dev, obj, stop, closing, mq, ef, cmd, data, sts, pc, cur, cb, inCb, client, dead >>
  BY DEF EndClose, closeHalStream, Loads, threadVars, AudioInv, Types, Life
<1>1. dev.count \in 0 .. MaxCount /\ dev.count - 1 \in 0 .. MaxCount /\ dev.count - 1 # NoUpdate
  BY <1>0, CountAssumption DEF AudioInv, Types, NoUpdate
<1>2. Accounts'
  <2> DEFINE n == dev.count - 1
             h == "closed"
  <2>1. /\ n \in Nat /\ h \in {"open", "closed"} /\ Loads(s, n) /\ upd[s] = NoUpdate
        /\ hal' = [hal EXCEPT ![s] = h] /\ hal[s] # h /\ dev' = dev
        /\ n = (IF h = "open" THEN dev.count + 1 ELSE dev.count - 1)
        /\ (h = "open" => ~dev.closed) /\ (h = "open" <=> ~closing[s])
    BY <1>0, <1>1, CountAssumption
  <2> HIDE DEF n, h
  <2> QED BY <2>1, LoadAccounts
<1>3. raced' \in {"none", "closes", "opens"}
  BY <1>0 DEF Loads, AudioInv, Types
<1>4. Types'
  BY <1>0, <1>1, <1>3 DEF AudioInv, Types
<1>5. \A t \in Streams \ {s} : Same(t)
  BY <1>0 DEF AudioInv, Types, Same
<1>6. Life(s)'
  BY <1>0, <1>1 DEF AudioInv, Types, Life, Joined
<1>7. Turns(s)'
  BY <1>0 DEF AudioInv, Turns, Asked, Busy, Answered
<1>8. Carried(s)'
  BY <1>0 DEF AudioInv, Carried, Asked, Busy, Answered, Read
<1> QED BY <1>0, <1>2, <1>4, <1>5, <1>6, <1>7, <1>8, StreamStep DEF StreamInv

\* The return of the call that closed the legacy stream.
LEMMA CloseReturnsKeeps ==
  ASSUME NEW s \in Streams, AudioInv, CloseReturns(s)
  PROVE  AudioInv'
<1>0. /\ closing[s] /\ Pending(s) /\ hal[s] # "open"
      /\ dev' = [dev EXCEPT !.count = upd[s]]
      /\ upd' = [upd EXCEPT ![s] = NoUpdate] /\ upd'[s] = NoUpdate
      /\ closing' = [closing EXCEPT ![s] = FALSE] /\ closing'[s] = FALSE
      /\ client' = [client EXCEPT ![s] = "idle"] /\ client'[s] = "idle"
      /\ obj' = [obj EXCEPT ![s] = IF @ = "leaving" THEN "none" ELSE @]
      /\ obj'[s] = IF obj[s] = "leaving" THEN "none" ELSE obj[s]
      /\ UNCHANGED << major, raced, stop, mq, ef, cmd, data, sts, pc, cur, hal, cb, inCb, dead >>
  BY DEF CloseReturns, Pending, threadVars, callbackVars, AudioInv, Types, Life
<1>1. /\ upd[s] \in 0 .. MaxCount /\ dev'.alive = dev.alive
      /\ dev' \in [alive : BOOLEAN, ref : BOOLEAN, closed : BOOLEAN, count : 0 .. MaxCount, hal : BOOLEAN]
  BY <1>0 DEF AudioInv, Types, Pending
<1>2. Accounts'
  BY <1>0, StoreAccounts
<1>3. Types'
  BY <1>0, <1>1 DEF AudioInv, Types
<1>4. \A t \in Streams \ {s} : Same(t)
  BY <1>0 DEF AudioInv, Types, Same
<1>5. Life(s)'
  BY <1>0, <1>1 DEF AudioInv, Types, Life, Joined
<1>6. Turns(s)'
  BY <1>0 DEF AudioInv, Types, Turns, Life, Joined, Asked, Busy, Answered
<1>7. Carried(s)'
  BY <1>0 DEF AudioInv, Carried, Asked, Busy, Answered, Read
<1> QED BY <1>0, <1>1, <1>2, <1>3, <1>4, <1>5, <1>6, <1>7, StreamStep DEF StreamInv

\* Queues that are made anew, or gone with the object.
LEMMA FreshTypes ==
  ASSUME NEW s \in Streams, Types, FreshQueues(s)
  PROVE  /\ mq' \in [Streams -> BOOLEAN] /\ ef' \in [Streams -> SUBSET {NOT_EMPTY, NOT_FULL}]
         /\ cmd' \in [Streams -> Seq(Messages)] /\ sts' \in [Streams -> Seq(Messages)]
         /\ data' \in [Streams -> Nat] /\ cur' \in [Streams -> Messages]
         /\ cmd'[s] = << >> /\ sts'[s] = << >> /\ data'[s] = 0 /\ cur'[s] = NoCommand
         /\ \A t \in Streams \ {s} : /\ cmd'[t] = cmd[t] /\ sts'[t] = sts[t]
                                     /\ data'[t] = data[t] /\ cur'[t] = cur[t]
<1>1. << >> \in Seq(Messages) /\ NoCommand \in Messages
  BY DEF NoCommand, Messages, Ops, Results
<1> QED BY <1>1 DEF FreshQueues, Types

LEMMA EndDestructorKeeps ==
  ASSUME NEW s \in Streams, AudioInv, EndDestructor(s), cb' \in [Streams -> BOOLEAN]
  PROVE  AudioInv'
<1>0. /\ obj[s] = "destructor" /\ ~closing[s] /\ Joined(s)
      /\ closing' = [closing EXCEPT ![s] = major <= 5] /\ closing'[s] = (major <= 5)
      /\ obj' = [obj EXCEPT ![s] = IF major <= 5 THEN "leaving" ELSE "none"]
      /\ obj'[s] = IF major <= 5 THEN "leaving" ELSE "none"
      /\ UNCHANGED << major, dev, upd, raced, stop, pc, hal, inCb, client, dead >>
  BY DEF EndDestructor, countVars, AudioInv, Types
<1>1. /\ mq' \in [Streams -> BOOLEAN] /\ ef' \in [Streams -> SUBSET {NOT_EMPTY, NOT_FULL}]
      /\ cmd' \in [Streams -> Seq(Messages)] /\ sts' \in [Streams -> Seq(Messages)]
      /\ data' \in [Streams -> Nat] /\ cur' \in [Streams -> Messages]
      /\ cmd'[s] = << >> /\ sts'[s] = << >> /\ data'[s] = 0 /\ cur'[s] = NoCommand
      /\ \A t \in Streams \ {s} : /\ cmd'[t] = cmd[t] /\ sts'[t] = sts[t]
                                  /\ data'[t] = data[t] /\ cur'[t] = cur[t]
  BY FreshTypes DEF EndDestructor, AudioInv
<1>2. Types'
  <2>1. (major <= 5) \in BOOLEAN
    OBVIOUS
  <2>2. closing' \in [Streams -> BOOLEAN]
    BY <1>0, <2>1 DEF AudioInv, Types
  <2>3. obj' \in [Streams -> {"none", "opening", "open", "destructor", "leaving"}]
    BY <1>0 DEF AudioInv, Types
  <2> QED BY <1>0, <1>1, <2>2, <2>3 DEF AudioInv, Types
<1>3. \A t \in Streams \ {s} : Same(t)
  BY <1>0, <1>1 DEF AudioInv, Types, Same
<1>4. Life(s)' /\ Turns(s)'
  <2>1. CASE major <= 5
    <3>1. closing'[s] /\ obj'[s] = "leaving"
      BY <1>0, <2>1
    <3> QED BY <1>0, <1>1, <2>1, <3>1 DEF AudioInv, Types, Life, Joined, Turns, Asked, Busy, Answered
  <2>2. CASE ~(major <= 5)
    <3>1. ~closing'[s] /\ obj'[s] = "none"
      BY <1>0, <2>2
    <3> QED BY <1>0, <1>1, <2>2, <3>1 DEF AudioInv, Types, Life, Joined, Turns, Asked, Busy, Answered
  <2> QED BY <2>1, <2>2
<1>5. Carried(s)'
  BY <1>0, <1>1, QueueAssumption DEF Carried, Joined, Asked, Busy, Answered, NoCommand
<1> QED BY <1>0, <1>2, <1>3, <1>4, <1>5, StreamStep, AccountsKept DEF StreamInv, AudioInv

\* openOutputStreamCore and openInputStreamCore.
LEMMA NewStreamKeeps ==
  ASSUME NEW s \in Streams, AudioInv, obj[s] = "none", dev.ref, ~dev.closed, NewStream(s)
  PROVE  AudioInv'
<1>0. /\ obj' = [obj EXCEPT ![s] = "opening"] /\ obj'[s] = "opening"
      /\ stop' = [stop EXCEPT ![s] = FALSE] /\ stop'[s] = FALSE
      /\ closing' = [closing EXCEPT ![s] = FALSE] /\ closing'[s] = FALSE
      /\ pc' = [pc EXCEPT ![s] = "none"] /\ pc'[s] = "none"
      /\ hal' = [hal EXCEPT ![s] = "open"] /\ hal'[s] = "open"
      /\ cb' = [cb EXCEPT ![s] = FALSE]
      /\ inCb' = [inCb EXCEPT ![s] = FALSE] /\ inCb'[s] = FALSE
      /\ Loads(s, dev.count + 1) /\ dev.count < MaxCount
      /\ upd' = [upd EXCEPT ![s] = dev.count + 1] /\ upd'[s] = dev.count + 1
      /\ UNCHANGED << major, dev, client, dead >>
  BY DEF NewStream, Loads, AudioInv, Types
<1>1. /\ mq' \in [Streams -> BOOLEAN] /\ ef' \in [Streams -> SUBSET {NOT_EMPTY, NOT_FULL}]
      /\ cmd' \in [Streams -> Seq(Messages)] /\ sts' \in [Streams -> Seq(Messages)]
      /\ data' \in [Streams -> Nat] /\ cur' \in [Streams -> Messages]
      /\ cmd'[s] = << >> /\ sts'[s] = << >> /\ data'[s] = 0 /\ cur'[s] = NoCommand
      /\ \A t \in Streams \ {s} : /\ cmd'[t] = cmd[t] /\ sts'[t] = sts[t]
                                  /\ data'[t] = data[t] /\ cur'[t] = cur[t]
  BY FreshTypes DEF NewStream, AudioInv
<1>2. /\ hal[s] # "open" /\ client[s] = "idle" /\ dev.alive /\ upd[s] = NoUpdate /\ ~closing[s]
  BY DEF AudioInv, Types, Life, Turns, Accounts
<1>3. dev.count + 1 \in 0 .. MaxCount /\ dev.count + 1 # NoUpdate
  BY <1>0, CountAssumption DEF AudioInv, Types, NoUpdate
<1>4. Accounts'
  <2> DEFINE n == dev.count + 1
             h == "open"
  <2>1. /\ n \in Nat /\ h \in {"open", "closed"} /\ Loads(s, n) /\ upd[s] = NoUpdate
        /\ hal' = [hal EXCEPT ![s] = h] /\ hal[s] # h /\ dev' = dev
        /\ n = (IF h = "open" THEN dev.count + 1 ELSE dev.count - 1)
        /\ (h = "open" => ~dev.closed) /\ (h = "open" <=> ~closing[s])
    BY <1>0, <1>2, <1>3, CountAssumption
  <2> HIDE DEF n, h
  <2> QED BY <2>1, LoadAccounts
<1>5. raced' \in {"none", "closes", "opens"}
  BY <1>0 DEF Loads, AudioInv, Types
<1>7. Types'
  BY <1>0, <1>1, <1>3, <1>5 DEF AudioInv, Types
<1>8. \A t \in Streams \ {s} : Same(t)
  BY <1>0, <1>1 DEF AudioInv, Types, Same
<1>9. Life(s)'
  BY <1>0, <1>2, <1>3 DEF Life, Joined
<1>10. Turns(s)'
  BY <1>0, <1>1, <1>2 DEF Turns, Asked, Busy, Answered
<1>11. Carried(s)'
  BY <1>0, <1>1, QueueAssumption DEF Carried, Asked, Busy, Answered, NoCommand
<1> QED BY <1>0, <1>4, <1>7, <1>8, <1>9, <1>10, <1>11, StreamStep DEF StreamInv

\* The return of openOutputStreamCore or openInputStreamCore.
LEMMA OpenReturnsKeeps ==
  ASSUME NEW s \in Streams, AudioInv, OpenReturns(s)
  PROVE  AudioInv'
<1>0. /\ obj[s] = "opening" /\ Pending(s)
      /\ dev' = [dev EXCEPT !.count = upd[s]]
      /\ upd' = [upd EXCEPT ![s] = NoUpdate] /\ upd'[s] = NoUpdate
      /\ obj' = [obj EXCEPT ![s] = "open"] /\ obj'[s] = "open"
      /\ UNCHANGED << major, raced, stop, closing, mq, ef, cmd, data, sts, pc, cur, hal, cb, inCb, client, dead >>
  BY DEF OpenReturns, Pending, threadVars, callbackVars, AudioInv, Types, Life
<1>1. /\ upd[s] \in 0 .. MaxCount /\ dev'.alive = dev.alive
      /\ dev' \in [alive : BOOLEAN, ref : BOOLEAN, closed : BOOLEAN, count : 0 .. MaxCount, hal : BOOLEAN]
  BY <1>0 DEF AudioInv, Types, Pending
<1>2. Accounts'
  BY <1>0, StoreAccounts
<1>3. Types'
  BY <1>0, <1>1 DEF AudioInv, Types
<1>4. \A t \in Streams \ {s} : Same(t)
  BY <1>0 DEF AudioInv, Types, Same
<1>5. Life(s)'
  BY <1>0, <1>1 DEF AudioInv, Types, Life, Joined
<1>6. Turns(s)'
  BY <1>0 DEF AudioInv, Types, Turns, Life, Joined, Asked, Busy, Answered
<1>7. Carried(s)'
  BY <1>0 DEF AudioInv, Carried, Asked, Busy, Answered, Read
<1> QED BY <1>0, <1>1, <1>2, <1>3, <1>4, <1>5, <1>6, <1>7, StreamStep DEF StreamInv

------------------------------------------------------------------------------
\* Steps of the Device and of the client process.  They leave the streams alone.
DeviceStep ==
  /\ UNCHANGED << major, upd, obj, stop, closing, mq, ef, cmd, data, sts, pc, cur, hal, cb, inCb >>

LEMMA DeviceKeeps ==
  ASSUME AudioInv, DeviceStep, UNCHANGED << client, dead >>, raced' \in {raced, "none"},
         dev' \in [alive : BOOLEAN, ref : BOOLEAN, closed : BOOLEAN, count : 0 .. MaxCount, hal : BOOLEAN],
         dev'.alive = dev.alive \/ \A s \in Streams : obj[s] = "none",
         Accounts'
  PROVE  AudioInv'
<1>1. Types'
  BY DEF AudioInv, DeviceStep, Types
<1>2. ASSUME NEW s \in Streams PROVE Life(s)' /\ Turns(s)' /\ Carried(s)'
  BY DEF AudioInv, DeviceStep, Life, Turns, Carried, Asked, Busy, Answered, Read, Joined
<1> QED BY <1>1, <1>2 DEF AudioInv

\* Without streams nothing is counted and no update is under way.
LEMMA NoStreams ==
  ASSUME AudioInv, \A s \in Streams : obj[s] = "none"
  PROVE  /\ Counted = {} /\ Cardinality(Counted) = 0
         /\ \A s \in Streams : hal[s] # "open" /\ ~Pending(s)
<1>1. \A s \in Streams : hal[s] # "open" /\ ~Pending(s)
  BY DEF AudioInv, Life, Pending
<1>2. Counted = {}
  BY <1>1 DEF Counted, Pending
<1> QED BY <1>1, <1>2, FS_EmptySet

LEMMA openDeviceKeeps == ASSUME AudioInv, openDevice PROVE AudioInv'
<1>1. \A s \in Streams : obj[s] = "none"
  BY DEF AudioInv, Life, openDevice
<1>2. /\ Counted = {} /\ Cardinality(Counted) = 0
      /\ \A s \in Streams : hal[s] # "open" /\ ~Pending(s)
  BY <1>1, NoStreams
<1>3. /\ Counted' = Counted /\ UNCHANGED << hal, upd >> /\ raced' = "none"
      /\ dev' = [alive |-> TRUE, ref |-> TRUE, closed |-> FALSE, count |-> 0, hal |-> TRUE]
  BY DEF openDevice, Counted
<1>4. Accounts'
  BY <1>2, <1>3 DEF Accounts, Exact, Enough, Pending
<1>5. dev' \in [alive : BOOLEAN, ref : BOOLEAN, closed : BOOLEAN, count : 0 .. MaxCount, hal : BOOLEAN]
  BY <1>3, CountAssumption
<1> QED
  BY <1>1, <1>3, <1>4, <1>5, DeviceKeeps DEF openDevice, DeviceStep, threadVars, callbackVars

\* Device::doClose closes the legacy device only when no stream is counted.
LEMMA doCloseKeeps ==
  ASSUME AudioInv, \A s \in Streams : obj[s] # "opening"
  PROVE  /\ doClose(dev) \in [alive : BOOLEAN, ref : BOOLEAN, closed : BOOLEAN, count : 0 .. MaxCount, hal : BOOLEAN]
         /\ doClose(dev).alive = dev.alive /\ doClose(dev).ref = dev.ref
         /\ doClose(dev).count = dev.count
         /\ dev.count = 0 => doClose(dev).closed
         /\ doClose(dev).hal => dev.hal
         /\ Enough /\ doClose(dev).closed => ~doClose(dev).hal /\ \A s \in Streams : hal[s] # "open"
<1>1. dev \in [alive : BOOLEAN, ref : BOOLEAN, closed : BOOLEAN, count : 0 .. MaxCount, hal : BOOLEAN]
  BY DEF AudioInv, Types
<1>2. Enough /\ dev.count = 0 => \A s \in Streams : hal[s] # "open"
  <2>1. Enough /\ dev.count = 0 => Counted = {}
    BY CountedFinite DEF Enough
  <2> QED BY <2>1, OpensAndCloses DEF Counted, Pending
<1> QED BY <1>1, <1>2 DEF doClose, Enough

LEMMA DeviceCloseKeeps == ASSUME AudioInv, DeviceClose PROVE AudioInv'
<1>1. /\ dev' = doClose(dev) /\ DeviceStep /\ UNCHANGED << client, dead, raced, hal, upd >>
      /\ Counted' = Counted /\ \A s \in Streams : obj[s] # "opening"
  BY DEF DeviceClose, DeviceStep, threadVars, callbackVars, countVars, Counted
<1>2. dev.alive
  BY DEF DeviceClose, AudioInv, Accounts
<1>3. Exact => Exact'
  BY <1>1, <1>2, doCloseKeeps DEF Exact, Pending
<1>4. Enough => Enough'
  BY <1>1, doCloseKeeps DEF Enough, Pending
<1>5. Accounts'
  BY <1>1, <1>2, <1>3, <1>4, doCloseKeeps DEF AudioInv, Accounts
<1> QED BY <1>1, <1>5, doCloseKeeps, DeviceKeeps

\* The client lets go of the Device, or dies.
LEMMA LetGoAccounts ==
  ASSUME AudioInv, dev' = [dev EXCEPT !.ref = FALSE], UNCHANGED << hal, upd, raced >>
  PROVE  /\ dev' \in [alive : BOOLEAN, ref : BOOLEAN, closed : BOOLEAN, count : 0 .. MaxCount, hal : BOOLEAN]
         /\ dev'.alive = dev.alive /\ Accounts'
<1>1. /\ dev' \in [alive : BOOLEAN, ref : BOOLEAN, closed : BOOLEAN, count : 0 .. MaxCount, hal : BOOLEAN]
      /\ dev'.alive = dev.alive /\ dev'.closed = dev.closed /\ dev'.count = dev.count
      /\ dev'.hal = dev.hal /\ dev'.ref = FALSE
  BY DEF AudioInv, Types
<1>2. Counted' = Counted
  BY DEF Counted
<1> QED BY <1>1, <1>2 DEF AudioInv, Accounts, Exact, Enough, Pending

LEMMA ReleaseDeviceKeeps == ASSUME AudioInv, ReleaseDevice PROVE AudioInv'
<1>1. DeviceStep /\ UNCHANGED << client, dead, raced, hal, upd >> /\ dev' = [dev EXCEPT !.ref = FALSE]
  BY DEF ReleaseDevice, DeviceStep, threadVars, callbackVars, countVars
<1> QED BY <1>1, LetGoAccounts, DeviceKeeps

LEMMA DeviceDestructorKeeps == ASSUME AudioInv, DeviceDestructor PROVE AudioInv'
<1>1. /\ DeviceStep /\ UNCHANGED << client, dead, raced, hal, upd >> /\ Counted' = Counted
      /\ \A s \in Streams : obj[s] = "none"
      /\ dev' = [doClose(dev) EXCEPT !.alive = FALSE] /\ ~dev.ref
  BY DEF DeviceDestructor, DeviceStep, threadVars, callbackVars, countVars, Counted
<1>2. \A s \in Streams : obj[s] # "opening"
  BY <1>1
<1>3. /\ dev' \in [alive : BOOLEAN, ref : BOOLEAN, closed : BOOLEAN, count : 0 .. MaxCount, hal : BOOLEAN]
      /\ dev'.count = dev.count /\ ~dev'.ref /\ dev'.hal = doClose(dev).hal
      /\ dev'.closed = doClose(dev).closed
  BY <1>1, <1>2, doCloseKeeps
<1>4. Cardinality(Counted) = 0 /\ \A s \in Streams : hal[s] # "open" /\ ~Pending(s)
  BY <1>1, NoStreams
<1>5. Enough => Enough'
  BY <1>1, <1>2, <1>3, doCloseKeeps DEF Enough, Pending
<1>6. Exact /\ Enough => Exact'
  <2>1. Exact /\ Enough => ~dev'.hal
    BY <1>2, <1>3, <1>4, doCloseKeeps DEF Exact
  <2> QED BY <1>1, <1>3, <2>1 DEF Exact, Pending
<1>7. Accounts'
  BY <1>1, <1>3, <1>5, <1>6 DEF AudioInv, Accounts
<1> QED BY <1>1, <1>3, <1>7, DeviceKeeps

LEMMA ClientDiesKeeps == ASSUME AudioInv, ClientDies PROVE AudioInv'
<1>1. /\ DeviceStep /\ UNCHANGED << hal, upd, raced >> /\ dead' = TRUE
      /\ client' = [s \in Streams |-> "idle"] /\ dev' = [dev EXCEPT !.ref = FALSE]
  BY DEF ClientDies, DeviceStep, threadVars, callbackVars, countVars
<1>2. /\ dev' \in [alive : BOOLEAN, ref : BOOLEAN, closed : BOOLEAN, count : 0 .. MaxCount, hal : BOOLEAN]
      /\ dev'.alive = dev.alive /\ Accounts'
  BY <1>1, LetGoAccounts
<1>3. Types'
  BY <1>1, <1>2 DEF AudioInv, DeviceStep, Types
<1>4. ASSUME NEW s \in Streams PROVE Life(s)' /\ Turns(s)' /\ Carried(s)'
  BY <1>1, <1>2 DEF AudioInv, DeviceStep, Life, Turns, Carried, Asked, Busy, Answered, Read, Joined
<1> QED BY <1>2, <1>3, <1>4 DEF AudioInv

LEMMA ClientRestartsKeeps == ASSUME AudioInv, ClientRestarts PROVE AudioInv'
<1>1. /\ DeviceStep /\ UNCHANGED << client, dev, hal, upd, raced >> /\ dead' = FALSE
      /\ ~dev.alive
  BY DEF ClientRestarts, DeviceStep, threadVars, callbackVars, countVars
<1>2. Accounts'
  BY <1>1, AccountsKept DEF AudioInv
<1>3. Types'
  BY <1>1 DEF AudioInv, DeviceStep, Types
<1>4. ASSUME NEW s \in Streams PROVE Life(s)' /\ Turns(s)' /\ Carried(s)'
  BY <1>1 DEF AudioInv, DeviceStep, Life, Turns, Carried, Asked, Busy, Answered, Read, Joined
<1> QED BY <1>2, <1>3, <1>4 DEF AudioInv

------------------------------------------------------------------------------
\* A service that has just started.
Fresh ==
  /\ dev = [alive |-> FALSE, ref |-> FALSE, closed |-> FALSE, count |-> 0, hal |-> FALSE]
  /\ upd = [s \in Streams |-> NoUpdate] /\ raced = "none"
  /\ obj = [s \in Streams |-> "none"] /\ stop = [s \in Streams |-> FALSE]
  /\ closing = [s \in Streams |-> FALSE] /\ mq = [s \in Streams |-> FALSE]
  /\ ef = [s \in Streams |-> {}] /\ cmd = [s \in Streams |-> << >>]
  /\ data = [s \in Streams |-> 0] /\ sts = [s \in Streams |-> << >>]
  /\ pc = [s \in Streams |-> "none"] /\ cur = [s \in Streams |-> NoCommand]
  /\ hal = [s \in Streams |-> "closed"]
  /\ cb = [s \in Streams |-> FALSE] /\ inCb = [s \in Streams |-> FALSE]
  /\ client = [s \in Streams |-> "idle"] /\ dead = FALSE

LEMMA FreshInv == major \in MajorVersions /\ Fresh => AudioInv
<1> SUFFICES ASSUME major \in MajorVersions, Fresh PROVE AudioInv
  OBVIOUS
<1>1. << >> \in Seq(Messages) /\ NoCommand \in Messages /\ 0 \in 0 .. MaxCount
  BY CountAssumption DEF NoCommand, Messages, Ops, Results
<1>2. Types
  BY <1>1, MajorAssumption DEF Fresh, Types
<1>3. Counted = {}
  BY DEF Fresh, Counted
<1>4. Accounts
  BY <1>3, FS_EmptySet DEF Fresh, Accounts, Exact, Enough, Pending
<1>5. ASSUME NEW s \in Streams PROVE Life(s) /\ Turns(s) /\ Carried(s)
  BY QueueAssumption DEF Fresh, Life, Turns, Carried, Asked, Busy, Answered, Joined, NoCommand
<1> QED BY <1>2, <1>4, <1>5 DEF AudioInv

\* The fatal check of closeOutputStream and closeInputStream.
LEMMA FatalCountKeeps ==
  ASSUME NEW s \in Streams, AudioInv, FatalCount(s)
  PROVE  AudioInv'
<1>1. Fresh' /\ major' \in MajorVersions
  BY DEF FatalCount, Fresh, AudioInv, Types
<1>2. (major \in MajorVersions /\ Fresh => AudioInv)'
  BY FreshInv, PTL
<1> QED BY <1>1, <1>2

LEMMA AudioInitial == AudioInit => AudioInv
BY FreshInv DEF AudioInit, Fresh

LEMMA AudioStep == AudioInv /\ [AudioNext]_vars => AudioInv'
<1> SUFFICES ASSUME AudioInv, [AudioNext]_vars PROVE AudioInv'
  OBVIOUS
<1>1. CASE openDevice \/ DeviceClose \/ ReleaseDevice \/ DeviceDestructor \/ ClientDies \/ ClientRestarts
  BY <1>1, openDeviceKeeps, DeviceCloseKeeps, ReleaseDeviceKeeps, DeviceDestructorKeeps,
     ClientDiesKeeps, ClientRestartsKeeps
<1>2. ASSUME NEW s \in Streams, openOutputStreamCore(s) \/ openInputStreamCore(s) \/ OpenReturns(s)
      PROVE AudioInv'
  BY <1>2, NewStreamKeeps, OpenReturnsKeeps DEF openOutputStreamCore, openInputStreamCore
<1>3. ASSUME NEW s \in Streams, prepareForWriting(s) \/ prepareForReading(s) PROVE AudioInv'
  BY <1>3, PrepareKeeps DEF prepareForWriting, prepareForReading
<1>4. ASSUME NEW s \in Streams, ClientSends(s) \/ ClientWakes(s) \/ ClientTakes(s) PROVE AudioInv'
  BY <1>4, ClientSendsKeeps, ClientWakesKeeps, ClientTakesKeeps
<1>5. ASSUME NEW s \in Streams, ThreadStep(s) PROVE AudioInv'
  <2>1. CASE WriteThreadLoop(s) \/ ReadThreadLoop(s)
    <3>1. ServesOne(s)
      BY <2>1 DEF WriteThreadLoop, ReadThreadLoop, ServesOne
    <3> QED BY <3>1, ThreadLoopKeeps
  <2> QED BY <1>5, <2>1, ThreadChecksStopKeeps, HalReturnsKeeps, ThreadRepliesKeeps DEF ThreadStep
<1>6. ASSUME NEW s \in Streams, StreamOutClose(s) \/ StreamInClose(s) PROVE AudioInv'
  <2>1. Closes(s)
    BY <1>6 DEF StreamOutClose, StreamInClose, Closes, ThreadBit
  <2> QED BY <2>1, CloseKeeps
<1>7. ASSUME NEW s \in Streams, BeginDestructor(s) PROVE AudioInv'
  BY <1>7, BeginDestructorKeeps
<1>8. ASSUME NEW s \in Streams, TearDown(s) PROVE AudioInv'
  <2>1. CASE StreamOutDestructor(s) \/ StreamInDestructor(s)
    <3>1. EndDestructor(s) /\ cb' \in [Streams -> BOOLEAN]
      BY <2>1 DEF StreamOutDestructor, StreamInDestructor, AudioInv, Types
    <3> QED BY <3>1, EndDestructorKeeps
  <2> QED
    BY <1>8, <2>1, EndCloseKeeps, CloseReturnsKeeps, FatalCountKeeps, CallbackReturnsKeeps DEF TearDown
<1>9. ASSUME NEW s \in Streams, setCallback(s) \/ clearCallback(s) \/ asyncCallback(s) PROVE AudioInv'
  BY <1>9, setCallbackKeeps, clearCallbackKeeps, asyncCallbackKeeps
<1>10. CASE UNCHANGED vars
  <2>1. DeviceStep /\ UNCHANGED << client, dead, dev, hal, upd, raced >>
    BY <1>10 DEF vars, DeviceStep, threadVars, callbackVars, countVars
  <2>2. dev' \in [alive : BOOLEAN, ref : BOOLEAN, closed : BOOLEAN, count : 0 .. MaxCount, hal : BOOLEAN]
    BY <2>1 DEF AudioInv, Types
  <2> QED BY <2>1, <2>2, AccountsKept, DeviceKeeps DEF AudioInv
<1> QED
  BY <1>1, <1>2, <1>3, <1>4, <1>5, <1>6, <1>7, <1>8, <1>9, <1>10 DEF AudioNext

\* The invariant of devices, streams, threads and clients.
THEOREM AudioInvariant == AudioSpec => []AudioInv
BY AudioInitial, AudioStep, PTL DEF AudioSpec

\* WriteThread and ReadThread never outlive their stream, no callback of the legacy
\* HAL runs on a destroyed stream, and no legacy stream is left open by one.
THEOREM LifetimesHold == AudioSpec => []Lifetimes
<1>1. AudioInv => Lifetimes
  BY DEF AudioInv, Life, Lifetimes
<1> QED BY <1>1, AudioInvariant, PTL

\* Up to version 5 the thread is in the legacy HAL only with an open legacy stream,
\* and from version 6 as long as its client lives.
THEOREM HalStreamAlwaysLive == AudioSpec => []HalStreamLive
<1>1. AudioInv => HalStreamLive
  <2> SUFFICES ASSUME AudioInv, NEW s \in Streams, pc[s] = "call", major <= 5 \/ ~dead
               PROVE  hal[s] = "open"
    BY DEF HalStreamLive
  <2>1. obj[s] \in {"open", "destructor"}
    BY DEF AudioInv, Types, Life, Joined
  <2>2. CASE major <= 5
    BY <2>1, <2>2 DEF AudioInv, Life
  <2>3. CASE ~dead
    <3>1. client[s] \in {"sent", "waiting"}
      BY <2>3 DEF AudioInv, Types, Turns, Busy
    <3> QED BY <2>1, <3>1 DEF AudioInv, Life, Turns
  <2> QED BY <2>2, <2>3
<1> QED BY <1>1, AudioInvariant, PTL

\* A status of doWrite or doRead and the data queue agree, whatever the size of the
\* queue and of the request.
THEOREM DataAlwaysMatches == AudioSpec => []DataMatchesReply
<1>1. AudioInv => DataMatchesReply
  BY DEF AudioInv, Turns, Carried, Asked, Busy, Answered, Read, DataMatchesReply
<1> QED BY <1>1, AudioInvariant, PTL

\* mOpenedStreamsCount counts the open legacy streams, however many there are, as long
\* as no updates of it overlap; when only those of closes have, it is never too low,
\* so the fatal check does not fire and no device is closed under a stream; types.
THEOREM DeviceAlwaysAccounts == AudioSpec => []DeviceAccounts
<1>1. AudioInv => DeviceAccounts
  <2> SUFFICES ASSUME AudioInv PROVE DeviceAccounts
    OBVIOUS
  <2>4. data \in [Streams -> 0 .. QueueSize]
    <3>1. \A s \in Streams : data[s] \in 0 .. QueueSize
      BY QueueAssumption DEF AudioInv, Types, Carried
    <3> QED BY <3>1 DEF AudioInv, Types
  <2>5. ASSUME NEW s \in Streams
        PROVE  /\ Len(cmd[s]) <= 1 /\ Len(sts[s]) <= 1
               /\ cur[s].op \in Commands(s) \cup {"none"} /\ cur[s].ret \in Results
    <3>1. Len(cmd[s]) <= 1 /\ Len(sts[s]) <= 1
      <4>1. Len(<< >>) = 0
        OBVIOUS
      <4>2. cmd[s] = << >> \/ Len(cmd[s]) = 1
        BY DEF AudioInv, Carried, Asked
      <4>3. sts[s] = << >> \/ Len(sts[s]) = 1
        BY DEF AudioInv, Carried, Answered
      <4>4. (Len(cmd[s]) = 0 \/ Len(cmd[s]) = 1) /\ (Len(sts[s]) = 0 \/ Len(sts[s]) = 1)
        BY <4>1, <4>2, <4>3, Zenon
      <4>5. \A n : n = 0 \/ n = 1 => n <= 1
        OBVIOUS
      <4> QED BY <4>4, <4>5, Zenon
    <3> QED BY <3>1 DEF AudioInv, Types, Carried, Messages
  <2>6. AudioTypeOK
    BY <2>4, <2>5 DEF AudioInv, Types, AudioTypeOK
  <2> QED BY <2>6 DEF AudioInv, Accounts, Exact, Enough, DeviceAccounts
<1> QED BY <1>1, AudioInvariant, PTL

------------------------------------------------------------------------------
\* The streams implement AudioStreamContract, step by step.
Request(t) ==
  IF client[t] \in {"idle", "closing"} THEN "idle"
  ELSE IF sts[t] # << >> /\ ClientBit(t) \in ef[t] THEN "done" ELSE "pending"
Open(t) == IF hal[t] = "open" THEN "open" ELSE "closed"

LEMMA MappedValues ==
  /\ HalLife = [t \in Streams |-> Open(t)]
  /\ ClientRequest = [t \in Streams |-> Request(t)]
  /\ HalLife' = [t \in Streams |-> Open(t)']
  /\ ClientRequest' = [t \in Streams |-> Request(t)']
BY DEF HalLife, ClientRequest, Open, Request

\* The bit a thread is woken with is not the one its client waits for.
LEMMA BitsDiffer == \A t \in Streams : ThreadBit(t) # ClientBit(t)
BY DEF ThreadBit, ClientBit, NOT_EMPTY, NOT_FULL

\* A step that changes neither what is open nor what is asked is none of the contract.
LEMMA ContractStutter ==
  ASSUME \A t \in Streams : Open(t)' = Open(t) /\ Request(t)' = Request(t)
  PROVE  UNCHANGED << HalLife, ClientRequest >>
<1>1. HalLife' = HalLife
  BY MappedValues
<1>2. ClientRequest' = ClientRequest
  BY MappedValues
<1> QED BY <1>1, <1>2

\* Nothing of a stream that the contract sees is touched.
Unseen(t) == UNCHANGED << hal[t], client[t], sts[t], ef[t] >>

LEMMA UnseenKeeps ==
  ASSUME NEW t \in Streams, Unseen(t)
  PROVE  Open(t)' = Open(t) /\ Request(t)' = Request(t)
BY DEF Unseen, Open, Request, ClientBit

LEMMA OpenRefines ==
  ASSUME NEW s \in Streams, AudioInv, obj[s] = "none", NewStream(s)
  PROVE  Contract!Open(s)
<1>1. \A t \in Streams \ {s} : Unseen(t)
  BY DEF NewStream, FreshQueues, Unseen, AudioInv, Types
<1>2. hal[s] # "open" /\ hal'[s] = "open" /\ client[s] = "idle" /\ client' = client
  <2>1. hal[s] # "open" /\ client[s] = "idle"
    BY DEF AudioInv, Types, Life, Turns
  <2> QED BY <2>1 DEF NewStream, AudioInv, Types
<1>3. Open(s) = "closed" /\ Open(s)' = "open" /\ Request(s) = "idle" /\ Request(s)' = "idle"
  BY <1>2 DEF Open, Request
<1>4. HalLife' = [HalLife EXCEPT ![s] = "open"]
  BY <1>1, <1>3, UnseenKeeps, MappedValues
<1>5. ClientRequest' = ClientRequest
  BY <1>1, <1>3, UnseenKeeps, MappedValues
<1>6. HalLife[s] = "closed" /\ ClientRequest[s] = "idle"
  BY <1>3, MappedValues
<1> QED BY <1>4, <1>5, <1>6 DEF Contract!Open

LEMMA AskRefines ==
  ASSUME NEW s \in Streams, AudioInv, ClientSends(s)
  PROVE  Contract!Ask(s)
<1>1. \A t \in Streams \ {s} : Unseen(t)
  BY DEF ClientSends, Unseen, AudioInv, Types
<1>2. hal[s] = "open" /\ hal' = hal /\ client[s] = "idle" /\ client'[s] = "sent" /\ sts'[s] = << >>
  BY DEF ClientSends, AudioInv, Types, Life, Turns, Answered
<1>3. Open(s) = "open" /\ Open(s)' = "open" /\ Request(s) = "idle" /\ Request(s)' = "pending"
  BY <1>2 DEF Open, Request
<1>4. ClientRequest' = [ClientRequest EXCEPT ![s] = "pending"]
  BY <1>1, <1>3, UnseenKeeps, MappedValues
<1>5. HalLife' = HalLife
  BY <1>1, <1>3, UnseenKeeps, MappedValues
<1>6. HalLife[s] = "open" /\ ClientRequest[s] = "idle"
  BY <1>3, MappedValues
<1> QED BY <1>4, <1>5, <1>6 DEF Contract!Ask

\* The thread's answer serves a live client; that of a dead one is not asked for.
LEMMA ServeRefines ==
  ASSUME NEW s \in Streams, AudioInv, ThreadReplies(s)
  PROVE  Contract!Serve(s) \/ UNCHANGED << HalLife, ClientRequest >>
<1>1. \A t \in Streams \ {s} : Unseen(t)
  BY DEF ThreadReplies, Unseen, AudioInv, Types
<1>2. /\ hal' = hal /\ client' = client /\ sts[s] = << >> /\ sts'[s] # << >>
      /\ ClientBit(s) \in ef'[s] /\ pc[s] = "reply"
  BY DEF ThreadReplies, AudioInv, Types, Turns, Busy, Answered
<1>3. CASE client[s] \in {"idle", "closing"}
  <2>1. Open(s)' = Open(s) /\ Request(s)' = Request(s)
    BY <1>2, <1>3 DEF Open, Request
  <2> QED BY <1>1, <2>1, UnseenKeeps, ContractStutter
<1>4. CASE client[s] \notin {"idle", "closing"}
  <2>1. hal[s] = "open"
    BY <1>4 DEF AudioInv, Types, Turns, Life
  <2>2. Open(s) = "open" /\ Open(s)' = "open" /\ Request(s) = "pending" /\ Request(s)' = "done"
    BY <1>2, <1>4, <2>1 DEF Open, Request, ClientBit
  <2>3. ClientRequest' = [ClientRequest EXCEPT ![s] = "done"]
    BY <1>1, <2>2, UnseenKeeps, MappedValues
  <2>4. HalLife' = HalLife
    BY <1>1, <2>2, UnseenKeeps, MappedValues
  <2>5. HalLife[s] = "open" /\ ClientRequest[s] = "pending"
    BY <2>2, MappedValues
  <2> QED BY <2>3, <2>4, <2>5 DEF Contract!Serve
<1> QED BY <1>3, <1>4

LEMMA TakeRefines ==
  ASSUME NEW s \in Streams, AudioInv, ClientTakes(s)
  PROVE  Contract!Take(s) \/ UNCHANGED << HalLife, ClientRequest >>
<1>1. \A t \in Streams \ {s} : Unseen(t)
  BY DEF ClientTakes, Unseen, AudioInv, Types
<1>2. hal' = hal /\ client[s] = "waiting" /\ ClientBit(s) \in ef[s]
  BY DEF ClientTakes
<1>3. CASE sts[s] = << >>
  <2>1. sts' = sts /\ client' = client
    BY <1>3 DEF ClientTakes
  <2>2. Open(s)' = Open(s) /\ Request(s)' = Request(s)
    BY <1>2, <1>3, <2>1 DEF Open, Request
  <2> QED BY <1>1, <2>2, UnseenKeeps, ContractStutter
<1>4. CASE sts[s] # << >>
  <2>1. client'[s] = "idle"
    BY <1>4 DEF ClientTakes, AudioInv, Types
  <2>2. Open(s)' = Open(s) /\ Request(s) = "done" /\ Request(s)' = "idle"
    BY <1>2, <1>4, <2>1 DEF Open, Request
  <2>3. ClientRequest' = [ClientRequest EXCEPT ![s] = "idle"]
    BY <1>1, <2>2, UnseenKeeps, MappedValues
  <2>4. HalLife' = HalLife
    BY <1>1, <2>2, UnseenKeeps, MappedValues
  <2>5. ClientRequest[s] = "done"
    BY <2>2, MappedValues
  <2> QED BY <2>3, <2>4, <2>5 DEF Contract!Take
<1> QED BY <1>3, <1>4

LEMMA CloseRefines ==
  ASSUME NEW s \in Streams, AudioInv, EndClose(s)
  PROVE  Contract!Close(s)
<1>1. \A t \in Streams \ {s} : Unseen(t)
  BY DEF EndClose, closeHalStream, threadVars, Unseen, AudioInv, Types
<1>2. /\ hal[s] = "open" /\ hal'[s] = "closed" /\ client' = client
      /\ client[s] \in {"idle", "closing"}
  BY DEF EndClose, closeHalStream, AudioInv, Types, Life, Turns
<1>3. Open(s) = "open" /\ Open(s)' = "closed" /\ Request(s) = "idle" /\ Request(s)' = "idle"
  BY <1>2 DEF Open, Request
<1>4. HalLife' = [HalLife EXCEPT ![s] = "closed"]
  BY <1>1, <1>3, UnseenKeeps, MappedValues
<1>5. ClientRequest' = ClientRequest
  BY <1>1, <1>3, UnseenKeeps, MappedValues
<1>6. HalLife[s] = "open" /\ ClientRequest[s] = "idle"
  BY <1>3, MappedValues
<1> QED BY <1>4, <1>5, <1>6 DEF Contract!Close

LEMMA VanishRefines ==
  ASSUME NEW s \in Streams, FatalCount(s)
  PROVE  Contract!Vanish
<1>1. hal' = [t \in Streams |-> "closed"] /\ client' = [t \in Streams |-> "idle"]
  BY DEF FatalCount
<1>2. \A t \in Streams : Open(t)' = "closed" /\ Request(t)' = "idle"
  BY <1>1 DEF Open, Request
<1> QED BY <1>2, MappedValues DEF Contract!Vanish

LEMMA AbandonRefines == ASSUME ClientDies PROVE Contract!Abandon
<1>1. hal' = hal /\ client' = [t \in Streams |-> "idle"]
  BY DEF ClientDies
<1>2. \A t \in Streams : Open(t)' = Open(t) /\ Request(t)' = "idle"
  BY <1>1 DEF Open, Request
<1> QED BY <1>2, MappedValues DEF Contract!Abandon

\* Steps the client does not see: they touch neither hal nor client, and of the event
\* flag only the thread's bit, or the queues of a stream that nobody waits for.
LEMMA WakeStutters ==
  ASSUME NEW s \in Streams, AudioInv, UNCHANGED << hal, sts >>,
         \A t \in Streams \ {s} : Unseen(t),
         ClientBit(s) \in ef'[s] <=> ClientBit(s) \in ef[s],
         Request(s)' = Request(s) \/ (client[s] \in {"sent", "waiting"} /\ client'[s] \in {"sent", "waiting"})
  PROVE  UNCHANGED << HalLife, ClientRequest >>
<1>1. Open(s)' = Open(s) /\ Request(s)' = Request(s)
  BY DEF Open, Request, ClientBit
<1> QED BY <1>1, UnseenKeeps, ContractStutter

LEMMA InvisibleSteps ==
  ASSUME NEW s \in Streams, AudioInv,
         \/ ClientWakes(s) \/ ServesOne(s) \/ Closes(s) \/ CloseReturns(s)
         \/ BeginDestructor(s) \/ EndDestructor(s)
  PROVE  UNCHANGED << HalLife, ClientRequest >>
<1>b. ThreadBit(s) # ClientBit(s) /\ ThreadBit(s) \in {NOT_EMPTY, NOT_FULL}
  BY BitsDiffer DEF ThreadBit
<1>1. CASE ClientWakes(s)
  <2>1. /\ UNCHANGED << hal, sts >> /\ client[s] = "sent" /\ client'[s] = "waiting"
        /\ ef'[s] = ef[s] \cup {ThreadBit(s)} /\ \A t \in Streams \ {s} : Unseen(t)
    BY <1>1 DEF ClientWakes, Unseen, AudioInv, Types
  <2> QED BY <1>b, <2>1, WakeStutters
<1>2. CASE ServesOne(s)
  <2>1. /\ UNCHANGED << hal, sts, client >>
        /\ ef'[s] = ef[s] \ {ThreadBit(s)} /\ \A t \in Streams \ {s} : Unseen(t)
    BY <1>2 DEF ServesOne, Woken, Unseen, AudioInv, Types
  <2>2. Request(s)' = Request(s)
    BY <1>b, <2>1 DEF Request, ClientBit
  <2> QED BY <1>b, <2>1, <2>2, WakeStutters
<1>3. CASE Closes(s)
  <2>1. /\ UNCHANGED << hal, sts >> /\ client[s] = "idle" /\ client'[s] \in {"idle", "closing"}
        /\ ef'[s] \in {ef[s], ef[s] \cup {ThreadBit(s)}} /\ \A t \in Streams \ {s} : Unseen(t)
    BY <1>3 DEF Closes, BeginClose, Unseen, AudioInv, Types
  <2>2. Request(s)' = Request(s)
    BY <2>1 DEF Request
  <2> QED BY <1>b, <2>1, <2>2, WakeStutters
<1>4. CASE BeginDestructor(s)
  <2>1. /\ UNCHANGED << hal, sts, client >> /\ client[s] = "idle"
        /\ ef'[s] \in {ef[s], ef[s] \cup {ThreadBit(s)}} /\ \A t \in Streams \ {s} : Unseen(t)
    BY <1>4 DEF BeginDestructor, BeginClose, Unseen, AudioInv, Types
  <2>2. Request(s)' = Request(s)
    BY <2>1 DEF Request
  <2> QED BY <1>b, <2>1, <2>2, WakeStutters
<1>5. CASE EndDestructor(s)
  <2>1. /\ UNCHANGED << hal, client >> /\ client[s] = "idle" /\ \A t \in Streams \ {s} : Unseen(t)
    BY <1>5 DEF EndDestructor, FreshQueues, Unseen, AudioInv, Types, Turns
  <2>2. Open(s)' = Open(s) /\ Request(s)' = Request(s)
    BY <2>1 DEF Open, Request
  <2> QED BY <2>1, <2>2, UnseenKeeps, ContractStutter
<1>6. CASE CloseReturns(s)
  <2>1. /\ UNCHANGED << hal, sts, ef >> /\ client'[s] = "idle" /\ \A t \in Streams \ {s} : Unseen(t)
        /\ client[s] \in {"idle", "closing"}
    BY <1>6 DEF CloseReturns, Unseen, threadVars, AudioInv, Types, Life, Turns
  <2>2. Request(s)' = Request(s)
    BY <2>1 DEF Request
  <2> QED BY <2>1, <2>2, WakeStutters
<1> QED BY <1>1, <1>2, <1>3, <1>4, <1>5, <1>6

LEMMA ContractStep ==
  AudioInv /\ [AudioNext]_vars => Contract!ContractNext \/ UNCHANGED << HalLife, ClientRequest >>
<1> SUFFICES ASSUME AudioInv, [AudioNext]_vars
             PROVE  Contract!ContractNext \/ UNCHANGED << HalLife, ClientRequest >>
  OBVIOUS
<1>a. ASSUME UNCHANGED << hal, client, sts, ef >> PROVE UNCHANGED << HalLife, ClientRequest >>
  BY <1>a, UnseenKeeps, ContractStutter DEF Unseen
<1>1. CASE openDevice \/ DeviceClose \/ ReleaseDevice \/ DeviceDestructor \/ ClientRestarts
  BY <1>1, <1>a DEF openDevice, DeviceClose, ReleaseDevice, DeviceDestructor, ClientRestarts, threadVars
<1>2. CASE ClientDies
  BY <1>2, AbandonRefines DEF Contract!ContractNext
<1>3. ASSUME NEW s \in Streams, openOutputStreamCore(s) \/ openInputStreamCore(s)
      PROVE  Contract!ContractNext
  BY <1>3, OpenRefines DEF openOutputStreamCore, openInputStreamCore, Contract!ContractNext
<1>4. ASSUME NEW s \in Streams,
             \/ OpenReturns(s)
             \/ prepareForWriting(s) \/ prepareForReading(s) \/ ThreadChecksStop(s) \/ HalReturns(s)
             \/ CallbackReturns(s) \/ setCallback(s) \/ clearCallback(s) \/ asyncCallback(s)
      PROVE  UNCHANGED << HalLife, ClientRequest >>
  BY <1>4, <1>a DEF OpenReturns, prepareForWriting, prepareForReading, Prepare, ThreadChecksStop, HalReturns,
     CallbackReturns, setCallback, clearCallback, asyncCallback, threadVars
<1>5. ASSUME NEW s \in Streams, ClientSends(s) PROVE Contract!ContractNext
  BY <1>5, AskRefines DEF Contract!ContractNext
<1>6. ASSUME NEW s \in Streams, ClientTakes(s)
      PROVE  Contract!ContractNext \/ UNCHANGED << HalLife, ClientRequest >>
  BY <1>6, TakeRefines DEF Contract!ContractNext
<1>7. ASSUME NEW s \in Streams, ThreadReplies(s)
      PROVE  Contract!ContractNext \/ UNCHANGED << HalLife, ClientRequest >>
  BY <1>7, ServeRefines DEF Contract!ContractNext
<1>8. ASSUME NEW s \in Streams, EndClose(s) \/ FatalCount(s) PROVE Contract!ContractNext
  BY <1>8, CloseRefines, VanishRefines DEF Contract!ContractNext
<1>9. ASSUME NEW s \in Streams, ClientWakes(s) \/ BeginDestructor(s) \/ CloseReturns(s)
      PROVE  UNCHANGED << HalLife, ClientRequest >>
  BY <1>9, InvisibleSteps
<1>10. ASSUME NEW s \in Streams, WriteThreadLoop(s) \/ ReadThreadLoop(s)
       PROVE  UNCHANGED << HalLife, ClientRequest >>
  <2>1. ServesOne(s)
    BY <1>10 DEF WriteThreadLoop, ReadThreadLoop, ServesOne
  <2> QED BY <2>1, InvisibleSteps
<1>11. ASSUME NEW s \in Streams, StreamOutClose(s) \/ StreamInClose(s)
       PROVE  UNCHANGED << HalLife, ClientRequest >>
  <2>1. Closes(s)
    BY <1>11 DEF StreamOutClose, StreamInClose, Closes, ThreadBit
  <2> QED BY <2>1, InvisibleSteps
<1>12. ASSUME NEW s \in Streams, StreamOutDestructor(s) \/ StreamInDestructor(s)
       PROVE  UNCHANGED << HalLife, ClientRequest >>
  BY <1>12, InvisibleSteps DEF StreamOutDestructor, StreamInDestructor
<1>13. CASE UNCHANGED vars
  BY <1>13, <1>a DEF vars, threadVars
<1> QED
  BY <1>1, <1>2, <1>3, <1>4, <1>5, <1>6, <1>7, <1>8, <1>9, <1>10, <1>11, <1>12, <1>13
     DEF AudioNext, ThreadStep, TearDown

\* Every command is answered at most once and while the legacy stream is open, and a
\* stream is not closed under the command of a live client: the safety part of
\* MeetsContract, for every version and any number of streams.
THEOREM StreamsMeetContract == AudioSpec => Contract!ContractSafety
<1>1. AudioInit => Contract!ContractInit
  BY DEF AudioInit, Contract!ContractInit, HalLife, ClientRequest
<1>2. AudioInv /\ [AudioNext]_vars => [Contract!ContractNext]_(Contract!contractVars)
  BY ContractStep DEF Contract!contractVars
<1> QED BY <1>1, <1>2, AudioInvariant, PTL DEF AudioSpec, Contract!ContractSafety

==============================================================================
