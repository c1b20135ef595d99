---------------------------- MODULE AudioHalStreams ----------------------------
(***************************************************************************)
(* The HIDL audio service (audio/hal): a Device that wraps a legacy HAL    *)
(* device, and StreamOut and StreamIn objects that wrap its streams.  A    *)
(* stream the client has prepared owns a thread that serves commands from  *)
(* a message queue and is tied to the client by an event flag; the legacy  *)
(* HAL calls back on a thread of its own; close() and the destructor tear  *)
(* all of that down in an order that depends on the interface version.     *)
(*                                                                         *)
(* The client calls one stream from one thread and does not close a stream *)
(* while it waits for an answer; it may die at any moment.  It opens and   *)
(* closes different streams from different threads, and the service runs   *)
(* calls and destructors on a pool of threads: Device updates the plain    *)
(* int mOpenedStreamsCount without a lock, so its load and its store are   *)
(* two steps, and updates that overlap get lost.                           *)
(***************************************************************************)
EXTENDS Integers, Sequences, FiniteSets

CONSTANTS Streams,         \* the streams a device can have open
          Outputs,         \* those that are output streams
          MajorVersions,   \* the interface versions the code is built for
          OutCommands,     \* the commands a client puts to an output stream
          InCommands,      \* and to an input stream
          QueueSize,       \* bytes in a data queue
          MaxCount         \* bound: values of mOpenedStreamsCount

ASSUME StreamsAssumption == Outputs \subseteq Streams /\ IsFiniteSet(Streams)
ASSUME QueueAssumption == QueueSize \in Nat \ {0}
ASSUME CountAssumption == MaxCount \in Nat
ASSUME MajorAssumption == MajorVersions \subseteq Nat

VARIABLES
  major,    \* the version this service was built for
  dev,      \* the Device: alive, the client's reference, mIsClosed,
            \* mOpenedStreamsCount, and whether the legacy device is open
  upd,      \* upd[s]: the value a call for s has loaded from mOpenedStreamsCount,
            \* changed and not yet stored, or NoUpdate
  raced,    \* which updates of this Device's counter have overlapped: "none", those
            \* of "closes" only, or also those of "opens"
  obj,      \* obj[s]: StreamOut/StreamIn is "none", "opening", "open", in its
            \* "destructor" and waiting for its thread, or "leaving" it and closing
            \* the legacy stream
  stop,     \* stop[s]: mStopWriteThread / mStopReadThread
  closing,  \* closing[s]: close() is in Device::closeOutputStream/closeInputStream
  mq,       \* mq[s]: mDataMQ is set
  ef,       \* ef[s]: the bits of the event flag
  cmd,      \* cmd[s]: the command queue, of length 1
  data,     \* data[s]: bytes in the data queue
  sts,      \* sts[s]: the status queue, of length 1
  pc,       \* pc[s]: where the stream's thread is
  cur,      \* cur[s]: the command it is serving, then its status
  hal,      \* hal[s]: the legacy stream is "open", or "closed" as before the first open
  cb,       \* cb[s]: mCallback is set, and the legacy stream has been given asyncCallback
  inCb,     \* inCb[s]: the legacy HAL's thread is in asyncCallback
  client,   \* client[s]: the client is "idle", has "sent", is "waiting" or "closing"
  dead      \* the client process has died and its references are being dropped

countVars == << upd, raced >>
threadVars == << mq, ef, cmd, data, sts, pc, cur >>
callbackVars == << cb, inCb >>
vars == << major, dev, countVars, obj, stop, closing, threadVars, hal, callbackVars, client, dead >>

(* The bit the thread of a stream waits for, and the bit it wakes.         *)
NOT_EMPTY == "NOT_EMPTY"
NOT_FULL == "NOT_FULL"
ThreadBit(s) == IF s \in Outputs THEN NOT_EMPTY ELSE NOT_FULL
ClientBit(s) == IF s \in Outputs THEN NOT_FULL ELSE NOT_EMPTY

WriteCommands == {"WRITE", "GET_PRESENTATION_POSITION", "GET_LATENCY", "other"}
ReadCommands == {"READ", "GET_CAPTURE_POSITION", "other"}
ASSUME CommandAssumption == OutCommands \subseteq WriteCommands /\ InCommands \subseteq ReadCommands
Commands(s) == IF s \in Outputs THEN OutCommands ELSE InCommands

Results == {"OK", "NOT_SUPPORTED", "INVALID_STATE"}
NoUpdate == -1
NoCommand == [op |-> "none", ret |-> "OK", n |-> 0]

Least(a, b) == IF a < b THEN a ELSE b

AudioInit ==
  /\ major \in MajorVersions
  /\ dev = [alive |-> FALSE, ref |-> FALSE, closed |-> FALSE, count |-> 0, hal |-> FALSE]
  /\ upd = [s \in Streams |-> NoUpdate]
  /\ raced = "none"
  /\ obj = [s \in Streams |-> "none"]
  /\ stop = [s \in Streams |-> FALSE]
  /\ closing = [s \in Streams |-> FALSE]
  /\ mq = [s \in Streams |-> FALSE]
  /\ ef = [s \in Streams |-> {}]
  /\ cmd = [s \in Streams |-> << >>]
  /\ data = [s \in Streams |-> 0]
  /\ sts = [s \in Streams |-> << >>]
  /\ pc = [s \in Streams |-> "none"]
  /\ cur = [s \in Streams |-> NoCommand]
  /\ hal = [s \in Streams |-> "closed"]
  /\ cb = [s \in Streams |-> FALSE]
  /\ inCb = [s \in Streams |-> FALSE]
  /\ client = [s \in Streams |-> "idle"]
  /\ dead = FALSE

(***************************************************************************)
(* The device.                                                             *)
(***************************************************************************)

(* DevicesFactory::openDevice; loadAudioInterface closes a legacy device   *)
(* whose version is too old and the call fails, so nothing is left open.   *)
openDevice ==
  /\ ~dev.alive /\ ~dead
  /\ dev' = [alive |-> TRUE, ref |-> TRUE, closed |-> FALSE, count |-> 0, hal |-> TRUE]
  /\ raced' = "none"
  /\ UNCHANGED << major, upd, obj, stop, closing, threadVars, hal, callbackVars, client, dead >>

(* No queues, as before prepareForWriting or prepareForReading.            *)
FreshQueues(s) ==
  /\ mq' = [mq EXCEPT ![s] = FALSE]
  /\ ef' = [ef EXCEPT ![s] = {}]
  /\ cmd' = [cmd EXCEPT ![s] = << >>]
  /\ data' = [data EXCEPT ![s] = 0]
  /\ sts' = [sts EXCEPT ![s] = << >>]
  /\ cur' = [cur EXCEPT ![s] = NoCommand]

(* A call for s loads the counter, to store n; the updates it overlaps are *)
(* those under way.                                                        *)
Loads(s, n) ==
  /\ upd' = [upd EXCEPT ![s] = n]
  /\ LET under == {t \in Streams : upd[t] # NoUpdate}
     IN  raced' = IF under = {} THEN raced
                  ELSE IF ~closing[s] \/ \E t \in under : obj[t] = "opening" THEN "opens"
                  ELSE IF raced = "none" THEN "closes" ELSE raced

(* A new StreamOut or StreamIn around an opened legacy stream; the call is *)
(* about to store the new count.                                           *)
NewStream(s) ==
  /\ dev.count < MaxCount /\ Loads(s, dev.count + 1)
  /\ obj' = [obj EXCEPT ![s] = "opening"]
  /\ stop' = [stop EXCEPT ![s] = FALSE]
  /\ closing' = [closing EXCEPT ![s] = FALSE]
  /\ FreshQueues(s)
  /\ pc' = [pc EXCEPT ![s] = "none"]
  /\ hal' = [hal EXCEPT ![s] = "open"]
  /\ cb' = [cb EXCEPT ![s] = FALSE]
  /\ inCb' = [inCb EXCEPT ![s] = FALSE]
  /\ UNCHANGED << major, dev, client, dead >>

(* A call that fails, in a conversion or in the legacy HAL, changes        *)
(* nothing.  The client does not use a device it has closed.               *)
openOutputStreamCore(s) ==
  /\ s \in Outputs
  /\ obj[s] = "none" /\ dev.ref /\ ~dev.closed
  /\ NewStream(s)

openInputStreamCore(s) ==
  /\ s \in Streams \ Outputs
  /\ obj[s] = "none" /\ dev.ref /\ ~dev.closed
  /\ NewStream(s)

(* The count is stored and the client given the stream.                    *)
OpenReturns(s) ==
  /\ obj[s] = "opening"
  /\ dev' = [dev EXCEPT !.count = upd[s]]
  /\ upd' = [upd EXCEPT ![s] = NoUpdate]
  /\ obj' = [obj EXCEPT ![s] = "open"]
  /\ UNCHANGED << major, raced, stop, closing, threadVars, hal, callbackVars, client, dead >>

\* Mutant: a device with open streams can be closed.
doCloseUnchecked(d) ==
  IF d.closed THEN d ELSE [d EXCEPT !.closed = TRUE, !.hal = FALSE]

(* Device::doClose.                                                        *)
doClose(d) ==
  IF d.closed \/ d.count # 0 THEN d ELSE [d EXCEPT !.closed = TRUE, !.hal = FALSE]

(* The client does not close a device that it is opening a stream of.      *)
DeviceClose ==
  /\ major >= 6 /\ dev.ref
  /\ \A s \in Streams : obj[s] # "opening"
  /\ dev' = doClose(dev)
  /\ UNCHANGED << major, countVars, obj, stop, closing, threadVars, hal, callbackVars, client, dead >>

(* The client drops its reference; every stream holds another one.         *)
ReleaseDevice ==
  /\ dev.ref
  /\ dev' = [dev EXCEPT !.ref = FALSE]
  /\ UNCHANGED << major, countVars, obj, stop, closing, threadVars, hal, callbackVars, client, dead >>

DeviceDestructor ==
  /\ dev.alive /\ ~dev.ref
  /\ \A s \in Streams : obj[s] = "none"
  /\ dev' = [doClose(dev) EXCEPT !.alive = FALSE]
  /\ UNCHANGED << major, countVars, obj, stop, closing, threadVars, hal, callbackVars, client, dead >>

(* Device::closeOutputStream and closeInputStream.  The legacy HAL waits   *)
(* for a callback to finish and joins its callback thread; then the        *)
(* counter is loaded, once for the fatal check and the decrement.          *)
closeHalStream(s) ==
  /\ ~inCb[s] /\ upd[s] = NoUpdate
  /\ dev.count # 0
  /\ hal' = [hal EXCEPT ![s] = "closed"]
  /\ Loads(s, dev.count - 1)

(* LOG_ALWAYS_FATAL_IF: the service dies with all it has open, and the     *)
(* client, which cannot do without it, starts again.                       *)
FatalCount(s) ==
  /\ closing[s] /\ ~inCb[s] /\ upd[s] = NoUpdate
  /\ dev.count = 0
  /\ dev' = [alive |-> FALSE, ref |-> FALSE, closed |-> FALSE, count |-> 0, hal |-> FALSE]
  /\ upd' = [t \in Streams |-> NoUpdate]
  /\ raced' = "none"
  /\ obj' = [t \in Streams |-> "none"]
  /\ stop' = [t \in Streams |-> FALSE]
  /\ closing' = [t \in Streams |-> FALSE]
  /\ mq' = [t \in Streams |-> FALSE]
  /\ ef' = [t \in Streams |-> {}]
  /\ cmd' = [t \in Streams |-> << >>]
  /\ data' = [t \in Streams |-> 0]
  /\ sts' = [t \in Streams |-> << >>]
  /\ pc' = [t \in Streams |-> "none"]
  /\ cur' = [t \in Streams |-> NoCommand]
  /\ hal' = [t \in Streams |-> "closed"]
  /\ cb' = [t \in Streams |-> FALSE]
  /\ inCb' = [t \in Streams |-> FALSE]
  /\ client' = [t \in Streams |-> "idle"]
  /\ dead' = FALSE
  /\ UNCHANGED major

(***************************************************************************)
(* Preparing a stream: the queues and the thread.  Any failure on the way  *)
(* (sizes, queues, event flag, thread) leaves the stream as it was.        *)
(***************************************************************************)

Prepare(s) ==
  /\ obj[s] = "open" /\ client[s] = "idle" /\ ~dead
  /\ ~mq[s]
  /\ mq' = [mq EXCEPT ![s] = TRUE]
  /\ pc' = [pc EXCEPT ![s] = "loop"]
  /\ UNCHANGED << major, dev, countVars, obj, stop, closing, ef, cmd, data, sts, cur, hal,
                  callbackVars, client, dead >>

prepareForWriting(s) == s \in Outputs /\ Prepare(s)
prepareForReading(s) == s \in Streams \ Outputs /\ Prepare(s)

(***************************************************************************)
(* The client's side of the queues.                                        *)
(***************************************************************************)

(* A command, with the bytes to write or the number of bytes wanted.       *)
ClientSends(s) ==
  /\ obj[s] = "open" /\ client[s] = "idle" /\ ~dead
  /\ mq[s] /\ ~stop[s]
  /\ \E op \in Commands(s), n \in 1 .. QueueSize + 1 :
       /\ op = "WRITE" => n <= QueueSize - data[s]
       /\ op \notin {"WRITE", "READ"} => n = 1
       /\ cmd' = [cmd EXCEPT ![s] = << [op |-> op, ret |-> "OK", n |-> n] >>]
       /\ data' = [data EXCEPT ![s] = IF op = "WRITE" THEN @ + n ELSE @]
  /\ client' = [client EXCEPT ![s] = "sent"]
  /\ UNCHANGED << major, dev, countVars, obj, stop, closing, mq, ef, sts, pc, cur, hal, callbackVars, dead >>

ClientWakes(s) ==
  /\ client[s] = "sent" /\ ~dead
  /\ ef' = [ef EXCEPT ![s] = @ \cup {ThreadBit(s)}]
  /\ client' = [client EXCEPT ![s] = "waiting"]
  /\ UNCHANGED << major, dev, countVars, obj, stop, closing, mq, cmd, data, sts, pc, cur, hal,
                  callbackVars, dead >>

(* The client is woken, takes the status and the bytes it announces.       *)
ClientTakes(s) ==
  /\ client[s] = "waiting" /\ ~dead
  /\ ClientBit(s) \in ef[s]
  /\ ef' = [ef EXCEPT ![s] = @ \ {ClientBit(s)}]
  /\ \/ /\ sts[s] = << >>
        /\ UNCHANGED << sts, data, client >>
     \/ /\ sts[s] # << >>
        /\ sts' = [sts EXCEPT ![s] = << >>]
        /\ data' = [data EXCEPT ![s] =
                      IF Head(sts[s]).op = "READ" /\ Head(sts[s]).ret = "OK"
                        THEN @ - Least(@, Head(sts[s]).n) ELSE @]
        /\ client' = [client EXCEPT ![s] = "idle"]
  /\ UNCHANGED << major, dev, countVars, obj, stop, closing, mq, cmd, pc, cur, hal, callbackVars, dead >>

ClientDies ==
  /\ ~dead /\ dev.alive
  /\ dead' = TRUE
  /\ dev' = [dev EXCEPT !.ref = FALSE]
  /\ client' = [s \in Streams |-> "idle"]
  /\ UNCHANGED << major, countVars, obj, stop, closing, threadVars, hal, callbackVars >>

(* A new client process, once the references of the old one are gone.      *)
ClientRestarts ==
  /\ dead /\ ~dev.alive
  /\ dead' = FALSE
  /\ UNCHANGED << major, dev, countVars, obj, stop, closing, threadVars, hal, callbackVars, client >>

(***************************************************************************)
(* The stream's thread: WriteThread and ReadThread.                        *)
(***************************************************************************)

(* The head of threadLoop.                                                 *)
ThreadChecksStop(s) ==
  /\ pc[s] = "loop"
  /\ pc' = [pc EXCEPT ![s] = IF stop[s] THEN "exit" ELSE "wait"]
  /\ UNCHANGED << major, dev, countVars, obj, stop, closing, mq, ef, cmd, data, sts, cur, hal,
                  callbackVars, client, dead >>

(* The wait for the event flag, which clears the bit; without a command    *)
(* there is nothing to do.                                                 *)
Woken(s) ==
  /\ pc[s] = "wait"
  /\ ThreadBit(s) \in ef[s]
  /\ ef' = [ef EXCEPT ![s] = @ \ {ThreadBit(s)}]
  /\ cmd' = [cmd EXCEPT ![s] = << >>]

(* doWrite takes everything that is in the data queue.                     *)
doWrite(s, c) ==
  /\ cur' = [cur EXCEPT ![s] = [c EXCEPT !.n = data[s]]]
  /\ data' = [data EXCEPT ![s] = 0]

\* Mutant: the request is passed on whatever room there is.
doReadUntruncated(s, c) ==
  /\ cur' = [cur EXCEPT ![s] = c]
  /\ UNCHANGED data

(* doRead asks the legacy HAL for no more than fits in the data queue.     *)
doRead(s, c) ==
  /\ cur' = [cur EXCEPT ![s] = [c EXCEPT !.n = Least(@, QueueSize - data[s])]]
  /\ UNCHANGED data

(* The dispatch of a command; an unknown one is answered at once.          *)
Dispatch(s, c) ==
  /\ CASE c.op = "WRITE" -> doWrite(s, c)
       [] c.op = "READ" -> doRead(s, c)
       [] c.op = "other" -> cur' = [cur EXCEPT ![s] = [c EXCEPT !.ret = "NOT_SUPPORTED"]] /\ UNCHANGED data
       [] OTHER -> cur' = [cur EXCEPT ![s] = c] /\ UNCHANGED data
  /\ pc' = [pc EXCEPT ![s] = IF c.op = "other" THEN "reply" ELSE "call"]

WriteThreadLoop(s) ==
  /\ s \in Outputs /\ Woken(s)
  /\ IF cmd[s] = << >>
       THEN pc' = [pc EXCEPT ![s] = "loop"] /\ UNCHANGED << cur, data >>
       ELSE Dispatch(s, Head(cmd[s]))
  /\ UNCHANGED << major, dev, countVars, obj, stop, closing, mq, sts, hal, callbackVars, client, dead >>

ReadThreadLoop(s) ==
  /\ s \in Streams \ Outputs /\ Woken(s)
  /\ IF cmd[s] = << >>
       THEN pc' = [pc EXCEPT ![s] = "loop"] /\ UNCHANGED << cur, data >>
       ELSE Dispatch(s, Head(cmd[s]))
  /\ UNCHANGED << major, dev, countVars, obj, stop, closing, mq, sts, hal, callbackVars, client, dead >>

(* The legacy HAL returns a number of bytes or an error; bytes read go to  *)
(* the data queue, whose write is all or nothing.                          *)
HalReturns(s) ==
  /\ pc[s] = "call"
  /\ \/ \E k \in 0 .. cur[s].n :
          /\ cur' = [cur EXCEPT ![s].n = k]
          /\ data' = [data EXCEPT ![s] =
                        IF cur[s].op = "READ" /\ @ + k <= QueueSize THEN @ + k ELSE @]
     \/ /\ cur' = [cur EXCEPT ![s].ret = "INVALID_STATE"]
        /\ UNCHANGED data
  /\ pc' = [pc EXCEPT ![s] = "reply"]
  /\ UNCHANGED << major, dev, countVars, obj, stop, closing, mq, ef, cmd, sts, hal, callbackVars,
                  client, dead >>

\* Mutant: the client is not woken.
ThreadRepliesSilently(s) ==
  /\ pc[s] = "reply"
  /\ sts' = [sts EXCEPT ![s] = IF @ = << >> THEN << cur[s] >> ELSE @]
  /\ pc' = [pc EXCEPT ![s] = "loop"]
  /\ cur' = [cur EXCEPT ![s] = NoCommand]
  /\ UNCHANGED << major, dev, countVars, obj, stop, closing, mq, ef, cmd, data, hal, callbackVars,
                  client, dead >>

(* The status is written, or lost when the queue is full, and the client   *)
(* is woken.                                                               *)
ThreadReplies(s) ==
  /\ pc[s] = "reply"
  /\ sts' = [sts EXCEPT ![s] = IF @ = << >> THEN << cur[s] >> ELSE @]
  /\ ef' = [ef EXCEPT ![s] = @ \cup {ClientBit(s)}]
  /\ pc' = [pc EXCEPT ![s] = "loop"]
  /\ cur' = [cur EXCEPT ![s] = NoCommand]
  /\ UNCHANGED << major, dev, countVars, obj, stop, closing, mq, cmd, data, hal, callbackVars,
                  client, dead >>

(***************************************************************************)
(* close() and the destructor.  From version 6 close() closes the legacy   *)
(* stream; before, the destructor does, after it has joined the thread.    *)
(***************************************************************************)

\* Mutant: the thread is told to stop and not woken.
BeginCloseAsleep(s, bit) ==
  /\ stop' = [stop EXCEPT ![s] = TRUE]
  /\ closing' = [closing EXCEPT ![s] = major >= 6]
  /\ UNCHANGED ef

(* close() up to the call into the legacy HAL; a second close() is         *)
(* refused and changes nothing.                                            *)
BeginClose(s, bit) ==
  /\ stop' = [stop EXCEPT ![s] = TRUE]
  /\ ef' = [ef EXCEPT ![s] = IF mq[s] THEN @ \cup {bit} ELSE @]
  /\ closing' = [closing EXCEPT ![s] = major >= 6]

StreamOutClose(s) ==
  /\ s \in Outputs
  /\ obj[s] = "open" /\ client[s] = "idle" /\ ~dead /\ ~stop[s]
  /\ BeginClose(s, NOT_EMPTY)
  /\ client' = [client EXCEPT ![s] = IF major >= 6 THEN "closing" ELSE "idle"]
  /\ UNCHANGED << major, dev, countVars, obj, mq, cmd, data, sts, pc, cur, hal, callbackVars, dead >>

StreamInClose(s) ==
  /\ s \in Streams \ Outputs
  /\ obj[s] = "open" /\ client[s] = "idle" /\ ~dead /\ ~stop[s]
  /\ BeginClose(s, NOT_FULL)
  /\ client' = [client EXCEPT ![s] = IF major >= 6 THEN "closing" ELSE "idle"]
  /\ UNCHANGED << major, dev, countVars, obj, mq, cmd, data, sts, pc, cur, hal, callbackVars, dead >>

EndClose(s) ==
  /\ closing[s]
  /\ closeHalStream(s)
  /\ UNCHANGED << major, dev, obj, stop, closing, threadVars, cb, inCb, client, dead >>

(* The decremented count is stored, and close() or the destructor returns. *)
CloseReturns(s) ==
  /\ closing[s] /\ upd[s] # NoUpdate
  /\ dev' = [dev EXCEPT !.count = upd[s]]
  /\ upd' = [upd EXCEPT ![s] = NoUpdate]
  /\ closing' = [closing EXCEPT ![s] = FALSE]
  /\ client' = [client EXCEPT ![s] = "idle"]
  /\ obj' = [obj EXCEPT ![s] = IF @ = "leaving" THEN "none" ELSE @]
  /\ UNCHANGED << major, raced, stop, threadVars, hal, callbackVars, dead >>

(* The last reference is dropped, by the client or by its death, when no   *)
(* call on the stream is in progress; the destructor starts with close().  *)
BeginDestructor(s) ==
  /\ obj[s] = "open" /\ client[s] = "idle" /\ ~closing[s]
  /\ obj' = [obj EXCEPT ![s] = "destructor"]
  /\ IF stop[s] THEN UNCHANGED << stop, ef, closing >> ELSE BeginClose(s, ThreadBit(s))
  /\ UNCHANGED << major, dev, countVars, mq, cmd, data, sts, pc, cur, hal, callbackVars, client, dead >>

\* Mutants: the destructor does not wait for the thread; it leaves the legacy
\* stream open.
NotJoined(s) == TRUE

(* The thread is joined, the event flag deleted, mCallback cleared, and    *)
(* before version 6 the legacy stream is closed.  The queues go with the   *)
(* object.                                                                 *)
Joined(s) == pc[s] \in {"none", "exit"}

EndDestructorLeaking(s) ==
  /\ obj[s] = "destructor" /\ ~closing[s] /\ Joined(s)
  /\ obj' = [obj EXCEPT ![s] = "none"]
  /\ FreshQueues(s)
  /\ UNCHANGED << major, dev, countVars, stop, closing, pc, hal, inCb, client, dead >>

EndDestructor(s) ==
  /\ obj[s] = "destructor" /\ ~closing[s] /\ Joined(s)
  /\ closing' = [closing EXCEPT ![s] = major <= 5]
  /\ obj' = [obj EXCEPT ![s] = IF major <= 5 THEN "leaving" ELSE "none"]
  /\ FreshQueues(s)
  /\ UNCHANGED << major, dev, countVars, stop, pc, hal, inCb, client, dead >>

StreamOutDestructor(s) ==
  /\ s \in Outputs
  /\ EndDestructor(s)
  /\ cb' = [cb EXCEPT ![s] = FALSE]

StreamInDestructor(s) ==
  /\ s \in Streams \ Outputs
  /\ EndDestructor(s)
  /\ UNCHANGED cb

(***************************************************************************)
(* Callbacks of output streams; the event and the latency mode callback    *)
(* are set and called the same way.                                        *)
(***************************************************************************)

setCallback(s) ==
  /\ s \in Outputs /\ obj[s] = "open" /\ client[s] = "idle" /\ ~dead
  /\ ~stop[s]
  /\ cb' = [cb EXCEPT ![s] = TRUE]
  /\ UNCHANGED << major, dev, countVars, obj, stop, closing, threadVars, hal, inCb, client, dead >>

clearCallback(s) ==
  /\ s \in Outputs /\ obj[s] = "open" /\ client[s] = "idle" /\ ~dead
  /\ ~stop[s]
  /\ cb' = [cb EXCEPT ![s] = FALSE]
  /\ UNCHANGED << major, dev, countVars, obj, stop, closing, threadVars, hal, inCb, client, dead >>

(* asyncCallback on the legacy HAL's thread: it loads mCallback and calls  *)
(* the client if it is set, or returns.  A legacy stream that is being     *)
(* closed starts no new callback.                                          *)
asyncCallback(s) ==
  /\ hal[s] = "open" /\ ~inCb[s] /\ ~closing[s]
  /\ cb[s]
  /\ inCb' = [inCb EXCEPT ![s] = TRUE]
  /\ UNCHANGED << major, dev, countVars, obj, stop, closing, threadVars, hal, cb, client, dead >>

CallbackReturns(s) ==
  /\ inCb[s]
  /\ inCb' = [inCb EXCEPT ![s] = FALSE]
  /\ UNCHANGED << major, dev, countVars, obj, stop, closing, threadVars, hal, cb, client, dead >>

(***************************************************************************)

ThreadStep(s) ==
  ThreadChecksStop(s) \/ WriteThreadLoop(s) \/ ReadThreadLoop(s) \/ HalReturns(s) \/ ThreadReplies(s)

TearDown(s) ==
  \/ EndClose(s) \/ CloseReturns(s) \/ FatalCount(s)
  \/ StreamOutDestructor(s) \/ StreamInDestructor(s) \/ CallbackReturns(s)

AudioNext ==
  \/ openDevice \/ DeviceClose \/ ReleaseDevice \/ DeviceDestructor
  \/ ClientDies \/ ClientRestarts
  \/ \E s \in Streams :
       \/ openOutputStreamCore(s) \/ openInputStreamCore(s) \/ OpenReturns(s)
       \/ prepareForWriting(s) \/ prepareForReading(s)
       \/ ClientSends(s) \/ ClientWakes(s) \/ ClientTakes(s)
       \/ ThreadStep(s)
       \/ StreamOutClose(s) \/ StreamInClose(s) \/ BeginDestructor(s) \/ TearDown(s)
       \/ setCallback(s) \/ clearCallback(s) \/ asyncCallback(s)

(* The threads run, the legacy HAL returns from every call, and a client   *)
(* that has sent a command wakes the thread and takes the answer.          *)
AudioFairness ==
  \A s \in Streams :
    /\ WF_vars(ThreadStep(s))
    /\ WF_vars(OpenReturns(s) \/ EndClose(s) \/ CloseReturns(s) \/ FatalCount(s)
               \/ StreamOutDestructor(s) \/ StreamInDestructor(s))
    /\ WF_vars(CallbackReturns(s))
    /\ WF_vars(ClientWakes(s) \/ ClientTakes(s))

AudioSpec == AudioInit /\ [][AudioNext]_vars /\ AudioFairness

--------------------------------------------------------------------------------

(* Type invariant of devices, streams, their threads and their clients.    *)
AudioTypeOK ==
  /\ major \in MajorVersions
  /\ dev \in [alive : BOOLEAN, ref : BOOLEAN, closed : BOOLEAN, count : 0 .. MaxCount,
              hal : BOOLEAN]
  /\ upd \in [Streams -> {NoUpdate} \cup 0 .. MaxCount] /\ raced \in {"none", "closes", "opens"}
  /\ obj \in [Streams -> {"none", "opening", "open", "destructor", "leaving"}]
  /\ stop \in [Streams -> BOOLEAN] /\ closing \in [Streams -> BOOLEAN] /\ mq \in [Streams -> BOOLEAN]
  /\ ef \in [Streams -> SUBSET {NOT_EMPTY, NOT_FULL}]
  /\ data \in [Streams -> 0 .. QueueSize]
  /\ pc \in [Streams -> {"none", "loop", "wait", "call", "reply", "exit"}]
  /\ hal \in [Streams -> {"open", "closed"}]
  /\ cb \in [Streams -> BOOLEAN] /\ inCb \in [Streams -> BOOLEAN]
  /\ client \in [Streams -> {"idle", "sent", "waiting", "closing"}]
  /\ dead \in BOOLEAN
  /\ \A s \in Streams :
       /\ Len(cmd[s]) <= 1 /\ Len(sts[s]) <= 1
       /\ cur[s].op \in Commands(s) \cup {"none"} /\ cur[s].ret \in Results

(* The thread of a stream is inside the legacy HAL only while the legacy   *)
(* stream is open.  Up to version 5 the destructor joins the thread before *)
(* it closes the legacy stream, so this holds even when the client dies in *)
(* the middle of a command; from version 6 close() does not join, and the  *)
(* client must be alive and have waited for its answer.                    *)
HalStreamLive ==
  \A s \in Streams : pc[s] = "call" /\ (major <= 5 \/ ~dead) => hal[s] = "open"

(* "WriteThread's lifespan never exceeds StreamOut's lifespan", no         *)
(* callback runs on a destroyed stream, and a destroyed stream leaves no   *)
(* legacy stream open, in whatever order it was closed and released.       *)
Lifetimes ==
  \A s \in Streams : obj[s] = "none" => Joined(s) /\ ~inCb[s] /\ hal[s] # "open"

(* A status announces what is in the data queue: the client finds all the  *)
(* bytes a READ returned, and after a WRITE its whole buffer was consumed. *)
DataMatchesReply ==
  \A s \in Streams : sts[s] # << >> /\ Head(sts[s]).ret = "OK" =>
    /\ Head(sts[s]).op = "READ" => data[s] = Head(sts[s]).n
    /\ Head(sts[s]).op = "WRITE" => data[s] = 0

(* What mOpenedStreamsCount counts: the open legacy streams, without one   *)
(* whose increment, and with one whose decrement, is still to be stored.   *)
Counted == {s \in Streams : (hal[s] = "open") = (upd[s] = NoUpdate)}

(* mOpenedStreamsCount is exact as long as no two updates overlap, and a   *)
(* destroyed device has been closed then.  Updates of closes that overlap, *)
(* as those of the destructors after a client's death do, may leave it too *)
(* high, never too low: the fatal check in closeOutputStream and           *)
(* closeInputStream does not fire, and no device is closed under a stream. *)
(* Only an open that overlaps another update can break that.               *)
DeviceAccounts ==
  /\ AudioTypeOK
  /\ raced = "none" =>
       /\ dev.alive => dev.count = Cardinality(Counted)
       /\ ~dev.alive => ~dev.hal
  /\ raced # "opens" =>
       /\ dev.alive => dev.count >= Cardinality(Counted)
       /\ dev.closed => ~dev.hal /\ \A s \in Streams : hal[s] # "open"

(* No stream is in its destructor for ever: the wake-up of close() is      *)
(* never lost, so the join returns.                                        *)
DestructorEnds ==
  \A s \in Streams : []<>(obj[s] \notin {"destructor", "leaving"})

(***************************************************************************)
(* The streams implement the contract of AudioStreamContract.              *)
(***************************************************************************)

HalLife == [s \in Streams |-> IF hal[s] = "open" THEN "open" ELSE "closed"]
ClientRequest ==
  [s \in Streams |-> IF client[s] \in {"idle", "closing"} THEN "idle"
                     ELSE IF sts[s] # << >> /\ ClientBit(s) \in ef[s] THEN "done" ELSE "pending"]

Contract == INSTANCE AudioStreamContract WITH life <- HalLife, request <- ClientRequest

(* Every command is answered exactly once, while the legacy stream is      *)
(* open, and a stream is not closed under the command of a live client.    *)
MeetsContract == Contract!ContractSpec
================================================================================
