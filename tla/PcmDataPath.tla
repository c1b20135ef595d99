---------------------------- MODULE PcmDataPath ----------------------------
(***************************************************************************)
(* The audio data of one output stream: out_write's calls of WriteData     *)
(* (hw/stream_apis.cc), the mixing of stereo to mono (BluetoothAudioPort-  *)
(* AidlOut in hw/device_port_proxy.cc), the polling loop OutWritePcmData   *)
(* of the session, and the frame counters behind the reported positions.   *)
(*                                                                         *)
(* BluetoothStreamOut models when a stream may write.  Here the session    *)
(* ends and restarts at any time: OutWritePcmData holds the session's      *)
(* mutex for one round of its loop only.  Of the port's states only        *)
(* DISABLED matters: out_write then drops its buffer and reports it as     *)
(* written.  A write that finds the stream neither STARTED nor DISABLED    *)
(* returns 0, and the framework comes again with the same data.            *)
(*                                                                         *)
(* A byte of audio is its number in the queue's format, counted from the   *)
(* opening of the stream.                                                  *)
(***************************************************************************)
EXTENDS Integers, Sequences

CONSTANTS Mono,        \* is_stereo_to_mono_
          FrameSize,   \* audio_stream_out_frame_size of the stream, in bytes
          QueueSize,   \* capacity of data_mq_, in bytes
          WriteSizes,  \* what the framework passes to out_write, in bytes
          ReadSizes,   \* what the stack takes out of the queue at once
          Polls,       \* kFmqSendTimeoutMs / kWritePollMs
          Latencies,   \* the values of latency_frames
          Word,        \* the modulus of uint64_t
          MaxBytes,    \* bound on the bytes the framework has to play
          MaxPresented \* bound on frames_presented_

Scale  == IF Mono THEN 2 ELSE 1      \* bytes of the stream per byte of the queue
QFrame == FrameSize \div Scale       \* the size of a frame in the queue

ASSUME PcmAssumption ==
  /\ Mono \in BOOLEAN
  /\ FrameSize \in Nat \ {0}
  /\ Mono => FrameSize = 4
  /\ QueueSize \in Nat \ {0}
  /\ WriteSizes \subseteq Nat \ {0}
  /\ ReadSizes \subseteq Nat \ {0}
  /\ Polls \in Nat /\ Word \in Nat \ {0} /\ MaxBytes \in Nat /\ MaxPresented \in Nat
  /\ Latencies \subseteq Nat

\* The framework writes whole frames, the providers make queues that hold whole
\* frames (kDataMqSize) and the stack encodes whole frames.
ASSUME WholeFrames ==
  /\ QueueSize % QFrame = 0
  /\ \A n \in WriteSizes : n % FrameSize = 0
  /\ \A n \in ReadSizes : n % QFrame = 0

VARIABLES
  ready,     \* IsSessionReady
  disabled,  \* state_ of the port is DISABLED
  stream,    \* the bytes written to the queue of the present session
  head,      \* how many of them the stack has taken
  pos,       \* how far the framework has got with its data, in stream bytes
  w,         \* the out_write in progress
  rendered,  \* frames_rendered_
  presented, \* frames_presented_
  accepted,  \* history: the stream bytes that went into a queue and that
             \* out_write has reported, since the counters were last cleared
  dropped    \* history: the bytes out_write has dropped since the queue of the
             \* present session was set up

pcmVars ==
  << ready, disabled, stream, head, pos, w, rendered, presented, accepted, dropped >>

NoWrite == [pc |-> "idle", bytes |-> 0, base |-> 0, size |-> 0, total |-> 0, polls |-> 0]

PcmInit ==
  /\ ready = TRUE
  /\ disabled = FALSE
  /\ stream = << >>
  /\ head = 0
  /\ pos = 0
  /\ w = NoWrite
  /\ rendered = 0
  /\ presented = 0
  /\ accepted = 0
  /\ dropped = {}

Lesser(a, b) == IF a < b THEN a ELSE b
\* Mutant: one element of the ring is kept free.
availableButOne == QueueSize - (Len(stream) - head) - 1
availableToWrite == QueueSize - (Len(stream) - head)

-----------------------------------------------------------------------------
\* WriteData: the size of what goes to the queue.  The mono mix takes whole
\* stereo frames of four bytes and makes two bytes of each.
QueueBytes(bytes) == IF Mono THEN (bytes \div 4) * 2 ELSE bytes

\* out_write has found the stream started.  The framework goes on at the byte
\* where the last call stopped.
WriteData(bytes) ==
  /\ w.pc = "idle" /\ ~disabled
  /\ pos + bytes <= MaxBytes
  /\ presented + bytes \div FrameSize <= MaxPresented
  /\ w' = [pc |-> IF QueueBytes(bytes) = 0 THEN "account" ELSE "loop", bytes |-> bytes,
           base |-> pos \div Scale, size |-> QueueBytes(bytes), total |-> 0,
           polls |-> Polls]
  /\ UNCHANGED << ready, disabled, stream, head, pos, rendered, presented, accepted, dropped >>

\* out_write has failed to resume and finds the stream DISABLED: the buffer counts
\* as written, no queue has got it and no frame is counted.
DropData(bytes) ==
  /\ w.pc = "idle" /\ disabled
  /\ pos + bytes <= MaxBytes
  /\ pos' = pos + bytes
  /\ dropped' = dropped \union (pos \div Scale .. (pos + bytes) \div Scale - 1)
  /\ UNCHANGED << ready, disabled, stream, head, w, rendered, presented, accepted >>

\* One round of the loop of OutWritePcmData, by what the queue has room for.
WriteChunk ==
  LET n == Lesser(availableToWrite, w.size - w.total) IN
  /\ w.pc = "loop"
  /\ ready
  /\ availableToWrite > 0
  /\ stream' = stream \o [i \in 1 .. n |-> w.base + w.total + i - 1]
  /\ w' = [w EXCEPT !.total = @ + n, !.pc = IF w.total + n < w.size THEN "loop" ELSE "account"]
  /\ UNCHANGED << ready, disabled, head, pos, rendered, presented, accepted, dropped >>
\* Mutant: the time left is not counted down.
WritePollForever ==
  /\ w.pc = "loop" /\ ready /\ availableToWrite = 0 /\ w.polls > 0
  /\ UNCHANGED pcmVars

WritePoll ==
  /\ w.pc = "loop"
  /\ ready
  /\ availableToWrite = 0
  /\ w.polls > 0
  /\ w' = [w EXCEPT !.polls = @ - 1]
  /\ UNCHANGED << ready, disabled, stream, head, pos, rendered, presented, accepted, dropped >>

\* The loop is left early: without a session, after the last poll, or when the
\* queue refuses the data.
WriteGivesUp ==
  /\ w.pc = "loop"
  /\ \/ ~ready
     \/ ready /\ availableToWrite = 0 /\ w.polls = 0
     \/ ready /\ availableToWrite > 0
  /\ w' = [w EXCEPT !.pc = "account"]
  /\ UNCHANGED << ready, disabled, stream, head, pos, rendered, presented, accepted, dropped >>

\* Mutant: the mono byte count is returned as it is.
AccountUnscaled ==
  LET frames == IF w.total > 0 THEN w.bytes \div FrameSize ELSE 0 IN
  /\ w.pc = "account"
  /\ rendered' = rendered + frames
  /\ presented' = presented + frames
  /\ accepted' = accepted + w.total
  /\ pos' = pos + w.total
  /\ w' = NoWrite
  /\ UNCHANGED << ready, disabled, stream, head, dropped >>

\* out_write takes the stream's lock again and counts: all frames of the call
\* as soon as any byte was written.
Account ==
  LET frames == IF w.total > 0 THEN w.bytes \div FrameSize ELSE 0
      ret    == w.total * Scale IN
  /\ w.pc = "account"
  /\ rendered' = rendered + frames
  /\ presented' = presented + frames
  /\ accepted' = accepted + ret
  /\ pos' = pos + ret
  /\ w' = NoWrite
  /\ UNCHANGED << ready, disabled, stream, head, dropped >>

-----------------------------------------------------------------------------
\* out_standby and out_pause.
ClearRendered ==
  /\ ~disabled
  /\ rendered' = 0
  /\ UNCHANGED << ready, disabled, stream, head, pos, w, presented, accepted, dropped >>
\* A2dpSuspended=true, whatever the state, and A2dpSuspended=false.
A2dpSuspended ==
  /\ rendered' = 0
  /\ disabled' = TRUE
  /\ UNCHANGED << ready, stream, head, pos, w, presented, accepted, dropped >>
A2dpResumed ==
  /\ disabled
  /\ disabled' = FALSE
  /\ UNCHANGED << ready, stream, head, pos, w, rendered, presented, accepted, dropped >>
\* closing=true and exiting=1.
ClearPresented ==
  /\ ~disabled
  /\ disabled' = TRUE
  /\ rendered' = 0
  /\ presented' = 0
  /\ accepted' = 0
  /\ UNCHANGED << ready, stream, head, pos, w, dropped >>

\* ControlResultHandler disables the stream when a suspension is refused; a late one
\* can also undo a SetState(DISABLED) that came between its read and its assignment.
ControlResult ==
  /\ disabled' = ~disabled
  /\ UNCHANGED << ready, stream, head, pos, w, rendered, presented, accepted, dropped >>

\* The session is ended, or started with a queue whose pointers are reset, and the
\* port's SessionChangedHandler is called.
SessionChanges(isReady) ==
  /\ ready' = isReady
  /\ disabled' = TRUE
  /\ stream' = << >>
  /\ head' = 0
  /\ dropped' = {}
  /\ UNCHANGED << pos, w, rendered, presented, accepted >>
SessionEnds == ready /\ SessionChanges(FALSE)
SessionStarts == SessionChanges(TRUE)

\* The stack (external) takes data out of the queue.
StackReads(n) ==
  /\ ready
  /\ head + n <= Len(stream)
  /\ head' = head + n
  /\ UNCHANGED << ready, disabled, stream, pos, w, rendered, presented, accepted, dropped >>

WriterStep == WriteChunk \/ WritePoll \/ WriteGivesUp \/ Account

PcmNext ==
  \/ \E bytes \in WriteSizes : WriteData(bytes) \/ DropData(bytes)
  \/ WriterStep
  \/ ClearRendered
  \/ A2dpSuspended
  \/ A2dpResumed
  \/ ClearPresented
  \/ ControlResult
  \/ SessionEnds
  \/ SessionStarts
  \/ \E n \in ReadSizes : StackReads(n)

PcmSpec == PcmInit /\ [][PcmNext]_pcmVars

\* The writing thread runs; nothing is assumed of the stack.
PcmFairSpec == PcmSpec /\ WF_pcmVars(WriterStep)

-----------------------------------------------------------------------------
\* out_calculate_feeding_delay_ms: the presentation position, from the bytes the
\* stack says it has transmitted, in uint64_t arithmetic.
Sub64(a, b) == (a - b) % Word
\* Mutant: the latency is taken off whatever the number of frames.
FeedingFramesUnguarded(absorbed_bytes, latency) ==
  LET absorbed == absorbed_bytes \div FrameSize
  IN Sub64(IF presented < absorbed \/ Sub64(presented, absorbed) > latency
           THEN presented ELSE absorbed, latency)
FeedingFrames(absorbed_bytes, latency) ==
  LET absorbed == absorbed_bytes \div FrameSize
      frames   == IF presented < absorbed \/ Sub64(presented, absorbed) > latency
                  THEN presented ELSE absorbed
  IN IF frames > latency THEN Sub64(frames, latency) ELSE 0

\* The number of the byte the queue is to be given next.
NextByte == IF w.pc = "idle" THEN pos \div Scale ELSE w.base + w.total

-----------------------------------------------------------------------------
\* Type invariant; the queue is never overrun, nor the framework's buffer.
PcmTypeOK ==
  /\ ready \in BOOLEAN /\ disabled \in BOOLEAN
  /\ stream \in Seq(Nat)
  /\ head \in 0 .. Len(stream)
  /\ Len(stream) - head <= QueueSize
  /\ pos \in Nat
  /\ w \in [pc : {"idle", "loop", "account"}, bytes : Nat, base : Nat, size : Nat,
            total : Nat, polls : 0 .. Polls]
  /\ w.total <= w.size
  /\ rendered \in Nat /\ presented \in Nat /\ accepted \in Nat
  /\ dropped \subseteq Nat

\* What a session's queue is given is the framework's data in order, nothing of it
\* twice, and nothing missing but the buffers out_write dropped as a whole while the
\* stream was DISABLED, of which no byte is played: however the writes are cut by a
\* full queue, by time-outs and by the end and restart of the session, and taken up
\* again where out_write's result says.
Unbroken(s, gone) ==
  /\ \A i \in 1 .. Len(s) - 1 :
       s[i] < s[i + 1] /\ (s[i] + 1) .. (s[i + 1] - 1) \subseteq gone
  /\ \A i \in 1 .. Len(s) : s[i] \notin gone
DataContiguous == Unbroken(stream, dropped)

\* What makes it so: the next byte is none of those in the queue, between the last of
\* them and the next there are only dropped ones, and a write in progress began where
\* the framework had got to.
Follows(s, next, gone) ==
  /\ \A i \in 1 .. Len(s) : s[i] < next
  /\ s # << >> => (s[Len(s)] + 1) .. (next - 1) \subseteq gone
NextFollows ==
  /\ Follows(stream, NextByte, dropped)
  /\ \A b \in dropped : b < pos \div Scale
  /\ pos = Scale * (pos \div Scale)
  /\ w.pc # "idle" => w.base = pos \div Scale

\* The data of every session begins with a whole frame, also of a session that
\* replaces another in the middle of a write, and out_write stops at whole frames.
FrameAligned ==
  /\ stream # << >> => stream[1] % QFrame = 0
  /\ pos % FrameSize = 0

\* The presentation position is at most what was counted as written, whatever the
\* stack's counter and delay are at that moment: none of the subtractions of
\* uint64_t numbers in out_calculate_feeding_delay_ms wraps around.  And the counter
\* never falls behind what has reached a queue and was reported; what out_write drops
\* it reports too, without counting it.
PositionBounded ==
  /\ \A latency \in Latencies, absorbed_bytes \in 0 .. MaxBytes :
       FeedingFrames(absorbed_bytes, latency) <= presented
  /\ accepted <= presented * FrameSize

\* out_write returns although the stack may never take a byte.
WriteReturns == w.pc # "idle" ~> w.pc = "idle"
=============================================================================
