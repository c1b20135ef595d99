------------------------- MODULE PcmDataPathProofs -------------------------
(***************************************************************************)
(* Proof that the data of a session is what the framework plays, but for   *)
(* the buffers dropped while the stream was DISABLED, for every queue      *)
(* size, write size, read size and number of polls.  DataContiguous is not *)
(* inductive: that the next chunk fits on to the last one depends on where *)
(* the write in progress began, on what out_write returned before and on   *)
(* what it has dropped since (NextFollows).                                *)
(***************************************************************************)
EXTENDS PcmDataPath, SequenceTheorems, TLAPS

PcmInv == PcmTypeOK /\ DataContiguous /\ NextFollows

\* The bytes of a frame that is mixed to mono are halved and doubled again.
LEMMA ScaleDivides ==
  ASSUME NEW k \in Nat
  PROVE  Scale \in {1, 2} /\ (Scale * k) \div Scale = k
BY PcmAssumption DEF Scale

\* A chunk that begins where the stream may go on, and of which nothing was dropped,
\* keeps the stream unbroken.
LEMMA AppendChunk ==
  ASSUME NEW s \in Seq(Nat), NEW c \in Seq(Nat), NEW first \in Nat, NEW gone,
         Unbroken(s, gone), Follows(s, first, gone),
         \A i \in 1 .. Len(c) : c[i] = first + i - 1,
         \A b \in gone : b \in Nat /\ b < first
  PROVE  Unbroken(s \o c, gone) /\ Follows(s \o c, first + Len(c), gone)
<1> DEFINE t == s \o c
<1>1. /\ t \in Seq(Nat) /\ Len(t) = Len(s) + Len(c)
      /\ \A i \in 1 .. Len(s) : t[i] = s[i]
      /\ \A i \in 1 .. Len(c) : t[Len(s) + i] = first + i - 1
      /\ Len(s) \in Nat /\ Len(c) \in Nat
  OBVIOUS
<1>a. \A i \in 1 .. Len(t) : t[i] \in Nat
  BY <1>1
<1> HIDE DEF t
<1>2. ASSUME NEW i \in 1 .. Len(t) - 1
      PROVE  t[i] < t[i + 1] /\ (t[i] + 1) .. (t[i + 1] - 1) \subseteq gone
  <2>1. CASE i < Len(s)
    <3>1. i \in 1 .. Len(s) - 1 /\ i \in 1 .. Len(s) /\ i + 1 \in 1 .. Len(s)
      BY <1>1, <2>1
    <3>2. s[i] < s[i + 1] /\ (s[i] + 1) .. (s[i + 1] - 1) \subseteq gone
      BY <3>1 DEF Unbroken
    <3> QED BY <1>1, <3>1, <3>2
  <2>2. CASE i = Len(s)
    <3>1. t[Len(s) + 1] = first
      BY <1>1, <2>2, 1 \in 1 .. Len(c)
    <3>2. s # << >> /\ t[i] = s[Len(s)]
      BY <1>1, <2>2
    <3> QED BY <1>1, <2>2, <3>1, <3>2 DEF Follows
  <2>3. CASE i > Len(s)
    <3>1. i - Len(s) \in 1 .. Len(c) /\ i + 1 - Len(s) \in 1 .. Len(c)
      BY <1>1, <2>3
    <3>2. t[Len(s) + (i - Len(s))] = first + (i - Len(s)) - 1
      BY <1>1, <3>1
    <3>3. t[Len(s) + (i + 1 - Len(s))] = first + (i + 1 - Len(s)) - 1
      BY <1>1, <3>1
    <3>4. t[i + 1] = t[i] + 1 /\ t[i] \in Nat
      BY <3>2, <3>3, <1>1, <1>a
    <3>5. (t[i] + 1) .. (t[i + 1] - 1) = {}
      BY <3>4
    <3> QED BY <3>4, <3>5
  <2>4. i < Len(s) \/ i = Len(s) \/ i > Len(s)
    BY <1>1
  <2> QED BY <2>1, <2>2, <2>3, <2>4
<1>3. ASSUME NEW i \in 1 .. Len(t) PROVE t[i] \notin gone
  <2>1. CASE i <= Len(s)
    <3>1. i \in 1 .. Len(s)
      BY <1>1, <2>1
    <3> QED BY <1>1, <3>1 DEF Unbroken
  <2>2. CASE i > Len(s)
    <3>1. i - Len(s) \in 1 .. Len(c)
      BY <1>1, <2>2
    <3>2. t[Len(s) + (i - Len(s))] = first + (i - Len(s)) - 1
      BY <1>1, <3>1
    <3>3. t[i] >= first /\ t[i] \in Nat
      BY <1>1, <1>a, <3>1, <3>2
    <3> QED BY <3>3
  <2> QED BY <2>1, <2>2, <1>1
<1>4. ASSUME NEW i \in 1 .. Len(t) PROVE t[i] < first + Len(c)
  <2>1. CASE i <= Len(s)
    <3>1. i \in 1 .. Len(s) /\ s[i] < first
      BY <1>1, <2>1 DEF Follows
    <3> QED BY <1>1, <3>1
  <2>2. CASE i > Len(s)
    <3>1. i - Len(s) \in 1 .. Len(c)
      BY <1>1, <2>2
    <3>2. t[Len(s) + (i - Len(s))] = first + (i - Len(s)) - 1
      BY <1>1, <3>1
    <3> QED BY <1>1, <3>1, <3>2
  <2> QED BY <2>1, <2>2, <1>1
<1>5. t # << >> => (t[Len(t)] + 1) .. (first + Len(c) - 1) \subseteq gone
  <2>1. CASE Len(c) = 0
    <3>1. t # << >> => Len(t) = Len(s) /\ t[Len(t)] = s[Len(s)] /\ s # << >>
      BY <1>1, <2>1
    <3> QED BY <1>1, <2>1, <3>1 DEF Follows
  <2>2. CASE Len(c) > 0
    <3>1. t[Len(s) + Len(c)] = first + Len(c) - 1
      BY <1>1, <2>2
    <3>2. t[Len(t)] + 1 = first + Len(c) /\ t[Len(t)] \in Nat
      BY <1>1, <1>a, <2>2, <3>1
    <3> QED BY <1>1, <3>2
  <2> QED BY <2>1, <2>2, <1>1
<1>6. Unbroken(t, gone)
  BY <1>2, <1>3 DEF Unbroken
<1>7. Follows(t, first + Len(c), gone)
  BY <1>4, <1>5 DEF Follows
<1> QED BY <1>6, <1>7 DEF t

\* Dropping what comes next leaves the stream unbroken: none of it is in the stream.
LEMMA DropNext ==
  ASSUME NEW s \in Seq(Nat), NEW gone, NEW next \in Nat, NEW to \in Nat, next <= to,
         Unbroken(s, gone), Follows(s, next, gone)
  PROVE  /\ Unbroken(s, gone \union (next .. to - 1))
         /\ Follows(s, to, gone \union (next .. to - 1))
<1> DEFINE all == gone \union (next .. to - 1)
<1>1. Len(s) \in Nat /\ \A i \in 1 .. Len(s) : s[i] \in Nat /\ s[i] < next
  BY DEF Follows
<1>2. gone \subseteq all /\ \A i \in 1 .. Len(s) : s[i] \notin all /\ s[i] < to
  BY <1>1 DEF Unbroken
<1>3. s # << >> => (s[Len(s)] + 1) .. (to - 1) \subseteq all
  <2> SUFFICES ASSUME s # << >>, NEW b \in (s[Len(s)] + 1) .. (to - 1) PROVE b \in all
    OBVIOUS
  <2>1. s[Len(s)] \in Nat
    BY <1>1
  <2>2. b \in Int /\ (b \in (s[Len(s)] + 1) .. (next - 1) \/ b \in next .. to - 1)
    BY <2>1
  <2> QED BY <2>2 DEF Follows
<1> HIDE DEF all
<1>4. Unbroken(s, all) /\ Follows(s, to, all)
  BY <1>2, <1>3 DEF Unbroken, Follows
<1> QED BY <1>4 DEF all

\* An empty stream is unbroken and anything may follow.
LEMMA EmptyUnbroken ==
  ASSUME NEW gone, NEW next
  PROVE  Unbroken(<< >>, gone) /\ Follows(<< >>, next, gone)
<1>1. Len(<< >>) = 0 /\ 1 .. 0 = {} /\ 1 .. 0 - 1 = {}
  OBVIOUS
<1> QED BY <1>1 DEF Unbroken, Follows

LEMMA PcmInitial == PcmInit => PcmInv
<1> SUFFICES ASSUME PcmInit PROVE PcmInv
  OBVIOUS
<1>1. PcmTypeOK
  <2>1. /\ w = NoWrite /\ w.total <= w.size
        /\ w \in [pc : {"idle", "loop", "account"}, bytes : Nat, base : Nat, size : Nat,
                  total : Nat, polls : 0 .. Polls]
    BY PcmAssumption DEF PcmInit, NoWrite
  <2>2. stream \in Seq(Nat) /\ head \in 0 .. Len(stream) /\ Len(stream) - head <= QueueSize
    BY PcmAssumption DEF PcmInit
  <2> QED BY <2>1, <2>2 DEF PcmInit, PcmTypeOK
<1>2. DataContiguous
  BY EmptyUnbroken DEF PcmInit, DataContiguous
<1>3. NextFollows
  <2>1. 0 = Scale * (0 \div Scale)
    BY PcmAssumption DEF Scale
  <2> QED BY <2>1, EmptyUnbroken DEF PcmInit, NextFollows, NoWrite
<1> QED BY <1>1, <1>2, <1>3 DEF PcmInv

LEMMA PcmStep == PcmInv /\ [PcmNext]_pcmVars => PcmInv'
<1> SUFFICES ASSUME PcmInv, [PcmNext]_pcmVars PROVE PcmInv'
  OBVIOUS
<1> USE DEF PcmInv
<1>0. /\ w.bytes \in Nat /\ w.base \in Nat /\ w.size \in Nat /\ w.total \in Nat
      /\ w.polls \in 0 .. Polls /\ w.pc \in {"idle", "loop", "account"}
      /\ w.total <= w.size
      /\ w = [pc |-> w.pc, bytes |-> w.bytes, base |-> w.base, size |-> w.size,
              total |-> w.total, polls |-> w.polls]
      /\ Len(stream) \in Nat /\ head \in Nat /\ head <= Len(stream)
      /\ Len(stream) - head <= QueueSize /\ QueueSize \in Nat
  BY PcmAssumption DEF PcmTypeOK
<1>1. ASSUME NEW bytes \in WriteSizes, WriteData(bytes) PROVE PcmInv'
  <2>1. bytes \in Nat /\ QueueBytes(bytes) \in Nat /\ pos \div Scale \in Nat
    BY PcmAssumption DEF QueueBytes, Scale, PcmTypeOK
  <2>2. PcmTypeOK'
    BY <1>1, <2>1, PcmAssumption DEF WriteData, PcmTypeOK
  <2>3. w'.pc # "idle" /\ w'.base = pos \div Scale /\ w'.total = 0
    BY <1>1 DEF WriteData
  <2>4. NextFollows'
    BY <1>1, <2>1, <2>3 DEF WriteData, NextFollows, NextByte, PcmTypeOK
  <2> QED BY <1>1, <2>2, <2>4 DEF WriteData, DataContiguous
<1>d. ASSUME NEW bytes \in WriteSizes, DropData(bytes) PROVE PcmInv'
  <2> DEFINE next == pos \div Scale
             to   == (pos + bytes) \div Scale
  <2>1. /\ bytes \in Nat /\ pos \in Nat /\ Scale \in {1, 2} /\ next \in Nat
        /\ pos = Scale * next /\ w.pc = "idle"
        /\ stream \in Seq(Nat) /\ dropped \subseteq Nat
    BY <1>d, PcmAssumption DEF DropData, PcmTypeOK, NextFollows, Scale
  <2>2. bytes \div Scale \in Nat /\ bytes = Scale * (bytes \div Scale)
    <3>1. bytes % FrameSize = 0 /\ (Mono => FrameSize = 4)
      BY WholeFrames, PcmAssumption
    <3>2. CASE Mono
      BY <2>1, <3>1, <3>2 DEF Scale
    <3>3. CASE ~Mono
      BY <2>1, <3>3 DEF Scale
    <3> QED BY <3>2, <3>3
  <2>3. to = next + bytes \div Scale /\ pos + bytes = Scale * to
    <3>1. pos + bytes = Scale * (next + bytes \div Scale)
      BY <2>1, <2>2
    <3> QED BY <2>1, <2>2, <3>1, ScaleDivides
  <2>4. to \in Nat /\ next <= to
    BY <2>1, <2>2, <2>3
  <2>5. Unbroken(stream, dropped) /\ Follows(stream, next, dropped)
    BY <2>1 DEF DataContiguous, NextFollows, NextByte
  <2>6. /\ dropped' = dropped \union (next .. to - 1) /\ pos' = pos + bytes
        /\ pos' \div Scale = to
        /\ UNCHANGED << ready, disabled, stream, head, w, rendered, presented, accepted >>
    BY <1>d DEF DropData
  <2> HIDE DEF next, to
  <2>7. Unbroken(stream, dropped') /\ Follows(stream, to, dropped')
    BY <2>1, <2>4, <2>5, <2>6, DropNext
  <2>8. dropped' \subseteq Nat /\ \A b \in dropped' : b < to
    <3>1. \A b \in dropped : b < next
      BY DEF NextFollows, next
    <3> QED BY <2>1, <2>4, <2>6, <3>1
  <2>9. PcmTypeOK'
    BY <2>1, <2>6, <2>8 DEF PcmTypeOK
  <2>10. DataContiguous' /\ NextFollows'
    BY <2>1, <2>3, <2>6, <2>7, <2>8 DEF DataContiguous, NextFollows, NextByte
  <2> QED BY <2>9, <2>10
<1>2. ASSUME WriteChunk PROVE PcmInv'
  <2> DEFINE n == Lesser(availableToWrite, w.size - w.total)
  <2>1. /\ n \in Nat /\ n <= availableToWrite /\ n <= w.size - w.total
        /\ w.base + w.total \in Nat
    <3>1. availableToWrite \in Nat
      BY <1>0 DEF availableToWrite
    <3> QED BY <1>0, <3>1 DEF Lesser
  <2> DEFINE c == [i \in 1 .. n |-> w.base + w.total + i - 1]
  <2>2. stream' = stream \o c
    BY <1>2 DEF WriteChunk
  <2>3. Follows(stream, w.base + w.total, dropped)
    BY <1>2 DEF WriteChunk, NextFollows, NextByte
  <2> HIDE DEF n
  <2>a. c \in Seq(Nat) /\ Len(c) = n /\ \A i \in 1 .. n : c[i] = w.base + w.total + i - 1
    <3>1. \A i \in 1 .. n : w.base + w.total + i - 1 \in Nat
      BY <2>1
    <3>2. c \in Seq(Nat)
      BY <2>1, <3>1
    <3>3. DOMAIN c = 1 .. n /\ \A i \in 1 .. n : c[i] = w.base + w.total + i - 1
      OBVIOUS
    <3> QED BY <2>1, <3>2, <3>3
  <2> HIDE DEF c
  <2>b. stream \in Seq(Nat) /\ Unbroken(stream, dropped)
    BY DEF PcmTypeOK, DataContiguous
  <2>f. \A b \in dropped : b \in Nat /\ b < w.base + w.total
    <3>1. w.base = pos \div Scale /\ \A b \in dropped : b \in Nat /\ b < pos \div Scale
      BY <1>2 DEF WriteChunk, NextFollows, PcmTypeOK
    <3>2. w.base \in Nat /\ w.total \in Nat
      BY <1>0
    <3> QED BY <3>1, <3>2
  <2>c. Unbroken(stream', dropped) /\ Follows(stream', w.base + w.total + n, dropped)
    BY <2>1, <2>2, <2>3, <2>a, <2>b, <2>f, AppendChunk
  <2>d. stream' \in Seq(Nat) /\ Len(stream') = Len(stream) + n
    BY <2>2, <2>a, <2>b, ConcatProperties
  <2>g. w' = [w EXCEPT !.total = @ + n,
                      !.pc = IF w.total + n < w.size THEN "loop" ELSE "account"]
    BY <1>2 DEF WriteChunk, n
  <2>h. w' = [pc |-> IF w.total + n < w.size THEN "loop" ELSE "account",
              bytes |-> w.bytes, base |-> w.base, size |-> w.size,
              total |-> w.total + n, polls |-> w.polls]
    BY <1>0, <2>g
  <2>5. /\ w' \in [pc : {"idle", "loop", "account"}, bytes : Nat, base : Nat,
                   size : Nat, total : Nat, polls : 0 .. Polls]
        /\ w'.total = w.total + n /\ w'.base = w.base /\ w'.size = w.size
        /\ w'.pc # "idle"
    BY <1>0, <2>1, <2>h
  <2>e. UNCHANGED << ready, disabled, head, pos, rendered, presented, accepted, dropped >>
    BY <1>2 DEF WriteChunk
  <2>6. PcmTypeOK'
    <3>1. /\ head' \in 0 .. Len(stream') /\ Len(stream') - head' <= QueueSize
          /\ w'.total <= w'.size
      <4>1. n <= QueueSize - (Len(stream) - head)
        BY <2>1 DEF availableToWrite
      <4>2. w'.total <= w'.size
        BY <1>0, <2>1, <2>5
      <4>3. head' = head /\ Len(stream') = Len(stream) + n /\ n \in Nat
        BY <2>1, <2>d, <2>e
      <4> QED BY <1>0, <4>1, <4>2, <4>3
    <3> QED BY <2>5, <2>d, <2>e, <3>1 DEF PcmTypeOK
  <2>7. NextFollows'
    <3>1. NextByte' = w.base + w.total + n
      BY <1>0, <2>1, <2>5 DEF NextByte
    <3>2. w.pc # "idle"
      BY <1>2 DEF WriteChunk
    <3> QED BY <2>c, <2>e, <2>5, <3>1, <3>2 DEF NextFollows
  <2> QED BY <2>c, <2>e, <2>6, <2>7 DEF DataContiguous
<1>3. ASSUME WritePoll PROVE PcmInv'
  <2>a. w' = [w EXCEPT !.polls = @ - 1] /\ w.polls - 1 \in 0 .. Polls
    BY <1>0, <1>3, PcmAssumption DEF WritePoll
  <2>b. w' = [pc |-> w.pc, bytes |-> w.bytes, base |-> w.base, size |-> w.size,
              total |-> w.total, polls |-> w.polls - 1]
    BY <1>0, <2>a
  <2>1. /\ w' \in [pc : {"idle", "loop", "account"}, bytes : Nat, base : Nat,
                   size : Nat, total : Nat, polls : 0 .. Polls]
        /\ w'.total = w.total /\ w'.base = w.base /\ w'.size = w.size /\ w'.pc = w.pc
    BY <1>0, <2>a, <2>b
  <2> QED
    BY <1>3, <2>1 DEF WritePoll, PcmTypeOK, DataContiguous, NextFollows, NextByte, Unbroken, Follows
<1>4. ASSUME WriteGivesUp PROVE PcmInv'
  <2>1. /\ w' \in [pc : {"idle", "loop", "account"}, bytes : Nat, base : Nat,
                   size : Nat, total : Nat, polls : 0 .. Polls]
        /\ w'.total = w.total /\ w'.base = w.base /\ w'.size = w.size
        /\ w.pc # "idle" /\ w'.pc # "idle"
    BY <1>0, <1>4 DEF WriteGivesUp
  <2> QED
    BY <1>4, <2>1 DEF WriteGivesUp, PcmTypeOK, DataContiguous, NextFollows, NextByte, Unbroken, Follows
<1>5. ASSUME Account PROVE PcmInv'
  <2>1. /\ w.total \in Nat /\ w.bytes \in Nat /\ w.base \in Nat /\ pos \in Nat
        /\ Scale \in {1, 2} /\ pos = Scale * w.base
    BY <1>5, PcmAssumption DEF PcmTypeOK, NextFollows, Account, Scale
  <2>2. pos' = Scale * (w.base + w.total)
    BY <1>5, <2>1 DEF Account
  <2>3. pos' \div Scale = w.base + w.total
    BY <2>1, <2>2, ScaleDivides
  <2>4. w.bytes \div FrameSize \in Nat
    BY <2>1, PcmAssumption
  <2>5. w' = NoWrite /\ w'.pc = "idle" /\ w'.total <= w'.size
        /\ w' \in [pc : {"idle", "loop", "account"}, bytes : Nat, base : Nat,
                   size : Nat, total : Nat, polls : 0 .. Polls]
    BY <1>5, PcmAssumption DEF Account, NoWrite
  <2>6. PcmTypeOK'
    <3>1. /\ UNCHANGED << ready, disabled, stream, head, dropped >>
          /\ rendered' \in Nat /\ presented' \in Nat /\ accepted' \in Nat /\ pos' \in Nat
      <4>1. w.total * Scale \in Nat /\ Scale * (w.base + w.total) \in Nat
        BY <2>1
      <4>2. rendered \in Nat /\ presented \in Nat /\ accepted \in Nat
        BY DEF PcmTypeOK
      <4>3. /\ UNCHANGED << ready, disabled, stream, head, dropped >> /\ accepted' = accepted + w.total * Scale
            /\ \E f \in Nat : rendered' = rendered + f /\ presented' = presented + f
        BY <1>5, <2>4 DEF Account
      <4> QED BY <2>2, <4>1, <4>2, <4>3
    <3> QED BY <2>5, <3>1 DEF PcmTypeOK
  <2>7. NextFollows'
    <3>1. NextByte' = w.base + w.total /\ NextByte = w.base + w.total
      BY <1>5, <2>3, <2>5 DEF NextByte, Account
    <3>2. \A b \in dropped : b \in Nat /\ b < w.base
      BY <1>5 DEF Account, NextFollows, PcmTypeOK
    <3>3. \A b \in dropped : b < pos' \div Scale
      BY <2>1, <2>3, <3>2
    <3>4. UNCHANGED << stream, dropped >> /\ pos' = Scale * (pos' \div Scale)
      BY <1>5, <2>2, <2>3 DEF Account
    <3> QED BY <2>5, <3>1, <3>3, <3>4 DEF NextFollows
  <2> QED BY <1>5, <2>6, <2>7 DEF Account, DataContiguous
<1>6. ASSUME ClearRendered \/ ClearPresented \/ A2dpSuspended \/ A2dpResumed \/ ControlResult
      PROVE  PcmInv'
  <2>1. UNCHANGED << ready, stream, head, pos, w, dropped >> /\ disabled' \in BOOLEAN
        /\ rendered' \in Nat /\ presented' \in Nat /\ accepted' \in Nat
    <3>1. disabled \in BOOLEAN /\ rendered \in Nat /\ presented \in Nat /\ accepted \in Nat
      BY DEF PcmTypeOK
    <3>2. CASE ControlResult
      <4>1. disabled' = ~disabled
            /\ UNCHANGED << ready, stream, head, pos, w, rendered, presented, accepted, dropped >>
        BY <3>2 DEF ControlResult
      <4>2. disabled' \in BOOLEAN
        BY <3>1, <4>1, Zenon
      <4> QED BY <3>1, <4>1, <4>2
    <3>3. CASE ClearRendered
      BY <3>1, <3>3 DEF ClearRendered
    <3>6. CASE A2dpSuspended
      BY <3>1, <3>6 DEF A2dpSuspended
    <3>4. CASE ClearPresented
      BY <3>1, <3>4 DEF ClearPresented
    <3>5. CASE A2dpResumed
      BY <3>1, <3>5 DEF A2dpResumed
    <3> QED BY <1>6, <3>2, <3>3, <3>4, <3>5, <3>6
  <2>2. PcmTypeOK'
    BY <2>1 DEF PcmTypeOK
  <2>3. DataContiguous' /\ NextFollows'
    BY <2>1 DEF DataContiguous, NextFollows, NextByte, Unbroken, Follows
  <2> QED BY <2>2, <2>3
<1>7. ASSUME SessionEnds \/ SessionStarts PROVE PcmInv'
  <2>1. /\ UNCHANGED << pos, w, rendered, presented, accepted >>
        /\ stream' = << >> /\ head' = 0 /\ ready' \in BOOLEAN /\ disabled' \in BOOLEAN
        /\ dropped' = {}
    BY <1>7 DEF SessionEnds, SessionStarts, SessionChanges
  <2>2. PcmTypeOK'
    BY <2>1, PcmAssumption DEF PcmTypeOK
  <2>3. DataContiguous' /\ NextFollows'
    BY <2>1 DEF DataContiguous, NextFollows, NextByte, Unbroken, Follows
  <2> QED BY <2>2, <2>3
<1>8. ASSUME NEW n \in ReadSizes, StackReads(n) PROVE PcmInv'
  <2>1. /\ head' = head + n /\ head + n <= Len(stream) /\ n \in Nat
        /\ UNCHANGED << ready, disabled, stream, pos, w, rendered, presented, accepted, dropped >>
    BY <1>8, PcmAssumption DEF StackReads
  <2>2. head' \in 0 .. Len(stream) /\ Len(stream) - head' <= QueueSize
    BY <1>0, <2>1
  <2>3. PcmTypeOK'
    BY <2>1, <2>2 DEF PcmTypeOK
  <2>4. DataContiguous' /\ NextFollows'
    BY <2>1 DEF DataContiguous, NextFollows, NextByte
  <2> QED BY <2>3, <2>4
<1>9. ASSUME UNCHANGED pcmVars PROVE PcmInv'
  BY <1>9 DEF pcmVars, PcmTypeOK, DataContiguous, NextFollows, NextByte, Unbroken, Follows
<1> QED BY <1>1, <1>d, <1>2, <1>3, <1>4, <1>5, <1>6, <1>7, <1>8, <1>9 DEF PcmNext, WriterStep

\* The invariant of the data path: types, contiguity and where the next byte goes.
THEOREM PcmInvariant == PcmSpec => []PcmInv
BY PcmInitial, PcmStep, PTL DEF PcmSpec

\* The queue is never overrun, nor the buffer of out_write, whatever their sizes.
THEOREM PcmTypeCorrect == PcmSpec => []PcmTypeOK
BY PcmInvariant, PTL DEF PcmInv

\* OutWritePcmData and out_write give each session the framework's data in order and
\* without repetition, and leave out only whole buffers dropped while the stream was
\* DISABLED, in stereo and mixed to mono.
THEOREM DataAlwaysContiguous == PcmSpec => []DataContiguous
BY PcmInvariant, PTL DEF PcmInv
-----------------------------------------------------------------------------
\* Positions and counters.  Frames are counted with multiplications, which the
\* remainders of FrameAligned are reduced to.
Whole(x, k) == \E q \in Nat : x = q * k

\* A whole number of frames, as a multiple and as a remainder of zero.
LEMMA WholeMod ==
  ASSUME NEW x \in Nat, NEW k \in Nat \ {0}
  PROVE  Whole(x, k) <=> x % k = 0
<1>1. ASSUME NEW q \in Nat, x = q * k PROVE x % k = 0
  BY <1>1, Z3
<1>2. ASSUME x % k = 0 PROVE x = (x \div k) * k /\ x \div k \in Nat
  BY <1>2, Z3
<1> QED BY <1>1, <1>2 DEF Whole

\* Whole frames after whole frames are whole frames.
LEMMA WholeSum ==
  ASSUME NEW x \in Nat, NEW y \in Nat, NEW k \in Nat \ {0}, Whole(x, k), Whole(y, k)
  PROVE  Whole(x + y, k)
<1>1. PICK q \in Nat : x = q * k
  BY DEF Whole
<1>2. PICK p \in Nat : y = p * k
  BY DEF Whole
<1>3. x + y = (q + p) * k
  BY <1>1, <1>2
<1>4. q + p \in Nat
  OBVIOUS
<1> QED BY <1>3, <1>4 DEF Whole

\* Whole frames less whole frames are whole frames.
LEMMA WholeDifference ==
  ASSUME NEW x \in Nat, NEW y \in Nat, NEW k \in Nat \ {0}, Whole(x, k), Whole(y, k), y <= x
  PROVE  Whole(x - y, k)
<1>1. PICK q \in Nat : x = q * k
  BY DEF Whole
<1>2. PICK p \in Nat : y = p * k
  BY DEF Whole
<1>3. x - y = (q - p) * k
  BY <1>1, <1>2
<1>4. p <= q
  BY <1>1, <1>2
<1> QED BY <1>3, <1>4 DEF Whole

\* A difference of uint64_t numbers that does not wrap is at most the first.
LEMMA ModAtMost ==
  ASSUME NEW x \in Nat, NEW k \in Nat \ {0}
  PROVE  x % k \in Nat /\ x % k <= x
OBVIOUS

\* A frame of the stream is Scale frames of the queue, in stereo and in mono.
LEMMA FrameScales ==
  QFrame \in Nat \ {0} /\ FrameSize = Scale * QFrame /\ Scale \in {1, 2}
BY PcmAssumption DEF QFrame, Scale

\* Every quantity of the data path is a whole number of frames: what the queue
\* holds, what the stack has taken, and how far the write in progress has got.
AllWhole ==
  /\ Whole(Len(stream), QFrame)
  /\ Whole(head, QFrame)
  /\ stream # << >> => Whole(stream[1], QFrame)
  /\ Whole(w.base, QFrame) /\ Whole(w.size, QFrame) /\ Whole(w.total, QFrame)
  /\ Whole(w.bytes, FrameSize)
  /\ Whole(pos, FrameSize)

\* A write in progress cannot report more than it was asked for, and what was
\* reported before has been counted.
Counted ==
  /\ w.size * Scale <= w.bytes
  /\ accepted <= presented * FrameSize

\* Nothing is a whole number of frames.
LEMMA WholeZero ==
  ASSUME NEW k \in Nat \ {0} PROVE Whole(0, k)
<1>1. 0 = 0 * k
  OBVIOUS
<1> QED BY <1>1 DEF Whole

\* What WriteData puts to the queue is a whole number of the queue's frames and
\* no more than the framework's buffer.
LEMMA QueueBytesWhole ==
  ASSUME NEW bytes \in WriteSizes
  PROVE  /\ bytes \in Nat /\ Whole(bytes, FrameSize)
         /\ QueueBytes(bytes) \in Nat /\ Whole(QueueBytes(bytes), QFrame)
         /\ QueueBytes(bytes) * Scale <= bytes
<1>1. bytes \in Nat /\ bytes % FrameSize = 0
  BY PcmAssumption, WholeFrames
<1>2. Whole(bytes, FrameSize)
  BY <1>1, WholeMod, PcmAssumption
<1>3. CASE Mono
  <2>1. FrameSize = 4 /\ QFrame = 2 /\ Scale = 2 /\ QueueBytes(bytes) = (bytes \div 4) * 2
    BY <1>3, PcmAssumption DEF QFrame, Scale, QueueBytes
  <2>2. bytes \div 4 \in Nat
    BY <1>1
  <2>3. Whole((bytes \div 4) * 2, 2)
    BY <2>2 DEF Whole
  <2>4. (bytes \div 4) * 4 <= bytes
    BY <1>1
  <2> QED BY <1>1, <1>2, <2>1, <2>2, <2>3, <2>4
<1>4. CASE ~Mono
  BY <1>1, <1>2, <1>4, PcmAssumption DEF QFrame, Scale, QueueBytes
<1> QED BY <1>3, <1>4

LEMMA FramesInitial == PcmInit => AllWhole /\ Counted
<1> SUFFICES ASSUME PcmInit PROVE AllWhole /\ Counted
  OBVIOUS
<1>1. Whole(0, QFrame) /\ Whole(0, FrameSize)
  BY WholeZero, FrameScales, PcmAssumption
<1>2. AllWhole
  BY <1>1 DEF PcmInit, AllWhole, NoWrite
<1>3. Counted
  BY PcmAssumption, FrameScales DEF PcmInit, Counted, NoWrite
<1> QED BY <1>2, <1>3

LEMMA FramesStep == PcmInv /\ AllWhole /\ Counted /\ [PcmNext]_pcmVars => AllWhole' /\ Counted'
<1> SUFFICES ASSUME PcmInv, AllWhole, Counted, [PcmNext]_pcmVars PROVE AllWhole' /\ Counted'
  OBVIOUS
<1>0. /\ w.bytes \in Nat /\ w.base \in Nat /\ w.size \in Nat /\ w.total \in Nat
      /\ w.total <= w.size /\ pos \in Nat
      /\ w = [pc |-> w.pc, bytes |-> w.bytes, base |-> w.base, size |-> w.size,
              total |-> w.total, polls |-> w.polls]
      /\ Len(stream) \in Nat /\ head \in Nat /\ head <= Len(stream) /\ stream \in Seq(Nat)
      /\ Len(stream) - head <= QueueSize /\ QueueSize \in Nat
      /\ presented \in Nat /\ accepted \in Nat
      /\ QFrame \in Nat \ {0} /\ FrameSize \in Nat \ {0} /\ Scale \in {1, 2}
  BY PcmAssumption, FrameScales DEF PcmInv, PcmTypeOK
<1>f. FrameSize = Scale * QFrame
  BY FrameScales
<1>1. ASSUME NEW bytes \in WriteSizes, WriteData(bytes) PROVE AllWhole' /\ Counted'
  <2>1. /\ w'.bytes = bytes /\ w'.base = pos \div Scale /\ w'.size = QueueBytes(bytes)
        /\ w'.total = 0
        /\ UNCHANGED << ready, disabled, stream, head, pos, rendered, presented, accepted, dropped >>
    BY <1>1 DEF WriteData
  <2>2. Whole(pos \div Scale, QFrame)
    <3>1. PICK q \in Nat : pos = q * FrameSize
      BY DEF AllWhole, Whole
    <3>2. pos = Scale * (q * QFrame) /\ q * QFrame \in Nat
      <4>1. Scale \in Nat /\ QFrame \in Nat
        BY <1>0
      <4>2. \A x, y, z \in Nat : x * (y * z) = y * (x * z) /\ x * z \in Nat
        OBVIOUS
      <4> QED BY <1>f, <3>1, <4>1, <4>2
    <3>3. pos \div Scale = q * QFrame
      BY <3>2, ScaleDivides
    <3> QED BY <3>3 DEF Whole
  <2>3. Whole(0, QFrame)
    BY <1>0, WholeZero
  <2> QED BY <2>1, <2>2, <2>3, QueueBytesWhole DEF AllWhole, Counted
<1>d. ASSUME NEW bytes \in WriteSizes, DropData(bytes) PROVE AllWhole' /\ Counted'
  <2>1. /\ pos' = pos + bytes
        /\ UNCHANGED << ready, disabled, stream, head, w, rendered, presented, accepted >>
    BY <1>d DEF DropData
  <2>2. bytes \in Nat /\ Whole(bytes, FrameSize) /\ Whole(pos, FrameSize)
    BY QueueBytesWhole DEF AllWhole
  <2>3. Whole(pos', FrameSize)
    BY <1>0, <2>1, <2>2, WholeSum
  <2> QED BY <2>1, <2>3 DEF AllWhole, Counted
<1>2. ASSUME WriteChunk PROVE AllWhole' /\ Counted'
  <2> DEFINE n == Lesser(availableToWrite, w.size - w.total)
  <2>1. availableToWrite \in Nat /\ w.size - w.total \in Nat
    BY <1>0 DEF availableToWrite
  <2>2. n \in Nat
    BY <2>1 DEF Lesser
  <2>3. Whole(n, QFrame)
    <3>1. Whole(QueueSize, QFrame)
      BY <1>0, WholeMod, WholeFrames
    <3>2. Whole(Len(stream) - head, QFrame) /\ Len(stream) - head \in Nat
      <4>1. Whole(Len(stream), QFrame) /\ Whole(head, QFrame)
        BY DEF AllWhole
      <4>2. Len(stream) \in Nat /\ head \in Nat /\ head <= Len(stream) /\ QFrame \in Nat \ {0}
        BY <1>0
      <4> QED BY <4>1, <4>2, WholeDifference
    <3>3. Whole(availableToWrite, QFrame)
      BY <1>0, <3>1, <3>2, WholeDifference DEF availableToWrite
    <3>4. Whole(w.size - w.total, QFrame)
      <4>1. Whole(w.size, QFrame) /\ Whole(w.total, QFrame)
        BY DEF AllWhole
      <4> QED BY <1>0, <4>1, WholeDifference
    <3> QED BY <3>3, <3>4 DEF Lesser
  <2>4. /\ stream' = stream \o [i \in 1 .. n |-> w.base + w.total + i - 1]
        /\ UNCHANGED << ready, disabled, head, pos, rendered, presented, accepted, dropped >>
        /\ w' = [w EXCEPT !.total = @ + n,
                          !.pc = IF w.total + n < w.size THEN "loop" ELSE "account"]
    BY <1>2 DEF WriteChunk
  <2> HIDE DEF n
  <2>5. w'.total = w.total + n /\ w'.base = w.base /\ w'.size = w.size /\ w'.bytes = w.bytes
    BY <1>0, <2>4
  <2> DEFINE c == [i \in 1 .. n |-> w.base + w.total + i - 1]
  <2>6. c \in Seq(Nat) /\ Len(c) = n /\ (n > 0 => c[1] = w.base + w.total)
    <3>1. \A i \in 1 .. n : w.base + w.total + i - 1 \in Nat
      <4>1. w.base \in Nat /\ w.total \in Nat
        BY <1>0
      <4> QED BY <2>2, <4>1
    <3>2. c \in Seq(Nat)
      BY <2>2, <3>1
    <3>3. DOMAIN c = 1 .. n /\ \A i \in 1 .. n : c[i] = w.base + w.total + i - 1
      OBVIOUS
    <3> QED BY <1>0, <2>2, <3>2, <3>3
  <2> HIDE DEF c
  <2>7. stream' = stream \o c
    BY <2>4 DEF c
  <2>8. /\ Len(stream') = Len(stream) + n
        /\ Len(stream) > 0 => stream'[1] = stream[1]
        /\ Len(stream) = 0 /\ n > 0 => stream'[1] = c[1]
    <3>1. stream \in Seq(Nat) /\ Len(stream) \in Nat
      BY <1>0
    <3>2. Len(stream \o c) = Len(stream) + Len(c)
      BY <2>6, <3>1, ConcatProperties
    <3>3. \A i \in 1 .. Len(stream) + Len(c) :
            (stream \o c)[i] = IF i <= Len(stream) THEN stream[i] ELSE c[i - Len(stream)]
      BY <2>6, <3>1, ConcatProperties
    <3>4. Len(stream) > 0 => (stream \o c)[1] = stream[1]
      BY <2>2, <2>6, <3>1, <3>3
    <3>5. Len(stream) = 0 /\ n > 0 => (stream \o c)[1] = c[1]
      BY <2>2, <2>6, <3>1, <3>3
    <3> QED BY <2>6, <2>7, <3>2, <3>4, <3>5
  <2>9. Whole(Len(stream'), QFrame) /\ Whole(w'.total, QFrame) /\ Whole(w.base + w.total, QFrame)
    BY <1>0, <2>2, <2>3, <2>5, <2>8, WholeSum DEF AllWhole
  <2>10. stream' # << >> => Whole(stream'[1], QFrame)
    <3>1. CASE Len(stream) > 0
      BY <2>8, <3>1 DEF AllWhole
    <3>2. CASE Len(stream) = 0 /\ n > 0
      BY <2>6, <2>8, <2>9, <3>2
    <3>3. CASE Len(stream) = 0 /\ n = 0
      BY <1>0, <2>6, <2>7, <2>8, <3>3, ConcatProperties
    <3> QED BY <1>0, <2>2, <3>1, <3>2, <3>3
  <2> QED BY <2>4, <2>5, <2>9, <2>10 DEF AllWhole, Counted
<1>3. ASSUME WritePoll \/ WriteGivesUp PROVE AllWhole' /\ Counted'
  <2>1. /\ w'.total = w.total /\ w'.base = w.base /\ w'.size = w.size /\ w'.bytes = w.bytes
        /\ UNCHANGED << ready, disabled, stream, head, pos, rendered, presented, accepted, dropped >>
    BY <1>0, <1>3 DEF WritePoll, WriteGivesUp
  <2> QED BY <2>1 DEF AllWhole, Counted
<1>4. ASSUME Account PROVE AllWhole' /\ Counted'
  <2>1. w' = NoWrite /\ UNCHANGED << ready, disabled, stream, head, dropped >> /\ pos = Scale * w.base
        /\ pos' = pos + w.total * Scale /\ accepted' = accepted + w.total * Scale
        /\ presented' = presented + IF w.total > 0 THEN w.bytes \div FrameSize ELSE 0
    BY <1>4 DEF Account, PcmInv, NextFollows
  <2>2. Whole(0, QFrame) /\ Whole(0, FrameSize)
    BY <1>0, WholeZero
  <2>3. Whole(pos', FrameSize)
    <3>1. Whole(w.base + w.total, QFrame)
      BY <1>0, WholeSum DEF AllWhole
    <3>2. PICK q \in Nat : w.base + w.total = q * QFrame
      BY <3>1 DEF Whole
    <3>3. pos' = Scale * (w.base + w.total)
      BY <1>0, <2>1
    <3>4. pos' = q * FrameSize
      <4>1. pos' = Scale * (q * QFrame) /\ FrameSize = Scale * QFrame
        BY <1>f, <3>2, <3>3
      <4>2. q \in Nat /\ QFrame \in Nat /\ Scale \in {1, 2}
        BY <1>0
      <4> QED BY <4>1, <4>2
    <3> QED BY <3>4 DEF Whole
  <2>4. AllWhole'
    BY <2>1, <2>2, <2>3 DEF AllWhole, NoWrite
  <2>5. accepted' <= presented' * FrameSize
    <3>1. PICK q \in Nat : w.bytes = q * FrameSize
      BY DEF AllWhole, Whole
    <3>2. w.bytes \div FrameSize = q
      BY <1>0, <3>1, Z3
    <3>3. w.total * Scale <= q * FrameSize
      <4>1. w.total * Scale <= w.size * Scale
        <5>1. w.total \in Nat /\ w.size \in Nat /\ w.total <= w.size /\ Scale \in {1, 2}
          BY <1>0
        <5> QED BY <5>1
      <4>2. w.size * Scale <= q * FrameSize
        BY <3>1 DEF Counted
      <4>3. w.total * Scale \in Nat /\ w.size * Scale \in Nat /\ q * FrameSize \in Nat
        <5>1. /\ w.total \in Nat /\ w.size \in Nat /\ Scale \in Nat /\ q \in Nat
              /\ FrameSize \in Nat
          BY <1>0
        <5> QED BY <5>1
      <4> QED BY <4>1, <4>2, <4>3
    <3>4. CASE w.total > 0
      <4>1. presented' = presented + q /\ accepted' = accepted + w.total * Scale
        BY <2>1, <3>2, <3>4
      <4>2. presented' * FrameSize = presented * FrameSize + q * FrameSize
        BY <1>0, <4>1
      <4>3. presented * FrameSize \in Nat /\ q * FrameSize \in Nat
        <5>1. presented \in Nat /\ FrameSize \in Nat
          BY <1>0
        <5> QED BY <5>1
      <4>4. w.total * Scale \in Nat /\ accepted \in Nat
        <5>1. w.total \in Nat /\ Scale \in Nat /\ accepted \in Nat
          BY <1>0
        <5> QED BY <5>1
      <4>5. accepted <= presented * FrameSize
        BY DEF Counted
      <4> QED BY <3>3, <4>1, <4>2, <4>3, <4>4, <4>5
    <3>5. CASE w.total = 0
      BY <1>0, <2>1, <3>5 DEF Counted
    <3> QED BY <1>0, <3>4, <3>5
  <2>6. w'.size * Scale <= w'.bytes
    BY <1>0, <2>1 DEF NoWrite
  <2> QED BY <2>4, <2>5, <2>6 DEF Counted
<1>5. ASSUME ClearRendered \/ ClearPresented \/ A2dpSuspended \/ A2dpResumed \/ ControlResult
      PROVE  AllWhole' /\ Counted'
  <2>1. UNCHANGED << ready, stream, head, pos, w >>
        /\ (UNCHANGED << presented, accepted >> \/ (presented' = 0 /\ accepted' = 0))
    BY <1>5 DEF ClearRendered, ClearPresented, A2dpSuspended, A2dpResumed, ControlResult
  <2>2. 0 <= 0 * FrameSize
    BY <1>0
  <2> QED BY <2>1, <2>2 DEF AllWhole, Counted
<1>6. ASSUME SessionEnds \/ SessionStarts PROVE AllWhole' /\ Counted'
  <2>1. /\ UNCHANGED << pos, w, rendered, presented, accepted >>
        /\ stream' = << >> /\ head' = 0 /\ Len(stream') = 0
    BY <1>6 DEF SessionEnds, SessionStarts, SessionChanges
  <2>2. Whole(0, QFrame)
    BY <1>0, WholeZero
  <2> QED BY <2>1, <2>2 DEF AllWhole, Counted
<1>7. ASSUME NEW n \in ReadSizes, StackReads(n) PROVE AllWhole' /\ Counted'
  <2>1. n \in Nat /\ Whole(n, QFrame)
    BY <1>0, PcmAssumption, WholeFrames, WholeMod
  <2>2. head' = head + n /\ UNCHANGED << ready, disabled, stream, pos, w, rendered, presented, accepted >>
    BY <1>7 DEF StackReads
  <2>3. Whole(head', QFrame)
    BY <1>0, <2>1, <2>2, WholeSum DEF AllWhole
  <2> QED BY <2>2, <2>3 DEF AllWhole, Counted
<1>8. CASE UNCHANGED pcmVars
  BY <1>8 DEF pcmVars, AllWhole, Counted
<1> QED BY <1>1, <1>d, <1>2, <1>3, <1>4, <1>5, <1>6, <1>7, <1>8 DEF PcmNext, WriterStep

\* The invariant of whole frames and of the counters.
THEOREM FramesInvariant == PcmSpec => [](PcmInv /\ AllWhole /\ Counted)
BY PcmInitial, PcmStep, FramesInitial, FramesStep, PTL DEF PcmSpec

\* Every session's data begins with a whole frame, also when the session was
\* replaced in the middle of a write, and out_write stops at whole frames.
THEOREM AlwaysFrameAligned == PcmSpec => []FrameAligned
<1>1. PcmInv /\ AllWhole /\ Counted => FrameAligned
  <2> SUFFICES ASSUME PcmInv, AllWhole PROVE FrameAligned
    OBVIOUS
  <2>1. pos % FrameSize = 0
    BY WholeMod, PcmAssumption DEF AllWhole, PcmInv, PcmTypeOK
  <2>2. ASSUME stream # << >> PROVE stream[1] % QFrame = 0
    <3>1. stream[1] \in Nat
      BY <2>2 DEF PcmInv, PcmTypeOK
    <3> QED BY <2>2, <3>1, WholeMod, FrameScales DEF AllWhole
  <2> QED BY <2>1, <2>2 DEF FrameAligned
<1> QED BY <1>1, FramesInvariant, PTL

\* No position that out_calculate_feeding_delay_ms reports exceeds what was counted,
\* whatever the width of the counters, and the count covers what reached a queue and
\* was reported.
THEOREM AlwaysPositionBounded == PcmSpec => []PositionBounded
<1>1. PcmInv /\ AllWhole /\ Counted => PositionBounded
  <2> SUFFICES ASSUME PcmInv, Counted,
                      NEW latency \in Latencies, NEW absorbed_bytes \in 0 .. MaxBytes
               PROVE  FeedingFrames(absorbed_bytes, latency) <= presented
    BY DEF PositionBounded, Counted
  <2> DEFINE absorbed == absorbed_bytes \div FrameSize
             frames == IF presented < absorbed \/ Sub64(presented, absorbed) > latency
                       THEN presented ELSE absorbed
  <2>1. absorbed \in Nat /\ latency \in Nat /\ presented \in Nat
    <3>1. absorbed_bytes \in Nat /\ FrameSize \in Nat \ {0}
      BY PcmAssumption
    <3>2. absorbed_bytes \div FrameSize \in Nat
      BY <3>1
    <3> QED BY <3>2, PcmAssumption DEF PcmInv, PcmTypeOK
  <2> HIDE DEF absorbed
  <2>2. frames \in Nat /\ frames <= presented
    BY <2>1
  <2>3. FeedingFrames(absorbed_bytes, latency)
          = IF frames > latency THEN Sub64(frames, latency) ELSE 0
    BY DEF FeedingFrames, absorbed
  <2> HIDE DEF frames
  <2>4. CASE frames > latency
    <3>1. frames - latency \in Nat
      BY <2>1, <2>2, <2>4
    <3>2. (frames - latency) % Word \in Nat /\ (frames - latency) % Word <= frames - latency
      BY <3>1, ModAtMost, PcmAssumption
    <3> QED BY <2>1, <2>2, <2>3, <2>4, <3>1, <3>2 DEF Sub64
  <2>5. CASE ~(frames > latency)
    BY <2>1, <2>3, <2>5
  <2> QED BY <2>4, <2>5
<1> QED BY <1>1, FramesInvariant, PTL
=============================================================================
