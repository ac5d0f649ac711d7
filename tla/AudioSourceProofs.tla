-------------------------- MODULE AudioSourceProofs --------------------------
(***************************************************************************)
(* Theorems about the audio source: the buffers, the announced gaps and    *)
(* the alignment of the samples, for all rates, thresholds and sizes.      *)
(*                                                                         *)
(* The queue's part of the invariant says that packets are ordered, that   *)
(* each one follows the one before it or is marked, and that after the     *)
(* newest one nothing is missing but what skip_first_time left out.  The   *)
(* alignment's part relates the running count of samples to the end of the *)
(* last buffer, and the first deviation to the time since when             *)
(* discontinuities are waited for; both rest on how far the two rounded    *)
(* conversions can be apart.                                               *)
(***************************************************************************)
EXTENDS AudioSource, FiniteSetTheorems, TLAPS

-----------------------------------------------------------------------------
\* Integer division rounds down.
LEMMA DivBounds ==
  ASSUME NEW a \in Nat, NEW d \in Nat \ {0}
  PROVE  a \div d \in Nat /\ d * (a \div d) <= a /\ a < d * (a \div d) + d
  OBVIOUS

\* Products of naturals.
LEMMA Products ==
  ASSUME NEW a \in Int, NEW b \in Int, NEW d \in Nat \ {0}
  PROVE  /\ a * d \in Int
         /\ a * d = d * a
         /\ (a + b) * d = a * d + b * d
         /\ (a - b) * d = a * d - b * d
         /\ a * d < b * d => a < b
         /\ a * d <= b * d => a <= b
         /\ a <= b => a * d <= b * d
<1>1. a * d \in Int /\ a * d = d * a /\ (a + b) * d = a * d + b * d
      /\ (a - b) * d = a * d - b * d
  OBVIOUS
<1>2. a * d < b * d => a < b
  OBVIOUS
<1>3. a * d <= b * d => a <= b
  OBVIOUS
<1>4. a <= b => a * d <= b * d
  OBVIOUS
<1> QED
  BY <1>1, <1>2, <1>3, <1>4

\* Times to sample numbers, and back, with what the rounding leaves out.
LEMMA Conversions ==
  ASSUME NEW n \in Nat
  PROVE  /\ SampleAt(n) \in Nat
         /\ SampleAt(n) * Second <= n * Rate
         /\ n * Rate < SampleAt(n) * Second + Second
         /\ TimeAt(n) \in Nat
         /\ TimeAt(n) * Rate <= n * Second
         /\ n * Second < TimeAt(n) * Rate + Rate
<1>1. /\ Rate \in Nat \ {0} /\ Second \in Nat \ {0}
      /\ n * Rate \in Nat /\ n * Second \in Nat
  BY AudioSourceAssumption
<1>2. /\ SampleAt(n) \in Nat
      /\ Second * SampleAt(n) <= n * Rate
      /\ n * Rate < Second * SampleAt(n) + Second
  BY <1>1, DivBounds DEF SampleAt
<1>3. /\ TimeAt(n) \in Nat
      /\ Rate * TimeAt(n) <= n * Second
      /\ n * Second < Rate * TimeAt(n) + Rate
  BY <1>1, DivBounds DEF TimeAt
<1>4. Second * SampleAt(n) = SampleAt(n) * Second
  BY <1>1, <1>2, Products
<1>5. Rate * TimeAt(n) = TimeAt(n) * Rate
  BY <1>1, <1>3, Products
<1> QED
  BY <1>2, <1>3, <1>4, <1>5

\* start_time is the capture time rounded down by less than a sample.
LEMMA Rounded ==
  ASSUME NEW t \in Nat
  PROVE  /\ TimeAt(SampleAt(t)) \in Nat
         /\ TimeAt(SampleAt(t)) <= t
         /\ (t - TimeAt(SampleAt(t))) * Rate < Second + Rate
<1> DEFINE k == SampleAt(t)
<1> DEFINE s == TimeAt(k)
<1>1. /\ k \in Nat /\ k * Second <= t * Rate /\ t * Rate < k * Second + Second
  BY Conversions
<1> HIDE DEF k
<1>2. /\ s \in Nat /\ s * Rate <= k * Second /\ k * Second < s * Rate + Rate
  BY <1>1, Conversions
<1> HIDE DEF s
<1>3. /\ Rate \in Nat \ {0} /\ Second \in Nat \ {0}
      /\ k * Second \in Int /\ t * Rate \in Int /\ s * Rate \in Int
  BY <1>1, <1>2, AudioSourceAssumption, Products
<1>4. s <= t
  <2>1. s * Rate <= t * Rate
    BY <1>1, <1>2, <1>3
  <2> QED
    BY <2>1, <1>2, <1>3, Products
<1>5. (t - s) * Rate < Second + Rate
  <2>1. (t - s) * Rate = t * Rate - s * Rate
    BY <1>2, <1>3, Products
  <2> QED
    BY <1>1, <1>2, <1>3, <2>1
<1> QED
  BY <1>2, <1>4, <1>5 DEF k, s

\* Sample numbers whose times are further apart than T are far apart.
LEMMA Apart ==
  ASSUME NEW a \in Nat, NEW b \in Nat, NEW T \in Nat, TimeAt(a) - TimeAt(b) > T
  PROVE  a - b >= SampleAt(T)
<1> DEFINE x == TimeAt(a)
<1> DEFINE y == TimeAt(b)
<1> DEFINE k == SampleAt(T)
<1>1. /\ x \in Nat /\ x * Rate <= a * Second
      /\ y \in Nat /\ b * Second < y * Rate + Rate
      /\ k \in Nat /\ k * Second <= T * Rate
      /\ x >= y + T + 1
  BY Conversions
<1> HIDE DEF x, y, k
<1>2. /\ Rate \in Nat \ {0} /\ Second \in Nat \ {0}
      /\ a * Second \in Int /\ b * Second \in Int /\ k * Second \in Int
      /\ x * Rate \in Int /\ y * Rate \in Int /\ T * Rate \in Int
  BY <1>1, AudioSourceAssumption, Products
<1>3. y * Rate + T * Rate + Rate <= x * Rate
  <2>1. (y + T + 1) * Rate <= x * Rate
    BY <1>1, <1>2, Products
  <2>2. (y + T + 1) * Rate = (y + T) * Rate + 1 * Rate
    BY <1>1, <1>2, Products
  <2>3. (y + T) * Rate = y * Rate + T * Rate
    BY <1>1, <1>2, Products
  <2>4. 1 * Rate = Rate
    BY <1>2
  <2> QED
    BY <1>2, <2>1, <2>2, <2>3, <2>4
<1>4. b * Second + k * Second < a * Second
  BY <1>1, <1>2, <1>3
<1>5. (b + k) * Second = b * Second + k * Second
  BY <1>1, <1>2, Products
<1>6. b + k < a
  <2>1. (b + k) * Second < a * Second
    BY <1>4, <1>5
  <2>2. b + k \in Int /\ a \in Int
    BY <1>1
  <2> QED
    BY <1>2, <2>1, <2>2, Products
<1> QED
  BY <1>1, <1>6 DEF k

\* Deviating timestamps mean deviating sample numbers: the test of create.
LEMMA DeviationIsFar ==
  ASSUME NEW a \in Nat, NEW b \in Nat, Threshold # 0,
         Distance(TimeAt(a), TimeAt(b)) > Threshold
  PROVE  Distance(b, a) >= SampleAt(Threshold)
<1>1. Threshold \in Nat /\ TimeAt(a) \in Nat /\ TimeAt(b) \in Nat
      /\ SampleAt(Threshold) \in Nat
  BY AudioSourceAssumption, Conversions
<1>2. CASE TimeAt(a) <= TimeAt(b)
  <2>1. b - a >= SampleAt(Threshold)
    BY <1>1, <1>2, Apart DEF Distance
  <2> QED
    BY <1>1, <2>1 DEF Distance
<1>3. CASE ~(TimeAt(a) <= TimeAt(b))
  <2>1. a - b >= SampleAt(Threshold)
    BY <1>1, <1>3, Apart DEF Distance
  <2> QED
    BY <1>1, <2>1 DEF Distance
<1> QED
  BY <1>2, <1>3

\* A time that is not too long after another one is after it: the unsigned
\* difference of an earlier time is an eternity.
LEMMA ElapsedIsAfter ==
  ASSUME NEW from \in Nat, NEW to \in Nat,
         from + DiscontWait < TimeMod, to + DiscontWait < TimeMod,
         Elapsed(from, to) < DiscontWait
  PROVE  from <= to /\ to < from + DiscontWait
<1>1. TimeMod \in Nat \ {0} /\ DiscontWait \in Nat
  BY AudioSourceAssumption
<1>2. CASE from <= to
  <2>1. (to - from) % TimeMod = to - from
    BY <1>1, <1>2
  <2> QED
    BY <1>1, <1>2, <2>1 DEF Elapsed
<1>3. CASE to < from
  <2>1. (to - from) % TimeMod = to - from + TimeMod
    BY <1>1, <1>3
  <2> QED
    BY <1>1, <1>3, <2>1 DEF Elapsed
<1> QED
  BY <1>2, <1>3

-----------------------------------------------------------------------------
\* The packet is to be returned with DISCONT.
Flagged(e) == e.first \/ e.dropped

\* The packet's time is a time the clock has.
Timely(t) == t + DiscontWait < TimeMod

Times ==
  /\ \A i \in 1..Len(current_packets) : Timely(current_packets[i].time)
  /\ strPc = "have" => Timely(p.time)
  /\ discont_time # None => Timely(discont_time)

\* The packets are in the order of their capture.
Ordered ==
  /\ \A i, j \in 1..Len(current_packets) :
       i < j => current_packets[i].frame < current_packets[j].frame
  /\ \A i \in 1..Len(current_packets) :
       /\ current_packets[i].frame <= frameNumber
       /\ strPc = "have" => p.frame < current_packets[i].frame

\* A packet follows the one queued before it, or will have DISCONT.
Follows ==
  \A i \in 1..(Len(current_packets) - 1) :
    \/ Joined(current_packets[i].frame, current_packets[i + 1].frame)
    \/ Flagged(current_packets[i + 1])

\* Unless the source is flushing, the next packet follows the last one that was queued;
\* or the signal was gone since, and the next packet will be the first one.
Newest ==
  had_signal /\ ~flushing =>
    IF current_packets = <<>>
      THEN lastOut = 0 \/ Joined(lastOut, frameNumber + 1)
      ELSE Joined(current_packets[Len(current_packets)].frame, frameNumber + 1)

\* A gap that was returned, or is about to be, is going to be announced.
Announced ==
  \/ ~owed /\ (lastOut = 0 \/ current_packets = <<>>
                           \/ Joined(lastOut, current_packets[1].frame))
  \/ skipped_last > 0
  \/ \E i \in 1..Len(current_packets) : Flagged(current_packets[i])

\* The running count of samples is where the last buffer ended.
Counting ==
  Threshold # 0 /\ next_offset # None =>
    /\ TimeAt(next_offset) <= out.end
    /\ (out.end - TimeAt(next_offset)) * Rate < Second + Rate

\* While timestamps are off, a discontinuity is being waited for, and has been
\* for less than discont-wait.
Waiting ==
  Threshold # 0 /\ since # None =>
    /\ discont_time # None
    /\ discont_time <= since
    /\ out.capture < discont_time + DiscontWait

Inv ==
  /\ TypeOK
  /\ Times
  /\ Ordered
  /\ BuffersAccounted
  /\ Follows
  /\ Newest
  /\ Announced
  /\ Counting
  /\ Waiting

\* The fields of a packet.
LEMMA PacketType ==
  ASSUME NEW e \in Packet
  PROVE  /\ e.frame \in Nat \ {0} /\ e.time \in Nat /\ e.count \in Nat
         /\ e.first \in BOOLEAN /\ e.dropped \in BOOLEAN
<1>1. /\ e.frame \in 1..MaxPackets /\ e.time \in Nat /\ e.count \in Counts
      /\ e.first \in BOOLEAN /\ e.dropped \in BOOLEAN
  BY DEF Packet
<1>2. e.frame \in Nat \ {0}
  BY <1>1
<1>3. e.count \in Nat
  BY Zenon, <1>1, AudioSourceAssumption
<1> QED
  BY <1>1, <1>2, <1>3

\* The packets of the queue are numbered by naturals.
LEMMA QueuedFrames ==
  ASSUME NEW q \in Seq(Packet)
  PROVE  \A i \in 1..Len(q) : q[i] \in Packet /\ q[i].frame \in Nat
<1> SUFFICES ASSUME NEW i \in 1..Len(q) PROVE q[i] \in Packet /\ q[i].frame \in Nat
  OBVIOUS
<1>1. q[i] \in Packet
  OBVIOUS
<1> QED
  BY <1>1, PacketType

\* A number belongs to a queued packet when it is that of one of the entries.
LEMMA InFramesOf ==
  ASSUME NEW S, NEW q \in Seq(S), NEW n
  PROVE  n \in FramesOf(q) <=> \E i \in 1..Len(q) : q[i].frame = n
  BY DEF FramesOf

\* The queue after got_packet: the packets that the loop left, and the new one.
Queued(q, e) == Append(SubSeq(q, Excess(q) + 1, Len(q)), e)

\* What the dropping loop of got_packet pops, and what is left of it.
LEMMA Parts ==
  ASSUME NEW q \in Seq(Packet), NEW e \in Packet
  PROVE  /\ Excess(q) \in 0..Len(q)
         /\ Len(q) - Excess(q) < QueueSize
         /\ Len(q) \in Nat
         /\ Queued(q, e) \in Seq(Packet)
         /\ Len(Queued(q, e)) = Len(q) - Excess(q) + 1
         /\ \A i \in 1..(Len(q) - Excess(q)) : Queued(q, e)[i] = q[i + Excess(q)]
         /\ Queued(q, e)[Len(q) - Excess(q) + 1] = e
         /\ \A m : m \in FramesOf(SubSeq(q, 1, Excess(q)))
                     <=> \E i \in 1..Excess(q) : q[i].frame = m
<1> DEFINE x == Excess(q)
<1> DEFINE k == SubSeq(q, x + 1, Len(q))
<1> DEFINE d == SubSeq(q, 1, x)
<1>1. x \in 0..Len(q) /\ Len(q) - x < QueueSize
  BY AudioSourceAssumption DEF Excess
<1> HIDE DEF x
<1>2. /\ k \in Seq(Packet) /\ Len(k) = Len(q) - x
      /\ \A i \in 1..(Len(q) - x) : k[i] = q[i + x]
  BY <1>1
<1>3. /\ d \in Seq(Packet) /\ Len(d) = x
      /\ \A i \in 1..x : d[i] = q[i]
  BY <1>1
<1> HIDE DEF k, d
<1>4. \A n : n \in FramesOf(d) <=> \E i \in 1..x : q[i].frame = n
  <2>1. \A n : n \in FramesOf(d) <=> \E i \in 1..x : d[i].frame = n
    BY <1>3, InFramesOf
  <2> QED
    BY <1>3, <2>1
<1>5. /\ Append(k, e) \in Seq(Packet) /\ Len(Append(k, e)) = Len(q) - x + 1
      /\ \A i \in 1..(Len(q) - x) : Append(k, e)[i] = q[i + x]
      /\ Append(k, e)[Len(q) - x + 1] = e
  BY <1>1, <1>2
<1>6. Queued(q, e) = Append(k, e)
  BY DEF Queued, k, x
<1> QED
  BY <1>1, <1>4, <1>5, <1>6 DEF d, x

\* The queue at the start and after unlock_stop.
LEMMA EmptyQueue == <<>> \in Seq(Packet) /\ Len(<<>>) = 0 /\ FramesOf(<<>>) = {}
<1>1. <<>> \in Seq(Packet) /\ Len(<<>>) = 0
  OBVIOUS
<1>2. ASSUME NEW n \in FramesOf(<<>>) PROVE FALSE
  <2>1. \E i \in 1..Len(<<>>) : <<>>[i].frame = n
    BY <1>1, InFramesOf
  <2> QED
    BY <1>1, <2>1
<1> QED
  BY <1>1, <1>2

\* The fields of GstAjaAudioSrc before the first call.
LEMMA InitInv == Init => Inv
<1> SUFFICES ASSUME Init PROVE Inv
  OBVIOUS
<1>1. QueueOK
  <2>1. /\ skipLeft \in 0..SkipPackets /\ restarts \in 0..MaxRestarts
        /\ flushes \in 0..MaxFlushes
    BY AudioSourceAssumption DEF Init
  <2>2. current_packets \in Seq(Packet) /\ Len(current_packets) <= QueueSize
    BY EmptyQueue, AudioSourceAssumption DEF Init
  <2>3. skipped_last \in Nat /\ skipped_overall \in Nat
    BY DEF Init
  <2> QED
    BY <2>1, <2>2, <2>3 DEF Init, QueueOK
<1>2. StreamOK
  BY DEF Init, StreamOK
<1>3. NumbersOK
  BY AudioSourceAssumption DEF Init, NumbersOK
<1>4. AlignOK
  BY DEF Init, AlignOK
<1>5. BuffersAccounted
  BY EmptyQueue DEF Init, BuffersAccounted
<1>6. Times
  BY EmptyQueue, TimesFit, AudioSourceAssumption DEF Init, Times, Timely
<1>7. Ordered /\ Follows
  BY EmptyQueue DEF Init, Ordered, Follows
<1>8. Newest /\ Announced
  BY DEF Init, Newest, Announced
<1>9. Counting /\ Waiting
  BY DEF Init, Counting, Waiting
<1> QED
  BY <1>1, <1>2, <1>3, <1>4, <1>5, <1>6, <1>7, <1>8, <1>9 DEF Inv, TypeOK

\* Numbers that are left out stay left out.
LEMMA JoinedStays ==
  ASSUME waived \subseteq waived'
  PROVE  /\ \A a, b : Joined(a, b) => Joined(a, b)'
         /\ waived' = waived => \A a, b : Joined(a, b)' => Joined(a, b)
  BY DEF Joined

\* What a step does that leaves the queue alone.
Untouched ==
  UNCHANGED <<queueVars, strPc, p, alignVars, buffers, flushes, lastOut, owed>>

\* Such a step needs to see to the numbers only.
LEMMA UntouchedStep ==
  ASSUME Inv, Untouched, frameNumber' \in 0..MaxPackets, frameNumber' >= frameNumber,
         skipLeft' \in 0..SkipPackets, restarts' \in 0..MaxRestarts,
         had_signal' \in BOOLEAN, waived \subseteq waived', waived' \subseteq 1..frameNumber'
  PROVE  /\ TypeOK' /\ Times' /\ Ordered' /\ BuffersAccounted' /\ Follows' /\ Announced'
         /\ Counting' /\ Waiting'
<1> USE DEF Inv, TypeOK, Untouched, queueVars, alignVars
<1>1. QueueOK' /\ StreamOK' /\ AlignOK'
  BY DEF QueueOK, StreamOK, AlignOK
<1>2. NumbersOK'
  BY AudioSourceAssumption DEF NumbersOK
<1>3. Ordered'
  <2>1. \A i \in 1..Len(current_packets) : current_packets[i].frame \in Nat
    BY QueuedFrames DEF QueueOK
  <2> QED
    BY <2>1, AudioSourceAssumption DEF Ordered, NumbersOK
<1>4. Times' /\ BuffersAccounted'
  BY DEF Times, BuffersAccounted
<1>5. \A a, b : Joined(a, b) => a < b /\ \A n \in (a + 1)..(b - 1) : n \in waived'
  BY DEF Joined
<1>6. Follows' /\ Announced'
  BY <1>5 DEF Follows, Announced, Joined
<1>7. Counting' /\ Waiting'
  BY DEF Counting, Waiting
<1> QED
  BY <1>1, <1>2, <1>3, <1>4, <1>6, <1>7

\* Packets without signal or rejected, and start_streams, leave the queue alone.
LEMMA UnqueuedSteps ==
  ASSUME Inv, GotNoSignal \/ StartStreams \/ \E d \in BOOLEAN : RejectPacket(d)
  PROVE  Inv'
<1>1. /\ frameNumber \in 0..MaxPackets /\ MaxPackets \in Nat
      /\ skipLeft \in 0..SkipPackets /\ SkipPackets \in Nat
      /\ restarts \in 0..MaxRestarts /\ MaxRestarts \in Nat
      /\ had_signal \in BOOLEAN /\ waived \subseteq 1..frameNumber
  BY AudioSourceAssumption DEF Inv, TypeOK, NumbersOK, QueueOK
<1>2. /\ Untouched /\ waived' = waived
      /\ frameNumber' \in 0..MaxPackets /\ frameNumber' >= frameNumber
      /\ skipLeft' \in 0..SkipPackets /\ restarts' \in 0..MaxRestarts
      /\ had_signal' \in BOOLEAN
      /\ had_signal' /\ ~flushing => had_signal /\ frameNumber' = frameNumber
  <2> USE DEF Untouched, queueVars, skipVars, alignVars
  <2>1. CASE GotNoSignal
    <3>1. had_signal' = FALSE
      BY <2>1 DEF GotNoSignal
    <3>2. frameNumber' \in frameNumber..MaxPackets
      BY <2>1 DEF GotNoSignal
    <3>3. UNCHANGED <<skipVars, queueVars, strPc, p, alignVars, buffers, flushes, lastOut,
                      owed>>
      BY <2>1 DEF GotNoSignal
    <3>4. frameNumber' \in 0..MaxPackets /\ frameNumber' >= frameNumber
      BY <1>1, <3>2
    <3>5. Untouched /\ waived' = waived /\ skipLeft' = skipLeft /\ restarts' = restarts
      BY <3>3
    <3> QED
      BY <1>1, <3>1, <3>4, <3>5
  <2>2. CASE StartStreams
    BY <1>1, <2>2 DEF StartStreams
  <2>3. CASE \E d \in BOOLEAN : RejectPacket(d)
    BY <1>1, <2>3 DEF RejectPacket, Numbered
  <2> QED
    BY <2>1, <2>2, <2>3
<1>3. waived' \subseteq 1..frameNumber'
  BY <1>1, <1>2
<1>4. Newest'
  BY <1>2 DEF Inv, Newest, Joined, Untouched, queueVars
<1> QED
  BY <1>2, <1>3, <1>4, UntouchedStep DEF Inv

\* A packet within skip_first_time is left out, with all since the one pushed last.
LEMMA SkipPacketStep == ASSUME Inv, NEW d \in BOOLEAN, SkipPacket(d) PROVE Inv'
<1> DEFINE q == current_packets
<1> DEFINE n == frameNumber'
<1>1. /\ frameNumber \in Nat /\ n \in 0..MaxPackets /\ n > frameNumber
      /\ skipLeft \in Nat /\ skipLeft' \in 0..SkipPackets
      /\ restarts' \in 0..MaxRestarts /\ had_signal' = TRUE
      /\ waived \subseteq 1..frameNumber /\ lastOut \in 0..frameNumber
      /\ waived' = waived \union ((NewestPushed + 1)..n)
      /\ q \in Seq(Packet)
  BY AudioSourceAssumption DEF SkipPacket, Numbered, Inv, TypeOK, NumbersOK, QueueOK
<1>2. NewestPushed \in 0..frameNumber
  <2>1. CASE q = <<>>
    BY <1>1, <2>1 DEF NewestPushed
  <2>2. CASE q # <<>>
    <3>1. Len(q) \in 1..Len(q)
      BY <1>1, <2>2
    <3>2. q[Len(q)].frame \in Nat /\ q[Len(q)].frame <= frameNumber
      BY <1>1, <3>1, QueuedFrames DEF Inv, Ordered
    <3> QED
      BY <1>1, <2>2, <3>2 DEF NewestPushed
  <2> QED
    BY <2>1, <2>2
<1>3. waived' \subseteq 1..n
  BY <1>1, <1>2
<1>4. Untouched
  BY DEF SkipPacket, Untouched
<1>5. /\ NewestPushed < n + 1
      /\ \A m \in (NewestPushed + 1)..((n + 1) - 1) : m \in waived'
  <2> DEFINE N == NewestPushed
  <2>1. N \in Nat /\ n \in Nat /\ N < n
    BY <1>1, <1>2
  <2>2. \A m \in (N + 1)..n : m \in waived'
    BY <1>1
  <2> HIDE DEF N, n
  <2>3. (n + 1) - 1 = n /\ N < n + 1
    BY <2>1
  <2> QED
    BY <2>2, <2>3 DEF N
<1>6. Newest'
  <2>1. current_packets' = q /\ lastOut' = lastOut
    BY <1>4 DEF Untouched, queueVars
  <2>2. CASE q = <<>>
    <3>1. lastOut < n + 1 /\ \A m \in (lastOut + 1)..((n + 1) - 1) : m \in waived'
      BY <1>5, <2>2 DEF NewestPushed
    <3> QED
      BY <2>1, <2>2, <3>1 DEF Newest, Joined
  <2>3. CASE q # <<>>
    <3> DEFINE k == q[Len(q)].frame
    <3>1. k < n + 1 /\ \A m \in (k + 1)..((n + 1) - 1) : m \in waived'
      BY <1>5, <2>3 DEF NewestPushed
    <3> QED
      BY <2>1, <2>3, <3>1 DEF Newest, Joined
  <2> QED
    BY <2>2, <2>3
<1> QED
  BY <1>1, <1>3, <1>4, <1>6, UntouchedStep DEF Inv

\* got_packet queues the packet behind all others, in the place of the oldest
\* ones if need be.
LEMMA GotPacketStep ==
  ASSUME Inv, NEW d \in BOOLEAN, NEW offset \in Offsets, NEW count \in Counts,
         GotPacket(d, offset, count)
  PROVE  Inv'
<1> USE DEF Inv, TypeOK
<1> DEFINE q == current_packets
<1> DEFINE x == Excess(q)
<1> DEFINE n == frameNumber'
<1> DEFINE ended == EndOfDrops(q)
<1> DEFINE e == [frame |-> n, time |-> n * Frame + offset, count |-> count,
                 first |-> ~had_signal, dropped |-> Marked(d, ended)]
<1> DEFINE r == Queued(q, e)
<1>1. /\ q \in Seq(Packet) /\ frameNumber \in Nat
      /\ n \in 1..MaxPackets
      /\ n > frameNumber /\ (n = frameNumber + 1 \/ d)
      /\ skipLeft = 0 /\ ~flushing
  BY AudioSourceAssumption DEF GotPacket, Numbered, QueueOK, NumbersOK
<1>2. /\ current_packets' = r
      /\ buffers' = (buffers \ FramesOf(SubSeq(q, 1, x))) \union {n}
      /\ skipped_overall' = IF ended THEN skipped_overall + skipped_last
                                     ELSE skipped_overall
      /\ skipped_last' = IF ended THEN 0 ELSE skipped_last + x
      /\ had_signal' = TRUE
      /\ strPc' = IF strPc = "waiting" THEN "woken" ELSE strPc
      /\ UNCHANGED <<flushing, skipLeft, restarts, waived, p, alignVars, flushes, lastOut,
                     owed>>
  BY DEF GotPacket, Kept, Released, CondSignal, Queued, skipVars
<1>3. e \in Packet /\ Timely(e.time)
  <2>1. n * Frame + offset \in Nat /\ Timely(n * Frame + offset)
    <3> HIDE DEF n
    <3>1. /\ n \in Nat /\ MaxPackets \in Nat /\ Frame \in Nat /\ n <= MaxPackets
          /\ offset \in Nat /\ DiscontWait \in Nat /\ TimeMod \in Nat
      BY <1>1, AudioSourceAssumption
    <3> HIDE DEF Inv
    <3>2. MaxPackets * Frame + offset + DiscontWait < TimeMod
      BY TimesFit
    <3>3. n * Frame \in Nat /\ MaxPackets * Frame \in Nat
      BY <3>1
    <3>4. n * Frame <= MaxPackets * Frame
      BY <3>1
    <3> QED
      BY <3>1, <3>2, <3>3, <3>4 DEF Timely
  <2>2. had_signal \in BOOLEAN /\ Marked(d, ended) \in BOOLEAN /\ count \in Nat
    BY AudioSourceAssumption DEF QueueOK, Marked, EndOfDrops
  <2> HIDE DEF n, ended
  <2> QED
    BY <1>1, <2>1, <2>2, AudioSourceAssumption DEF Packet
<1>4. /\ e.frame = n /\ (d => Flagged(e)) /\ (ended => Flagged(e))
      /\ ~had_signal => Flagged(e)
  BY DEF Flagged, Marked
<1> HIDE DEF e, ended, n
<1>5. /\ x \in 0..Len(q) /\ Len(q) - x < QueueSize /\ Len(q) \in Nat
      /\ r \in Seq(Packet) /\ Len(r) = Len(q) - x + 1
      /\ \A i \in 1..(Len(q) - x) : r[i] = q[i + x]
      /\ r[Len(q) - x + 1] = e
      /\ \A m : m \in FramesOf(SubSeq(q, 1, x)) <=> \E i \in 1..x : q[i].frame = m
  BY <1>1, <1>3, Parts
<1>6. ended <=> x = 0 /\ skipped_last > 0
  BY DEF EndOfDrops, ended
<1> HIDE DEF x, r
<1>7. \A i \in 1..Len(q) : /\ q[i] \in Packet /\ q[i].frame \in Nat
                           /\ q[i].frame <= frameNumber
  BY <1>1, QueuedFrames DEF Ordered
<1> HIDE DEF q
<1>8. QueueOK'
  <2>1. skipped_last \in Nat /\ skipped_overall \in Nat /\ flushes \in 0..MaxFlushes
        /\ skipLeft \in 0..SkipPackets /\ restarts \in 0..MaxRestarts
    BY DEF QueueOK
  <2>2. skipped_last' \in Nat /\ skipped_overall' \in Nat
    BY <1>2, <1>5, <2>1
  <2> QED
    BY <1>1, <1>2, <1>5, <2>1, <2>2, AudioSourceAssumption DEF QueueOK
<1>9. StreamOK' /\ AlignOK'
  BY <1>2 DEF StreamOK, AlignOK, alignVars
<1>10. NumbersOK'
  <2>1. frameNumber' = n /\ n > frameNumber
    BY <1>1 DEF n
  <2>2. buffers \subseteq 1..frameNumber /\ lastOut \in 0..frameNumber
    BY DEF NumbersOK
  <2>3. buffers' \subseteq 1..n
    <3>1. buffers' \subseteq buffers \union {n}
      BY <1>2
    <3>2. n \in 1..n /\ \A m \in 1..frameNumber : m \in 1..n
      BY <1>1, <2>1
    <3> QED
      BY <2>2, <3>1, <3>2
  <2>4. lastOut' \in 0..n
    BY <1>1, <1>2, <2>1, <2>2
  <2>5. waived' \subseteq 1..n
    BY <1>1, <1>2, <2>1 DEF NumbersOK
  <2> QED
    BY <1>1, <2>1, <2>3, <2>4, <2>5, AudioSourceAssumption DEF NumbersOK
<1>11. Times'
  <2>1. ASSUME NEW i \in 1..Len(r) PROVE Timely(r[i].time)
    <3>1. CASE i = Len(q) - x + 1
      BY <1>3, <1>5, <3>1
    <3>2. CASE i # Len(q) - x + 1
      <4>1. i \in 1..(Len(q) - x) /\ i + x \in 1..Len(q) /\ r[i] = q[i + x]
        BY <1>5, <3>2
      <4> QED
        BY <4>1 DEF Times, q
    <3> QED
      BY <3>1, <3>2
  <2> QED
    BY <1>2, <2>1 DEF Times, alignVars
<1>12. Ordered'
  <2>1. ASSUME NEW i \in 1..Len(r)
        PROVE  /\ r[i].frame <= n
               /\ strPc = "have" => p.frame < r[i].frame
               /\ i # Len(q) - x + 1 => r[i].frame < n
    <3>1. CASE i = Len(q) - x + 1
      <4>1. r[i].frame = n
        BY <1>4, <1>5, <3>1
      <4>2. strPc = "have" => p.frame \in 1..frameNumber
        BY DEF BuffersAccounted, NumbersOK
      <4> QED
        BY <1>1, <3>1, <4>1, <4>2
    <3>2. CASE i # Len(q) - x + 1
      <4>1. i \in 1..(Len(q) - x) /\ i + x \in 1..Len(q) /\ r[i] = q[i + x]
        BY <1>5, <3>2
      <4>2. strPc = "have" => p.frame < q[i + x].frame
        BY <4>1 DEF Ordered, q
      <4> QED
        BY <1>1, <1>7, <4>1, <4>2
    <3> QED
      BY <3>1, <3>2
  <2>2. ASSUME NEW i \in 1..Len(r), NEW j \in 1..Len(r), i < j
        PROVE  r[i].frame < r[j].frame
    <3>1. i \in 1..(Len(q) - x) /\ i + x \in 1..Len(q) /\ r[i] = q[i + x]
      BY <1>5, <2>2
    <3>2. CASE j = Len(q) - x + 1
      <4>1. r[j].frame = n
        BY <1>4, <1>5, <3>2
      <4>2. i # Len(q) - x + 1
        BY <1>5, <3>1
      <4>3. r[i].frame < n
        BY <2>1, <4>2
      <4> QED
        BY <4>1, <4>3
    <3>3. CASE j # Len(q) - x + 1
      <4>1. j \in 1..(Len(q) - x) /\ j + x \in 1..Len(q)
        BY <1>5, <3>3
      <4>2. i + x < j + x
        BY <1>5, <2>2, <4>1
      <4>3. r[j] = q[j + x]
        BY <1>5, <4>1
      <4> QED
        BY <3>1, <4>1, <4>2, <4>3 DEF Ordered, q
    <3> QED
      BY <3>2, <3>3
  <2>3. current_packets' = r /\ frameNumber' = n /\ p' = p /\ (strPc' = "have" <=> strPc = "have")
    BY <1>2 DEF n
  <2> QED
    BY <2>1, <2>2, <2>3 DEF Ordered
<1>13. BuffersAccounted'
  <2> DEFINE D == FramesOf(SubSeq(q, 1, x))
  <2> DEFINE P == IF strPc = "have" THEN {p.frame} ELSE {}
  <2>1. buffers = FramesOf(q) \union P
    BY DEF BuffersAccounted, q
  <2>2. \A m : m \in FramesOf(q) <=> \E i \in 1..Len(q) : q[i].frame = m
    BY <1>1, InFramesOf
  <2>3. \A m : m \in FramesOf(r) <=> \E i \in 1..Len(r) : r[i].frame = m
    BY <1>5, InFramesOf
  <2>4. FramesOf(r) = (FramesOf(q) \ D) \union {n}
    <3>1. ASSUME NEW i \in 1..Len(q)
          PROVE  q[i].frame \in D \/ q[i].frame \in FramesOf(r)
      <4>1. CASE i <= x
        BY <1>5, <4>1
      <4>2. CASE ~(i <= x)
        <5>1. i - x \in 1..(Len(q) - x) /\ i - x \in 1..Len(r) /\ (i - x) + x = i
          BY <1>5, <4>2
        <5>2. r[i - x] = q[i]
          BY <1>5, <5>1
        <5> QED
          BY <2>3, <5>1, <5>2
      <4> QED
        BY <4>1, <4>2
    <3>2. n \in FramesOf(r)
      BY <1>4, <1>5, <2>3
    <3>3. ASSUME NEW i \in 1..Len(r), i # Len(q) - x + 1
          PROVE  r[i].frame \in FramesOf(q) /\ r[i].frame \notin D
      <4>1. i \in 1..(Len(q) - x) /\ i + x \in 1..Len(q) /\ r[i] = q[i + x]
        BY <1>5, <3>3
      <4>2. ASSUME NEW j \in 1..x, q[j].frame = q[i + x].frame PROVE FALSE
        <5>1. j \in 1..Len(q) /\ j < i + x
          BY <1>5, <4>1
        <5>2. q[j].frame < q[i + x].frame
          BY <4>1, <5>1 DEF Ordered, q
        <5> QED
          BY <1>7, <4>1, <4>2, <5>1, <5>2
      <4>3. q[i + x].frame \notin D
        BY <1>5, <4>2
      <4> QED
        BY <2>2, <4>1, <4>3
    <3>4. r[Len(q) - x + 1].frame = n
      BY <1>4, <1>5
    <3> HIDE DEF D
    <3>5. ASSUME NEW m \in FramesOf(r) PROVE m \in (FramesOf(q) \ D) \union {n}
      <4>1. PICK i \in 1..Len(r) : r[i].frame = m
        BY <2>3
      <4> QED
        BY <3>3, <3>4, <4>1
    <3>6. ASSUME NEW m \in FramesOf(q) \ D PROVE m \in FramesOf(r)
      <4>1. PICK i \in 1..Len(q) : q[i].frame = m
        BY <2>2
      <4> QED
        BY <3>1, <3>6, <4>1
    <3> QED
      BY <3>2, <3>5, <3>6
  <2>5. P \intersect D = {}
    <3> SUFFICES ASSUME strPc = "have", NEW i \in 1..x, q[i].frame = p.frame
                 PROVE  FALSE
      BY <1>5
    <3>1. i \in 1..Len(q)
      BY <1>5
    <3>2. p.frame < q[i].frame
      BY <3>1 DEF Ordered, q
    <3> QED
      BY <1>7, <3>1, <3>2
  <2>6. /\ buffers' = (buffers \ D) \union {n} /\ current_packets' = r
        /\ (IF strPc' = "have" THEN {p'.frame} ELSE {}) = P
    BY <1>2
  <2> HIDE DEF D, P
  <2>7. buffers' = FramesOf(r) \union P
    BY <2>1, <2>4, <2>5, <2>6
  <2> QED
    BY <2>6, <2>7 DEF BuffersAccounted
<1>14. r # <<>> /\ r[Len(r)].frame = n
  BY <1>4, <1>5
<1>15. Newest'
  <2>1. n < n + 1 /\ \A m \in (n + 1)..((n + 1) - 1) : m \in waived'
    BY <1>1
  <2>2. current_packets' # <<>> /\ current_packets'[Len(current_packets')].frame = n
    BY <1>2, <1>14
  <2>3. n = frameNumber'
    BY DEF n
  <2> QED
    BY <2>1, <2>2, <2>3 DEF Newest, Joined
<1>16. ASSUME x # 0 PROVE Announced'
  <2>1. skipped_last' > 0
    <3>1. skipped_last \in Nat
      BY DEF QueueOK
    <3> QED
      BY <1>2, <1>5, <1>6, <1>16, <3>1
  <2> QED
    BY Zenon, <2>1 DEF Announced
<1>17. ASSUME x = 0 PROVE Announced'
  <2>1. /\ Len(r) = Len(q) + 1 /\ \A i \in 1..Len(q) : r[i] = q[i]
        /\ r[Len(q) + 1] = e
    BY <1>5, <1>17
  <2>2. skipped_last > 0 => Announced'
    <3> SUFFICES ASSUME skipped_last > 0 PROVE Announced'
      OBVIOUS
    <3>1. Flagged(r[Len(r)]) /\ Len(r) \in 1..Len(r)
      BY <1>4, <1>5, <1>6, <1>17, <2>1
    <3>2. \E i \in 1..Len(current_packets') : Flagged(current_packets'[i])
      BY <1>2, <3>1
    <3> QED
      BY Zenon, <3>2 DEF Announced
  <2>3. (\E i \in 1..Len(q) : Flagged(q[i])) => Announced'
    <3> SUFFICES ASSUME NEW i \in 1..Len(q), Flagged(q[i]) PROVE Announced'
      OBVIOUS
    <3>1. i \in 1..Len(r) /\ Flagged(r[i])
      BY <1>5, <2>1
    <3>2. \E j \in 1..Len(current_packets') : Flagged(current_packets'[j])
      BY <1>2, <3>1
    <3> QED
      BY Zenon, <3>2 DEF Announced
  <2>4. CASE ~owed /\ (lastOut = 0 \/ q = <<>> \/ Joined(lastOut, q[1].frame))
    <3>1. CASE lastOut = 0
      BY Zenon, <1>2, <2>4, <3>1 DEF Announced
    <3>2. CASE q # <<>> /\ Joined(lastOut, q[1].frame)
      <4>1. r[1] = q[1]
        BY <1>1, <2>1, <3>2
      <4>2. Joined(lastOut', current_packets'[1].frame)
        BY <1>2, <3>2, <4>1
      <4> QED
        BY Zenon, <1>2, <2>4, <4>2 DEF Announced, Joined
    <3>3. CASE lastOut # 0 /\ q = <<>>
      <4>1. had_signal => Joined(lastOut, frameNumber + 1)
        BY <1>1, <3>3 DEF Newest, q
      <4>2. r[1] = e /\ Len(r) = 1
        BY <2>1, <3>3
      <4>3. CASE had_signal /\ n = frameNumber + 1
        <5>1. Joined(lastOut', current_packets'[1].frame)
          BY <1>2, <1>4, <4>1, <4>2, <4>3
        <5> QED
          BY Zenon, <1>2, <2>4, <5>1 DEF Announced, Joined
      <4>4. CASE d \/ ~had_signal
        <5>1. 1 \in 1..Len(r) /\ Flagged(r[1])
          BY <1>4, <4>2, <4>4
        <5> QED
          BY Zenon, <1>2, <5>1 DEF Announced
      <4> QED
        BY <1>1, <4>3, <4>4
    <3> QED
      BY <2>4, <3>1, <3>2, <3>3
  <2> QED
    BY <2>2, <2>3, <2>4 DEF Announced, q
<1>18. Announced'
  BY <1>16, <1>17
<1>19. Follows'
  <2>1. ASSUME NEW i \in 1..(Len(r) - 1)
        PROVE  Joined(r[i].frame, r[i + 1].frame) \/ Flagged(r[i + 1])
    <3>1. i \in 1..(Len(q) - x) /\ i + x \in 1..Len(q) /\ r[i] = q[i + x]
      BY <1>5
    <3>2. CASE i = Len(q) - x
      <4>1. r[i + 1] = e /\ r[i] = q[Len(q)] /\ q # <<>>
        BY <1>5, <3>1, <3>2
      <4>2. had_signal => Joined(q[Len(q)].frame, frameNumber + 1)
        BY <1>1, <4>1 DEF Newest, q
      <4> QED
        BY <1>1, <1>4, <4>1, <4>2
    <3>3. CASE i # Len(q) - x
      <4>1. i + 1 \in 1..(Len(q) - x) /\ i + x \in 1..(Len(q) - 1)
            /\ (i + 1) + x = (i + x) + 1
        BY <1>5, <3>1, <3>3
      <4>2. r[i + 1] = q[(i + x) + 1]
        <5>1. r[i + 1] = q[(i + 1) + x]
          BY <1>5, <4>1
        <5> QED
          BY <4>1, <5>1
      <4>3. \/ Joined(q[i + x].frame, q[(i + x) + 1].frame)
            \/ Flagged(q[(i + x) + 1])
        BY <4>1 DEF Follows, q
      <4> QED
        BY <3>1, <4>2, <4>3
    <3> QED
      BY <3>2, <3>3
  <2> QED
    BY <1>2, <2>1 DEF Follows, Joined
<1>20. Counting' /\ Waiting'
  BY <1>2 DEF Counting, Waiting, alignVars
<1> QED
  BY <1>8, <1>9, <1>10, <1>11, <1>12, <1>13, <1>15, <1>18, <1>19, <1>20

\* create returns at a flush, or waits, with nothing changed; unlock wakes it.
LEMMA WaitingSteps == ASSUME Inv, ReturnFlushing \/ Wait \/ Unlock PROVE Inv'
<1> USE DEF Inv, TypeOK
<1>1. /\ (strPc # "have" /\ strPc' # "have") \/ (strPc = "have" /\ strPc' = "have")
      /\ strPc' \in {"idle", "waiting", "woken", "have", "paused"}
      /\ UNCHANGED <<current_packets, skipped_last, skipped_overall, had_signal,
                     frameNumber, skipVars, p, alignVars, buffers, lastOut, owed>>
  BY DEF ReturnFlushing, Wait, Unlock, AtCondition, CondSignal, queueVars, StreamOK
<1>2. /\ flushing' \in BOOLEAN /\ flushes' \in 0..MaxFlushes
      /\ flushing => flushing'
  <2>1. CASE ReturnFlushing \/ Wait
    BY <2>1 DEF ReturnFlushing, Wait, queueVars, QueueOK
  <2>2. CASE Unlock
    <3>1. flushes \in 0..MaxFlushes /\ MaxFlushes \in Nat
      BY AudioSourceAssumption DEF QueueOK
    <3>2. flushes < MaxFlushes /\ flushes' = flushes + 1 /\ flushing' = TRUE
      BY <2>2 DEF Unlock
    <3> QED
      BY <3>1, <3>2
  <2> QED
    BY <2>1, <2>2
<1>3. QueueOK' /\ StreamOK' /\ NumbersOK' /\ AlignOK'
  BY <1>1, <1>2 DEF QueueOK, StreamOK, NumbersOK, AlignOK, alignVars, skipVars
<1>4. Times' /\ Ordered' /\ BuffersAccounted'
  BY <1>1 DEF Times, Ordered, BuffersAccounted, alignVars
<1>5. Follows' /\ Newest' /\ Announced' /\ Counting' /\ Waiting'
  BY <1>1, <1>2
     DEF Follows, Newest, Announced, Joined, Counting, Waiting, alignVars, skipVars
<1> QED
  BY <1>3, <1>4, <1>5

\* unlock_stop gives back all packets; gaps are counted anew.
LEMMA UnlockStopStep == ASSUME Inv, UnlockStop PROVE Inv'
<1> USE DEF Inv, TypeOK
<1>1. /\ strPc # "have" /\ strPc' = "idle" /\ flushing' = FALSE
      /\ buffers' = buffers \ FramesOf(current_packets)
      /\ current_packets' = <<>> /\ lastOut' = 0 /\ owed' = FALSE
      /\ UNCHANGED <<skipped_last, skipped_overall, had_signal, frameNumber, skipLeft,
                     restarts, waived, p, alignVars, flushes>>
  BY DEF UnlockStop, skipVars
<1>2. QueueOK'
  <2>1. current_packets' \in Seq(Packet) /\ Len(current_packets') <= QueueSize
    BY <1>1, EmptyQueue, AudioSourceAssumption
  <2> QED
    BY <1>1, <2>1 DEF QueueOK
<1>3. StreamOK' /\ AlignOK'
  BY <1>1 DEF StreamOK, AlignOK, alignVars
<1>4. NumbersOK'
  <2>1. 0 \in 0..frameNumber
    BY DEF NumbersOK
  <2> QED
    BY <1>1, <2>1 DEF NumbersOK
<1>5. Times' /\ Ordered' /\ Follows'
  BY <1>1, EmptyQueue DEF Times, Ordered, Follows, alignVars
<1>6. BuffersAccounted'
  BY <1>1, EmptyQueue DEF BuffersAccounted
<1>7. Newest' /\ Announced'
  BY <1>1 DEF Newest, Announced
<1>8. Counting' /\ Waiting'
  BY <1>1 DEF Counting, Waiting, alignVars
<1> QED
  BY <1>2, <1>3, <1>4, <1>5, <1>6, <1>7, <1>8

\* create takes the oldest packet over.
LEMMA PopStep == ASSUME Inv, Pop PROVE Inv'
<1> USE DEF Inv, TypeOK
<1> DEFINE q == current_packets
<1> DEFINE f == q[1]
<1> DEFINE r == Tail(q)
<1>1. /\ q \in Seq(Packet) /\ q # <<>> /\ strPc # "have" /\ ~flushing
      /\ frameNumber \in Nat
  BY AudioSourceAssumption DEF Pop, AtCondition, QueueOK, NumbersOK
<1>2. /\ f \in Packet /\ r \in Seq(Packet) /\ Len(q) \in Nat \ {0}
      /\ Len(r) = Len(q) - 1
      /\ \A i \in 1..(Len(q) - 1) : r[i] = q[i + 1]
      /\ f = Head(q)
  BY <1>1
<1>3. /\ current_packets' = r /\ p' = f /\ strPc' = "have" /\ lastOut' = f.frame
      /\ owed' = (~Flagged(f) /\ (owed \/ (lastOut # 0 /\ ~Joined(lastOut, f.frame))))
      /\ UNCHANGED <<flushing, skipped_last, skipped_overall, had_signal, frameNumber,
                     skipLeft, restarts, waived, alignVars, buffers, flushes>>
  BY <1>2 DEF Pop, Flagged, skipVars
<1>4. \A i \in 1..Len(q) : /\ q[i].frame \in Nat \ {0} /\ q[i].frame <= frameNumber
                           /\ 1 < i => f.frame < q[i].frame
  <2> SUFFICES ASSUME NEW i \in 1..Len(q)
               PROVE  /\ q[i].frame \in Nat \ {0} /\ q[i].frame <= frameNumber
                      /\ 1 < i => f.frame < q[i].frame
    OBVIOUS
  <2>1. q[i] \in Packet
    BY <1>1
  <2>2. 1 \in 1..Len(q)
    BY <1>2
  <2> QED
    BY <2>1, <2>2, PacketType DEF Ordered
<1>5. f.frame \in 1..frameNumber
  BY <1>1, <1>2, <1>4
<1> HIDE DEF f, r, q
<1>6. QueueOK'
  <2>1. Len(q) <= QueueSize
    BY DEF QueueOK, q
  <2>2. Len(r) <= QueueSize
    BY <1>2, <2>1, AudioSourceAssumption
  <2> QED
    BY <1>2, <1>3, <2>2 DEF QueueOK
<1>7. StreamOK' /\ AlignOK'
  BY <1>2, <1>3 DEF StreamOK, AlignOK, alignVars
<1>8. NumbersOK'
  <2>1. f.frame \in 0..frameNumber
    BY <1>1, <1>5
  <2> QED
    BY <1>3, <2>1 DEF NumbersOK
<1>9. Times'
  <2>1. \A i \in 1..Len(q) : Timely(q[i].time)
    BY DEF Times, q
  <2>2. 1 \in 1..Len(q) /\ f = q[1]
    BY <1>2 DEF f
  <2>3. ASSUME NEW i \in 1..Len(r) PROVE Timely(r[i].time)
    <3>1. i + 1 \in 1..Len(q) /\ r[i] = q[i + 1]
      BY <1>2
    <3> QED
      BY <2>1, <3>1
  <2> QED
    BY <1>3, <2>1, <2>2, <2>3 DEF Times, alignVars
<1>10. Ordered'
  <2>1. \A i, j \in 1..Len(q) : i < j => q[i].frame < q[j].frame
    BY DEF Ordered, q
  <2>2. ASSUME NEW i \in 1..Len(r)
        PROVE  i + 1 \in 1..Len(q) /\ 1 < i + 1 /\ r[i] = q[i + 1]
    BY <1>2
  <2>3. ASSUME NEW i \in 1..Len(r), NEW j \in 1..Len(r), i < j
        PROVE  r[i].frame < r[j].frame
    <3>1. i + 1 < j + 1
      BY <2>3
    <3> QED
      BY <2>1, <2>2, <3>1
  <2>4. ASSUME NEW i \in 1..Len(r)
        PROVE  r[i].frame <= frameNumber /\ f.frame < r[i].frame
    BY <1>4, <2>2
  <2> QED
    BY <1>3, <2>3, <2>4 DEF Ordered
<1>11. BuffersAccounted'
  <2>1. FramesOf(q) = FramesOf(r) \union {f.frame}
    <3>1. \A n : n \in FramesOf(q) <=> \E i \in 1..Len(q) : q[i].frame = n
      BY <1>1, InFramesOf
    <3>2. \A n : n \in FramesOf(r) <=> \E i \in 1..Len(r) : r[i].frame = n
      BY <1>2, InFramesOf
    <3>3. ASSUME NEW i \in 1..Len(r) PROVE r[i].frame \in FramesOf(q)
      <4>1. i + 1 \in 1..Len(q) /\ r[i] = q[i + 1]
        BY <1>2
      <4> QED
        BY <3>1, <4>1
    <3>4. f.frame \in FramesOf(q)
      BY <1>2, <3>1 DEF f
    <3>5. ASSUME NEW i \in 1..Len(q) PROVE q[i].frame \in FramesOf(r) \union {f.frame}
      <4>1. CASE i = 1
        BY <4>1 DEF f
      <4>2. CASE i # 1
        <5>1. i - 1 \in 1..Len(r) /\ i - 1 \in 1..(Len(q) - 1) /\ (i - 1) + 1 = i
          BY <1>2, <4>2
        <5>2. r[i - 1] = q[i]
          BY <1>2, <5>1
        <5> QED
          BY <3>2, <5>1, <5>2
      <4> QED
        BY <4>1, <4>2
    <3> QED
      BY <3>1, <3>2, <3>3, <3>4, <3>5
  <2>2. buffers = FramesOf(q)
    BY <1>1 DEF BuffersAccounted, q
  <2> QED
    BY <1>3, <2>1, <2>2 DEF BuffersAccounted
<1>12. Follows'
  <2>1. \A i \in 1..(Len(q) - 1) :
           Joined(q[i].frame, q[i + 1].frame) \/ Flagged(q[i + 1])
    BY DEF Follows, q
  <2>2. ASSUME NEW i \in 1..(Len(r) - 1)
        PROVE  Joined(r[i].frame, r[i + 1].frame) \/ Flagged(r[i + 1])
    <3>1. /\ i + 1 \in 1..(Len(q) - 1) /\ i \in 1..(Len(q) - 1)
      BY <1>2
    <3>2. r[i] = q[i + 1] /\ r[i + 1] = q[(i + 1) + 1]
      BY <1>2, <3>1
    <3> QED
      BY <2>1, <3>1, <3>2
  <2> QED
    BY <1>3, <2>2 DEF Follows, Joined
<1>13. Newest'
  <2>1. had_signal => Joined(q[Len(q)].frame, frameNumber + 1)
    BY <1>1 DEF Newest, q
  <2>2. CASE r = <<>>
    <3>1. Len(q) = 1
      BY <1>2, <2>2
    <3>2. had_signal => Joined(f.frame, frameNumber + 1)
      BY <2>1, <3>1 DEF f
    <3> QED
      BY <1>3, <2>2, <3>2 DEF Newest, Joined
  <2>3. CASE r # <<>>
    <3>1. Len(r) \in 1..(Len(q) - 1) /\ Len(r) + 1 = Len(q)
      BY <1>2, <2>3
    <3>2. r[Len(r)] = q[Len(q)]
      BY <1>2, <3>1
    <3> QED
      BY <1>3, <2>1, <2>3, <3>2 DEF Newest, Joined
  <2> QED
    BY <2>2, <2>3
<1>14. Announced'
  <2>1. CASE skipped_last > 0
    <3>1. skipped_last' > 0
      BY <1>3, <2>1
    <3> QED
      BY Zenon, <3>1 DEF Announced
  <2>2. CASE r # <<>> /\ Flagged(r[1])
    <3>1. 1 \in 1..Len(r)
      BY <1>2, <2>2
    <3>2. \E i \in 1..Len(current_packets') : Flagged(current_packets'[i])
      BY <1>3, <2>2, <3>1
    <3> QED
      BY Zenon, <3>2 DEF Announced
  <2>3. ASSUME NEW i \in 1..Len(q), Flagged(q[i]), ~Flagged(f) PROVE Announced'
    <3>1. i # 1
      BY <2>3 DEF f
    <3>2. i - 1 \in 1..Len(r) /\ i - 1 \in 1..(Len(q) - 1) /\ (i - 1) + 1 = i
      BY <1>2, <3>1
    <3>3. r[i - 1] = q[i]
      BY <1>2, <3>2
    <3>4. \E j \in 1..Len(current_packets') : Flagged(current_packets'[j])
      BY <1>3, <2>3, <3>2, <3>3
    <3> QED
      BY Zenon, <3>4 DEF Announced
  <2>4. CASE /\ ~(skipped_last > 0)
             /\ ~(r # <<>> /\ Flagged(r[1]))
             /\ Flagged(f) \/ ~\E i \in 1..Len(q) : Flagged(q[i])
    <3>1. ~owed'
      <4>1. CASE Flagged(f)
        BY <1>3, <4>1
      <4>2. CASE ~Flagged(f)
        <5>1. ~owed /\ (lastOut = 0 \/ q = <<>> \/ Joined(lastOut, f.frame))
          BY <2>4, <4>2 DEF Announced, q, f
        <5> QED
          BY <1>1, <1>3, <5>1
      <4> QED
        BY <4>1, <4>2
    <3>2. r # <<>> => Joined(f.frame, r[1].frame)
      <4> SUFFICES ASSUME r # <<>> PROVE Joined(f.frame, r[1].frame)
        OBVIOUS
      <4>1. 1 \in 1..(Len(q) - 1) /\ r[1] = q[1 + 1]
        BY <1>2
      <4>2. Joined(q[1].frame, q[1 + 1].frame) \/ Flagged(q[1 + 1])
        BY <4>1 DEF Follows, q
      <4> QED
        BY <2>4, <4>1, <4>2 DEF f
    <3>3. current_packets' = <<>> \/ Joined(lastOut', current_packets'[1].frame)
      BY <1>3, <3>2
    <3> QED
      BY Zenon, <1>3, <3>1, <3>3 DEF Announced, Joined
  <2> QED
    BY <2>1, <2>2, <2>3, <2>4
<1>15. Counting' /\ Waiting'
  BY <1>3 DEF Counting, Waiting, alignVars
<1> QED
  BY <1>6, <1>7, <1>8, <1>9, <1>10, <1>11, <1>12, <1>13, <1>14, <1>15

\* The values that create computes of the packet it popped.
StartOffset == SampleAt(p.time)
StartTime == TimeAt(StartOffset)
EndOffset == StartOffset + p.count
IsFar == Far(StartOffset)
Lasting ==
  /\ IsFar
  /\ \/ DiscontWait = 0
     \/ /\ discont_time # None
        /\ Elapsed(discont_time, StartTime) >= DiscontWait
Discont == next_offset = None \/ p.first \/ p.dropped \/ Lasting

\* The end of create in terms of these values: after a discontinuity, without
\* alignment, and counting on.
LEMMA OutputCases ==
  ASSUME Output
  PROVE  /\ out'.capture = StartTime /\ out'.discont = Discont
         /\ Discont \/ Threshold = 0 =>
              out' = [time |-> p.time, end |-> p.time + TimeAt(EndOffset) - StartTime,
                      capture |-> StartTime, discont |-> Discont]
         /\ ~Discont /\ Threshold # 0 =>
              out' = [time |-> TimeAt(next_offset), end |-> TimeAt(next_offset + p.count),
                      capture |-> StartTime, discont |-> Discont]
         /\ Discont => next_offset' = EndOffset
         /\ ~Discont /\ Threshold = 0 => next_offset' = next_offset
         /\ ~Discont /\ Threshold # 0 => next_offset' = next_offset + p.count
         /\ Discont \/ ~IsFar => discont_time' = None
         /\ ~Discont /\ IsFar /\ discont_time = None => discont_time' = StartTime
         /\ ~Discont /\ IsFar /\ discont_time # None => discont_time' = discont_time
         /\ Threshold # 0 /\ since' # None =>
              /\ ~Discont /\ Distance(TimeAt(next_offset), StartTime) > Threshold
              /\ since' = IF since = None THEN StartTime ELSE since
         /\ since' \in {None, StartTime, since}
<1> DEFINE captured == Discont \/ Threshold = 0
<1> DEFINE time == IF captured THEN p.time ELSE TimeAt(next_offset)
<1> DEFINE off == ~Discont /\ Distance(time, StartTime) > Threshold
<1>1. /\ out' = [time |-> time,
                 end |-> IF captured THEN p.time + TimeAt(EndOffset) - StartTime
                                     ELSE TimeAt(next_offset + p.count),
                 capture |-> StartTime,
                 discont |-> Discont]
      /\ next_offset' = IF Discont THEN EndOffset
                        ELSE IF Threshold = 0 THEN next_offset
                        ELSE next_offset + p.count
      /\ discont_time' = IF Discont \/ ~IsFar THEN None
                         ELSE IF discont_time = None THEN StartTime
                         ELSE discont_time
      /\ since' = IF ~off THEN None ELSE IF since = None THEN StartTime ELSE since
  BY Zenon DEF Output, Counted, StartOffset, StartTime, EndOffset, IsFar, Lasting, Discont
<1>2. /\ Discont \/ Threshold = 0 =>
           out' = [time |-> p.time, end |-> p.time + TimeAt(EndOffset) - StartTime,
                   capture |-> StartTime, discont |-> Discont]
      /\ ~Discont /\ Threshold # 0 =>
           out' = [time |-> TimeAt(next_offset), end |-> TimeAt(next_offset + p.count),
                   capture |-> StartTime, discont |-> Discont]
  BY Zenon, <1>1
<1>3. /\ Discont => next_offset' = EndOffset
      /\ ~Discont /\ Threshold = 0 => next_offset' = next_offset
      /\ ~Discont /\ Threshold # 0 => next_offset' = next_offset + p.count
  BY Zenon, <1>1
<1>4. /\ Discont \/ ~IsFar => discont_time' = None
      /\ ~Discont /\ IsFar /\ discont_time = None => discont_time' = StartTime
      /\ ~Discont /\ IsFar /\ discont_time # None => discont_time' = discont_time
  BY Zenon, <1>1
<1>5. /\ Threshold # 0 /\ since' # None =>
           /\ ~Discont /\ Distance(TimeAt(next_offset), StartTime) > Threshold
           /\ since' = IF since = None THEN StartTime ELSE since
      /\ since' \in {None, StartTime, since}
  BY <1>1
<1>6. out'.capture = StartTime /\ out'.discont = Discont
  BY Zenon, <1>1
<1> QED
  BY <1>2, <1>3, <1>4, <1>5, <1>6

\* The values are times and sample counts.
LEMMA OutputTypes ==
  ASSUME Inv, Output
  PROVE  /\ p \in Packet /\ p.time \in Nat /\ Timely(p.time) /\ p.count \in Nat
         /\ StartOffset \in Nat /\ EndOffset \in Nat /\ Discont \in BOOLEAN
         /\ StartTime \in Nat /\ StartTime <= p.time /\ Timely(StartTime)
         /\ (p.time - StartTime) * Rate < Second + Rate
         /\ TimeAt(EndOffset) \in Nat
         /\ ~Discont => next_offset \in Nat
         /\ next_offset \in Nat \union {None} /\ discont_time \in Nat \union {None}
         /\ since \in Nat \union {None} /\ None \notin Nat
<1>1. p \in Packet /\ Timely(p.time)
  BY DEF Output, Inv, TypeOK, StreamOK, Times
<1>2. p.time \in Nat /\ p.count \in Nat
  BY <1>1, PacketType
<1>3. StartOffset \in Nat
  BY <1>2, Conversions DEF StartOffset
<1>4. EndOffset \in Nat
  BY <1>2, <1>3 DEF EndOffset
<1>5. /\ StartTime \in Nat /\ StartTime <= p.time
      /\ (p.time - StartTime) * Rate < Second + Rate
  BY <1>2, Rounded DEF StartTime, StartOffset
<1>6. Timely(StartTime)
  BY <1>1, <1>2, <1>5, AudioSourceAssumption DEF Timely
<1>7. TimeAt(EndOffset) \in Nat
  BY <1>4, Conversions
<1>8. /\ next_offset \in Nat \union {None} /\ discont_time \in Nat \union {None}
      /\ since \in Nat \union {None}
  BY DEF Inv, TypeOK, AlignOK
<1>9. None \notin Nat
  BY DEF None
<1>10. Discont \in BOOLEAN
  BY Zenon DEF Discont
<1>11. ~Discont => next_offset \in Nat
  BY Zenon, <1>8 DEF Discont
<1> QED
  BY <1>1, <1>2, <1>3, <1>4, <1>5, <1>6, <1>7, <1>8, <1>9, <1>10, <1>11

\* The end of create keeps count of the samples, and waits for a discontinuity
\* no longer than discont-wait.
LEMMA OutputStep == ASSUME Inv, Output PROVE Inv'
<1>1. /\ strPc = "have" /\ strPc' = "idle" /\ p' = NoPacket
      /\ buffers' = buffers \ {p.frame}
      /\ UNCHANGED <<queueVars, had_signal, frameNumber, skipVars, flushes, lastOut,
                     owed>>
  BY DEF Output
<1> USE DEF queueVars, skipVars
<1>2. QueueOK' /\ StreamOK' /\ NumbersOK'
  BY <1>1 DEF Inv, TypeOK, QueueOK, StreamOK, NumbersOK
<1>3. next_offset' \in Nat \union {None}
  <2>1. CASE Discont
    BY <2>1, OutputTypes, OutputCases
  <2>2. CASE ~Discont /\ Threshold = 0
    BY <2>2, OutputTypes, OutputCases
  <2>3. CASE ~Discont /\ Threshold # 0
    <3>1. next_offset \in Nat /\ p.count \in Nat
      BY <2>3, OutputTypes
    <3>2. next_offset' = next_offset + p.count
      BY <2>3, OutputCases
    <3> QED
      BY <3>1, <3>2
  <2> QED
    BY <2>1, <2>2, <2>3
<1>4. discont_time' \in {None, StartTime, discont_time}
  BY OutputCases
<1>5. out' \in [time : Nat, end : Nat, capture : Nat, discont : BOOLEAN]
  <2>1. CASE Discont \/ Threshold = 0
    <3> DEFINE end == p.time + TimeAt(EndOffset) - StartTime
    <3>1. p.time \in Nat /\ StartTime \in Nat /\ Discont \in BOOLEAN
      BY OutputTypes
    <3>2. end \in Nat
      <4>1. /\ p.time \in Nat /\ StartTime \in Nat /\ StartTime <= p.time
            /\ TimeAt(EndOffset) \in Nat
        BY OutputTypes
      <4> QED
        BY <4>1
    <3>3. out' = [time |-> p.time, end |-> end, capture |-> StartTime,
                  discont |-> Discont]
      BY <2>1, OutputCases
    <3> HIDE DEF end
    <3> QED
      BY <3>1, <3>2, <3>3
  <2>2. CASE ~Discont /\ Threshold # 0
    <3>1. next_offset \in Nat /\ p.count \in Nat /\ StartTime \in Nat
          /\ Discont \in BOOLEAN
      BY <2>2, OutputTypes
    <3>2. next_offset + p.count \in Nat
      BY <3>1
    <3>3. TimeAt(next_offset) \in Nat /\ TimeAt(next_offset + p.count) \in Nat
      BY <3>1, <3>2, Conversions
    <3>4. out' = [time |-> TimeAt(next_offset), end |-> TimeAt(next_offset + p.count),
                  capture |-> StartTime, discont |-> Discont]
      BY <2>2, OutputCases
    <3> QED
      BY <3>1, <3>3, <3>4
  <2> QED
    BY <2>1, <2>2
<1>6. AlignOK'
  <2>1. discont_time' \in Nat \union {None}
    BY <1>4, OutputTypes
  <2>2. since' \in Nat \union {None}
    BY OutputCases, OutputTypes
  <2> QED
    BY <1>3, <1>5, <2>1, <2>2 DEF AlignOK
<1>7. Times'
  <2>1. discont_time' # None => Timely(discont_time')
    BY <1>4, OutputTypes DEF Inv, Times
  <2> QED
    BY <1>1, <2>1 DEF Inv, Times
<1>8. Ordered' /\ Follows' /\ Newest' /\ Announced'
  BY <1>1 DEF Inv, Ordered, Follows, Newest, Announced, Joined
<1>9. BuffersAccounted'
  <2>1. current_packets \in Seq(Packet)
    BY DEF Inv, TypeOK, QueueOK
  <2>2. p.frame \notin FramesOf(current_packets)
    <3> SUFFICES ASSUME NEW i \in 1..Len(current_packets),
                        current_packets[i].frame = p.frame
                 PROVE  FALSE
      BY <2>1, InFramesOf
    <3>1. p.frame < current_packets[i].frame
      BY <1>1 DEF Inv, Ordered
    <3>2. p.frame \in Nat
      BY OutputTypes, PacketType
    <3> QED
      BY <3>1, <3>2
  <2> QED
    BY <1>1, <2>2 DEF Inv, BuffersAccounted
<1>10. Counting'
  <2> SUFFICES ASSUME Threshold # 0
               PROVE  /\ TimeAt(next_offset') <= out'.end
                      /\ (out'.end - TimeAt(next_offset')) * Rate < Second + Rate
    BY DEF Counting, TimeAt
  <2>1. CASE Discont
    <3>1. next_offset' = EndOffset
      BY <2>1, OutputCases
    <3>2. out'.end = p.time + TimeAt(EndOffset) - StartTime
      BY <2>1, OutputCases
    <3>3. /\ p.time \in Nat /\ StartTime \in Nat /\ StartTime <= p.time
          /\ TimeAt(EndOffset) \in Nat
          /\ (p.time - StartTime) * Rate < Second + Rate
      BY OutputTypes
    <3>4. TimeAt(EndOffset) <= out'.end
          /\ out'.end - TimeAt(EndOffset) = p.time - StartTime
      BY <3>2, <3>3
    <3> QED
      BY <3>1, <3>3, <3>4
  <2>2. CASE ~Discont
    <3>1. next_offset' = next_offset + p.count /\ next_offset + p.count \in Nat
      <4>1. next_offset' = next_offset + p.count
        BY <2>2, OutputCases
      <4>2. next_offset \in Nat /\ p.count \in Nat
        BY <2>2, OutputTypes
      <4> QED
        BY <4>1, <4>2
    <3>2. out'.end = TimeAt(next_offset')
      <4>1. out'.end = TimeAt(next_offset + p.count)
        BY <2>2, OutputCases
      <4> QED
        BY <3>1, <4>1
    <3>3. TimeAt(next_offset') \in Nat
      BY <3>1, Conversions
    <3>4. (TimeAt(next_offset') - TimeAt(next_offset')) * Rate = 0
      BY <3>3, AudioSourceAssumption
    <3> QED
      BY <3>2, <3>3, <3>4, AudioSourceAssumption
  <2> QED
    BY <2>1, <2>2
<1>11. Waiting'
  <2> SUFFICES ASSUME Threshold # 0, since' # None
               PROVE  /\ discont_time' # None
                      /\ discont_time' <= since'
                      /\ out'.capture < discont_time' + DiscontWait
    BY DEF Waiting
  <2>1. /\ ~Discont /\ Distance(TimeAt(next_offset), StartTime) > Threshold
        /\ since' = IF since = None THEN StartTime ELSE since
        /\ out'.capture = StartTime
    BY OutputCases
  <2>2. /\ next_offset \in Nat /\ StartOffset \in Nat /\ StartTime \in Nat
        /\ Timely(StartTime) /\ None \notin Nat
    BY <2>1, OutputTypes
  <2>3. IsFar
    <3>1. Distance(TimeAt(next_offset), TimeAt(StartOffset)) > Threshold
      BY <2>1 DEF StartTime
    <3>2. Distance(StartOffset, next_offset) >= SampleAt(Threshold)
      BY <2>2, <3>1, DeviationIsFar
    <3>3. Threshold > 0
      BY AudioSourceAssumption
    <3> QED
      BY <3>2, <3>3 DEF IsFar, Far
  <2>4. /\ DiscontWait # 0
        /\ discont_time = None \/ ~(Elapsed(discont_time, StartTime) >= DiscontWait)
    BY <2>1, <2>3 DEF Discont, Lasting
  <2>5. DiscontWait \in Nat
    BY AudioSourceAssumption
  <2>6. CASE discont_time = None
    <3>1. since = None
      BY <2>6 DEF Inv, Waiting
    <3>2. discont_time' = StartTime /\ since' = StartTime
      BY <2>1, <2>3, <2>6, <3>1, OutputCases
    <3> QED
      BY <2>1, <2>2, <2>4, <2>5, <3>2
  <2>7. CASE discont_time # None
    <3>1. discont_time' = discont_time
      BY <2>1, <2>3, <2>7, OutputCases
    <3>2. discont_time \in Nat /\ Timely(discont_time)
      BY <2>7, OutputTypes DEF Inv, Times
    <3>3. Elapsed(discont_time, StartTime) < DiscontWait
      <4>1. Elapsed(discont_time, StartTime) \in Int
        BY <2>2, <3>2, AudioSourceAssumption DEF Elapsed
      <4> QED
        BY <2>4, <2>5, <2>7, <4>1
    <3>4. discont_time <= StartTime /\ StartTime < discont_time + DiscontWait
      BY <2>2, <3>2, <3>3, ElapsedIsAfter DEF Timely
    <3>5. since # None => discont_time <= since
      BY DEF Inv, Waiting
    <3> QED
      BY <2>1, <2>7, <3>1, <3>4, <3>5
  <2> QED
    BY <2>6, <2>7
<1> QED
  BY <1>2, <1>6, <1>7, <1>8, <1>9, <1>10, <1>11 DEF Inv, TypeOK

\* Nothing happens.
LEMMA Stutter == ASSUME Inv, UNCHANGED vars PROVE Inv'
  BY DEF vars, Inv, TypeOK, QueueOK, StreamOK, NumbersOK, AlignOK, Times, Ordered,
         BuffersAccounted, Follows, Newest, Announced, Joined, Counting, Waiting

\* The invariant of got_packet, create, unlock and unlock_stop.
THEOREM PacketsInvariance == Spec => []Inv
<1>1. Inv /\ [Next]_vars => Inv'
  <2> SUFFICES ASSUME Inv, [Next]_vars PROVE Inv'
    OBVIOUS
  <2>1. CASE GotNoSignal \/ StartStreams
               \/ \E d \in BOOLEAN : SkipPacket(d) \/ RejectPacket(d)
    BY <2>1, UnqueuedSteps, SkipPacketStep
  <2>2. CASE \E d \in BOOLEAN, offset \in Offsets, count \in Counts :
               GotPacket(d, offset, count)
    BY <2>2, GotPacketStep
  <2>3. CASE ReturnFlushing \/ Wait \/ Unlock
    BY <2>3, WaitingSteps
  <2>4. CASE Pop
    BY <2>4, PopStep
  <2>5. CASE Output
    BY <2>5, OutputStep
  <2>6. CASE UnlockStop
    BY <2>6, UnlockStopStep
  <2>7. CASE UNCHANGED vars
    BY <2>7, Stutter
  <2> QED
    BY <2>1, <2>2, <2>3, <2>4, <2>5, <2>6, <2>7 DEF Next, Capture, Streaming
<1> QED
  BY <1>1, InitInv, PTL DEF Spec

\* The fields of GstAjaAudioSrc keep to their types and the queue to its size.
THEOREM PacketTypes == Spec => []TypeOK
<1>1. Inv => TypeOK
  BY DEF Inv
<1> QED
  BY <1>1, PacketsInvariance, PTL

\* No path of got_packet, create and unlock_stop leaks the buffer of a packet
\* or releases one that is queued.
THEOREM NoneLeaked == Spec => []BuffersAccounted
<1>1. Inv => BuffersAccounted
  BY DEF Inv
<1> QED
  BY <1>1, PacketsInvariance, PTL

\* Packets that got_packet drops are announced by DISCONT in what create
\* returns after them.
THEOREM GapsFollowed == Spec => []GapAnnounced
<1>1. Inv => GapAnnounced
  <2> SUFFICES ASSUME Inv, ~(skipped_last > 0),
                      ~\E i \in DOMAIN current_packets :
                          current_packets[i].first \/ current_packets[i].dropped
               PROVE  /\ ~owed
                      /\ lastOut = 0 \/ current_packets = <<>>
                                     \/ Joined(lastOut, current_packets[1].frame)
    BY Zenon DEF GapAnnounced
  <2>1. current_packets \in Seq(Packet)
    BY DEF Inv, TypeOK, QueueOK
  <2> QED
    BY <2>1 DEF Inv, Announced, Flagged
<1> QED
  BY <1>1, PacketsInvariance, PTL

\* create's alignment never lets timestamps stray for discont-wait or longer.
THEOREM DriftEnds == Spec => []DriftBounded
<1>1. Inv => DriftBounded
  <2> SUFFICES ASSUME Inv, Threshold # 0, since # None
               PROVE  out.capture - since < DiscontWait
    BY DEF DriftBounded
  <2>1. /\ discont_time # None /\ discont_time <= since
        /\ out.capture < discont_time + DiscontWait
    BY DEF Inv, Waiting
  <2>2. /\ discont_time \in Nat \union {None} /\ since \in Nat \union {None}
        /\ out.capture \in Nat /\ DiscontWait \in Nat
    BY AudioSourceAssumption DEF Inv, TypeOK, AlignOK
  <2> QED
    BY <2>1, <2>2
<1> QED
  BY <1>1, PacketsInvariance, PTL

\* Buffers that create returns without DISCONT are contiguous, whatever was
\* dropped or flushed between them, but for the rounding of the first one.
THEOREM Gapless == Spec => Contiguous
<1>1. Inv /\ [Next]_vars =>
        [out' # out /\ ~out'.discont /\ Threshold # 0 =>
           /\ out'.time <= out.end
           /\ (out.end - out'.time) * Rate < Second + Rate]_vars
  <2> SUFFICES ASSUME Inv, Next, out' # out, ~out'.discont, Threshold # 0
               PROVE  /\ out'.time <= out.end
                      /\ (out.end - out'.time) * Rate < Second + Rate
    OBVIOUS
  <2>1. Output
    BY DEF Next, Capture, Streaming, GotNoSignal, SkipPacket, RejectPacket, GotPacket,
           ReturnFlushing, Wait, Pop, Unlock, UnlockStop, StartStreams, alignVars
  <2>2. ~Discont
    BY <2>1, OutputCases
  <2>3. out'.time = TimeAt(next_offset)
    BY <2>1, <2>2, OutputCases
  <2>4. next_offset # None
    BY <2>2 DEF Discont
  <2> QED
    BY <2>3, <2>4 DEF Inv, Counting
<1> QED
  BY <1>1, PacketsInvariance, PTL DEF Spec, Contiguous
-----------------------------------------------------------------------------
\* LossyFifo counts as FiniteSets does.
LEMMA SameCardinality == ASSUME NEW S PROVE Fifo!Cardinality(S) = Cardinality(S)
  BY DEF Fifo!Cardinality, Cardinality

\* A queue has no more packet numbers than packets.
LEMMA FramesBound ==
  ASSUME NEW q \in Seq(Packet)
  PROVE  Cardinality(FramesOf(q)) \in 0..Len(q)
<1> DEFINE n == Len(q)
<1> DEFINE f == [i \in 1..n |-> q[i].frame]
<1>1. n \in Nat /\ DOMAIN q = 1..n
  OBVIOUS
<1>2. f \in Surjection(1..n, FramesOf(q))
  <2>1. f \in [1..n -> FramesOf(q)]
    BY <1>1 DEF FramesOf
  <2>2. \A t \in FramesOf(q) : \E i \in 1..n : f[i] = t
    BY <1>1 DEF FramesOf
  <2> HIDE DEF f
  <2> QED
    BY <2>1, <2>2 DEF Surjection
<1> HIDE DEF f, n
<1>3. IsFiniteSet(1..n) /\ Cardinality(1..n) = n
  <2>1. 1 \in Int /\ n \in Int
    BY <1>1
  <2>2. /\ IsFiniteSet(1..n)
        /\ Cardinality(1..n) = IF 1 > n THEN 0 ELSE n - 1 + 1
    BY Zenon, <2>1, FS_Interval
  <2> QED
    BY <1>1, <2>2
<1>4. IsFiniteSet(FramesOf(q)) /\ Cardinality(FramesOf(q)) <= n
  BY <1>2, <1>3, FS_Surjection
<1>5. Cardinality(FramesOf(q)) \in Nat
  BY <1>4, FS_CardinalityType
<1> QED
  BY <1>1, <1>4, <1>5 DEF n

\* Nothing queued and nothing taken at first.
LEMMA FifoInit == Init => Fifo!Init
  BY EmptyQueue DEF Init, Fifo!Init

\* got_packet puts the packet that it was called with, which is the newest, and
\* gives up the oldest ones.
LEMMA GotPacketPuts ==
  ASSUME Inv, NEW d \in BOOLEAN, NEW offset \in Offsets, NEW count \in Counts,
         GotPacket(d, offset, count)
  PROVE  \E n \in 1..MaxPackets : Fifo!Put(n)
<1> DEFINE q == current_packets
<1> DEFINE K == Kept(q)
<1> DEFINE x == Excess(q)
<1> DEFINE n == frameNumber'
<1> DEFINE r == current_packets'
<1>1. /\ q \in Seq(Packet) /\ Len(q) \in Nat /\ frameNumber \in Nat
      /\ n \in 1..MaxPackets /\ n > frameNumber
      /\ lastOut \in 0..frameNumber /\ lastOut' = lastOut
  BY AudioSourceAssumption
     DEF GotPacket, Numbered, Inv, TypeOK, QueueOK, NumbersOK
<1>2. \E e : r = Append(K, e) /\ e.frame = n
  BY DEF GotPacket
<1>3. x \in 0..Len(q) /\ Len(q) - x < QueueSize
  BY <1>1, AudioSourceAssumption DEF Excess
<1> HIDE DEF x
<1>4. /\ K \in Seq(Packet) /\ Len(K) = Len(q) - x
      /\ \A i \in 1..(Len(q) - x) : K[i] = q[i + x]
  BY <1>1, <1>3 DEF Kept, x
<1>5. \A i \in 1..Len(q) : q[i].frame \in Nat /\ q[i].frame <= frameNumber
  BY <1>1, QueuedFrames DEF Inv, Ordered
<1>6. \A m : m \in FramesOf(q) <=> \E i \in 1..Len(q) : q[i].frame = m
  BY <1>1, InFramesOf
<1>7. \A m : m \in FramesOf(K) <=> \E i \in 1..Len(K) : K[i].frame = m
  BY <1>4, InFramesOf
<1> HIDE DEF K, q, n, r
<1>8. \A m \in FramesOf(q) \union {lastOut} : m < n
  BY <1>1, <1>5, <1>6
<1>9. FramesOf(K) \in SUBSET FramesOf(q)
  <2> SUFFICES ASSUME NEW i \in 1..Len(K) PROVE K[i].frame \in FramesOf(q)
    BY <1>7
  <2>1. i + x \in 1..Len(q) /\ K[i] = q[i + x]
    BY <1>1, <1>3, <1>4
  <2> QED
    BY <1>6, <2>1
<1>10. \A a \in FramesOf(q) \ FramesOf(K), b \in FramesOf(K) : a < b
  <2> SUFFICES ASSUME NEW i \in 1..Len(q), q[i].frame \notin FramesOf(K),
                      NEW j \in 1..Len(K)
               PROVE  q[i].frame < K[j].frame
    BY <1>6, <1>7
  <2>0. /\ x \in Nat /\ j \in Nat \ {0} /\ j <= Len(q) - x
        /\ K[j] = q[j + x]
    BY <1>1, <1>3, <1>4
  <2>1. j + x \in 1..Len(q) /\ x < j + x
    BY <1>1, <2>0
  <2>2. CASE i <= x
    <3>1. i < j + x
      BY <2>0, <2>1, <2>2
    <3> QED
      BY <2>0, <2>1, <3>1 DEF Inv, Ordered, q
  <2>3. CASE ~(i <= x)
    <3>1. i - x \in 1..Len(K) /\ (i - x) + x = i
      BY <1>1, <1>3, <1>4, <2>3
    <3>2. K[i - x] = q[i]
      BY <1>4, <3>1
    <3> QED
      BY <1>7, <3>1, <3>2
  <2> QED
    BY <2>2, <2>3
<1>11. Fifo!Cardinality(FramesOf(K)) < QueueSize
  <2>1. Cardinality(FramesOf(K)) \in 0..Len(K)
    BY <1>4, FramesBound
  <2>2. Len(K) \in Nat /\ Len(K) < QueueSize /\ QueueSize \in Nat
    BY <1>1, <1>3, <1>4, AudioSourceAssumption
  <2>3. Cardinality(FramesOf(K)) < QueueSize
    BY <2>1, <2>2
  <2> QED
    BY <2>3, SameCardinality
<1>12. FramesOf(r) = FramesOf(K) \union {n}
  <2>1. PICK e : r = Append(K, e) /\ e.frame = n
    BY <1>2
  <2> QED
    BY <1>4, <2>1 DEF FramesOf
<1>13. Fifo!Put(n)
  BY <1>1, <1>8, <1>9, <1>10, <1>11, <1>12 DEF Fifo!Put, q, r
<1> QED
  BY <1>1, <1>13

\* create takes the oldest packet.
LEMMA PopTakes == ASSUME Inv, Pop PROVE Fifo!Take
<1> DEFINE q == current_packets
<1> DEFINE T == Tail(q)
<1>1. /\ q \in Seq(Packet) /\ q # <<>>
      /\ q' = T /\ lastOut' = Head(q).frame
  BY DEF Pop, Inv, TypeOK, QueueOK
<1>2. /\ Len(q) \in Nat \ {0} /\ T \in Seq(Packet) /\ Len(T) = Len(q) - 1
      /\ \A i \in 1..(Len(q) - 1) : T[i] = q[i + 1]
      /\ Head(q) = q[1]
  BY <1>1
<1>3. /\ \A i \in 1..Len(q) : q[i].frame \in Nat
      /\ \A i, j \in 1..Len(q) : i < j => q[i].frame < q[j].frame
  BY <1>1, QueuedFrames DEF Inv, Ordered
<1>4. \A m : m \in FramesOf(q) <=> \E i \in 1..Len(q) : q[i].frame = m
  BY <1>1, InFramesOf
<1>5. \A m : m \in FramesOf(T) <=> \E i \in 1..Len(T) : T[i].frame = m
  BY <1>2, InFramesOf
<1> DEFINE f == q[1].frame
<1>6. f \in FramesOf(q) /\ \A m \in FramesOf(q) : m \in Nat /\ f <= m
  BY <1>2, <1>3, <1>4
<1>7. \A m : m \in FramesOf(T) <=> m \in FramesOf(q) /\ m # f
  <2>1. ASSUME NEW i \in 1..Len(T) PROVE T[i].frame \in FramesOf(q) /\ T[i].frame # f
    <3>1. i + 1 \in 1..Len(q) /\ 1 < i + 1 /\ T[i] = q[i + 1] /\ 1 \in 1..Len(q)
      BY <1>2
    <3>2. f < q[i + 1].frame
      BY <1>3, <3>1
    <3> QED
      BY <1>3, <1>4, <3>1, <3>2
  <2>2. ASSUME NEW i \in 1..Len(q), q[i].frame # f PROVE q[i].frame \in FramesOf(T)
    <3>1. i - 1 \in 1..Len(T) /\ i - 1 \in 1..(Len(q) - 1) /\ (i - 1) + 1 = i
      BY <1>2, <2>2
    <3>2. T[i - 1] = q[i]
      BY <1>2, <3>1
    <3> QED
      BY <1>5, <3>1, <3>2
  <2> QED
    BY <1>4, <1>5, <2>1, <2>2
<1>8. lastOut' = f
  BY <1>1, <1>2
<1> HIDE DEF f, T, q
<1>9. Fifo!Oldest(FramesOf(q)) = f
  <2>1. f \in FramesOf(q) /\ \A y \in FramesOf(q) : f <= y
    BY <1>6
  <2>2. \A y \in FramesOf(q) : (\A z \in FramesOf(q) : y <= z) => y = f
    BY <1>6
  <2>3. (CHOOSE y \in FramesOf(q) : \A z \in FramesOf(q) : y <= z) = f
    BY <2>1, <2>2
  <2> QED
    BY <2>3 DEF Fifo!Oldest
<1>10. FramesOf(q)' = FramesOf(q) \ {f}
  <2>1. FramesOf(q') = FramesOf(T)
    BY <1>1
  <2> QED
    BY <1>7, <2>1 DEF FramesOf
<1> QED
  BY <1>6, <1>8, <1>9, <1>10 DEF Fifo!Take, q

\* What got_packet, create and unlock_stop do to the packets is what LossyFifo
\* allows: only the oldest are lost, and the oldest is returned.
THEOREM Implements == Spec => FifoSpec
<1>1. Inv /\ [Next]_vars => [Fifo!Next]_(Fifo!vars)
  <2> SUFFICES ASSUME Inv, [Next]_vars
               PROVE  Fifo!Next \/ UNCHANGED <<FramesOf(current_packets), lastOut>>
    BY DEF Fifo!vars
  <2>1. CASE \E d \in BOOLEAN, offset \in Offsets, count \in Counts :
               GotPacket(d, offset, count)
    BY <2>1, GotPacketPuts DEF Fifo!Next
  <2>2. CASE Pop
    BY <2>2, PopTakes DEF Fifo!Next
  <2>3. CASE UnlockStop
    <3>1. Fifo!Flush
      BY <2>3, EmptyQueue DEF UnlockStop, Fifo!Flush
    <3> QED
      BY <3>1 DEF Fifo!Next
  <2>4. CASE \/ GotNoSignal \/ StartStreams
             \/ \E d \in BOOLEAN : SkipPacket(d) \/ RejectPacket(d)
             \/ ReturnFlushing \/ Wait \/ Output \/ Unlock \/ UNCHANGED vars
    <3>1. UNCHANGED <<current_packets, lastOut>>
      BY <2>4 DEF GotNoSignal, SkipPacket, RejectPacket, ReturnFlushing, Wait, Output,
                  Unlock, StartStreams, vars, queueVars
    <3> QED
      BY <3>1
  <2> QED
    BY <2>1, <2>2, <2>3, <2>4 DEF Next, Capture, Streaming
<1> QED
  BY <1>1, FifoInit, PacketsInvariance, PTL DEF Spec, FifoSpec, Fifo!Spec
=============================================================================
