----------------------------- MODULE AudioSource -----------------------------
(***************************************************************************)
(* The packets of the audio source (gstajaaudiosrc.cpp): got_packet on the *)
(* capture thread, create on the streaming thread, unlock and unlock_stop  *)
(* on the application's thread.                                            *)
(*                                                                         *)
(* Unlike those of the video source, all accesses to current_packets are   *)
(* under src->lock, so the wait condition and g_cond_wait are one step.    *)
(* What this module is about is the second half of create: the jitter and  *)
(* discontinuity handling, in the source's integer arithmetic.  Times are  *)
(* ticks, Second ticks to a second; timestamps are unsigned, TimeMod wide. *)
(*                                                                         *)
(* The timestamp of a packet is external: the video source's stream time   *)
(* through its time mapping, here the time of its frame and any of         *)
(* Offsets.  start_streams of the video source begins skip_first_time      *)
(* anew, at the start and again in mid-stream.  (Without a video source,   *)
(* lines 713-716, a packet would have no timestamp; AjaInput's             *)
(* InputInPlace shows that no thread that Quit waits for comes there.)     *)
(***************************************************************************)
EXTENDS Integers, Sequences

CONSTANTS
  QueueSize,    \* the queue-size property
  Rate,         \* src->info.rate
  Second,       \* GST_SECOND
  Frame,        \* ticks from one frame to the next
  Offsets,      \* what a time mapping adds to the time of a frame
  Counts,       \* sample counts of a packet
  Threshold,    \* the alignment-threshold property
  DiscontWait,  \* the discont-wait property
  TimeMod,      \* 2^64: GstClockTime is a guint64
  SkipPackets,  \* the most packets that arrive within skip_first_time
  MaxPackets,   \* bound: frame numbers the card hands out
  MaxFlushes,   \* bound: calls of unlock
  MaxRestarts   \* bound: calls of start_streams in mid-stream

ASSUME AudioSourceAssumption ==
  /\ QueueSize \in Nat \ {0}
  /\ Rate \in Nat \ {0}
  /\ Second \in Nat \ {0}
  /\ Frame \in Nat
  /\ Offsets \subseteq Nat
  /\ Counts \subseteq Nat
  /\ Threshold \in Nat
  /\ DiscontWait \in Nat
  /\ TimeMod \in Nat \ {0}
  /\ SkipPackets \in Nat
  /\ MaxPackets \in Nat
  /\ MaxFlushes \in Nat
  /\ MaxRestarts \in Nat

\* Timestamps stay clear of the end of their range: 2^64 ns are 584 years.
ASSUME TimesFit ==
  /\ DiscontWait < TimeMod
  /\ \A offset \in Offsets : MaxPackets * Frame + offset + DiscontWait < TimeMod

None == -1  \* GST_CLOCK_TIME_NONE, and (guint64) - 1

VARIABLES
  current_packets,
  flushing,
  had_signal,
  skipped_last,
  skipped_overall,
  frameNumber,     \* number of the last packet
  skipLeft,        \* packets that may still come within skip_first_time
  restarts,        \* calls of start_streams in mid-stream so far
  strPc,           \* where the streaming thread is in create
  p,               \* the packet it popped
  next_offset,
  discont_time,
  out,             \* the last buffer that create returned
  buffers,         \* packets whose buffer was acquired and not released
  flushes,         \* calls of unlock so far
  since,           \* history: capture of the first buffer, of those returned
                   \* one after the other, whose timestamp is off
  lastOut,         \* history: the last packet popped since the last flush
  owed,            \* history: a gap was delivered without DISCONT after it
  waived           \* history: packets that skip_first_time left out

queueVars == <<current_packets, flushing, skipped_last, skipped_overall>>
alignVars == <<next_offset, discont_time, out, since>>
skipVars == <<skipLeft, restarts, waived>>
vars == <<current_packets, flushing, had_signal, skipped_last, skipped_overall,
          frameNumber, skipLeft, restarts, strPc, p, next_offset, discont_time, out,
          buffers, flushes, since, lastOut, owed, waived>>

Packet == [frame : 1..MaxPackets, time : Nat, count : Counts, first : BOOLEAN,
           dropped : BOOLEAN]
NoPacket == <<>>

FramesOf(q) == {q[i].frame : i \in DOMAIN q}

Init ==
  /\ current_packets = <<>>
  /\ flushing = FALSE
  /\ had_signal = FALSE
  /\ skipped_last = 0
  /\ skipped_overall = 0
  /\ frameNumber = 0
  /\ skipLeft = SkipPackets
  /\ restarts = 0
  /\ strPc = "idle"
  /\ p = NoPacket
  /\ next_offset = None
  /\ discont_time = 0
  /\ out = [time |-> 0, end |-> 0, capture |-> 0, discont |-> TRUE]
  /\ buffers = {}
  /\ flushes = 0
  /\ since = None
  /\ lastOut = 0
  /\ owed = FALSE
  /\ waived = {}

-----------------------------------------------------------------------------
\* got_packet, on the capture thread.

CondSignal == strPc' = IF strPc = "waiting" THEN "woken" ELSE strPc

\* NULL, or a buffer without signal, which was numbered like the others and is
\* released, its mark of drops with it.
GotNoSignal ==
  /\ had_signal' = FALSE
  /\ frameNumber' \in frameNumber..MaxPackets
  /\ UNCHANGED <<queueVars, skipVars, strPc, p, alignVars, buffers, flushes, lastOut,
                 owed>>

\* What the worker promises of a packet's number and mark is FrameStream: it is
\* newer than all before, and marked if one is left out.
Numbered(cardDropped) ==
  /\ frameNumber' \in (frameNumber + 1)..MaxPackets
  /\ frameNumber' > frameNumber + 1 => cardDropped

\* The newest packet that was pushed, with all after it left out.
NewestPushed ==
  IF current_packets = <<>> THEN lastOut
                            ELSE current_packets[Len(current_packets)].frame

\* The packet comes within skip_first_time of the first frame since start_streams:
\* it is released, and had_signal set; as time is counted, lost packets count too.
SkipPacket(cardDropped) ==
  /\ Numbered(cardDropped)
  /\ skipLeft > 0
  /\ skipLeft' \in 0..(skipLeft - 1)
  /\ had_signal' = TRUE
  /\ waived' = waived \union ((NewestPushed + 1)..frameNumber')
  /\ UNCHANGED <<queueVars, restarts, strPc, p, alignVars, buffers, flushes, lastOut,
                 owed>>

\* The video source's start_streams in mid-stream: skip_first_time begins anew.
StartStreams ==
  /\ restarts < MaxRestarts
  /\ restarts' = restarts + 1
  /\ skipLeft' = SkipPackets
  /\ UNCHANGED <<queueVars, had_signal, frameNumber, strPc, p, alignVars, buffers,
                 flushes, lastOut, owed, waived>>

\* The packet comes while the source is flushing: it is released.
RejectPacket(cardDropped) ==
  /\ Numbered(cardDropped)
  /\ skipLeft = 0
  /\ flushing
  /\ had_signal' = TRUE
  /\ UNCHANGED <<queueVars, skipVars, strPc, p, alignVars, buffers, flushes, lastOut,
                 owed>>

\* Mutant: "> queue_size" in the loop's condition.
Excess_OneTooFew(q) == IF Len(q) > QueueSize THEN Len(q) - QueueSize ELSE 0

\* How many packets the loop pops to make room.
Excess(q) == IF Len(q) >= QueueSize THEN Len(q) - QueueSize + 1 ELSE 0

\* Mutant: the buffers of dropped packets are not released.
Released_Not(q) == {}

\* The buffers that the loop releases.
Released(q) == FramesOf(SubSeq(q, 1, Excess(q)))

\* The dropping has ended.
EndOfDrops(q) == Excess(q) = 0 /\ skipped_last > 0

\* Mutant: droppedChanged is not set when it has.
Marked_CardOnly(cardDropped, ended) == cardDropped

\* droppedChanged of the packet.
Marked(cardDropped, ended) == cardDropped \/ ended

\* Mutant: the newest packets go instead of the oldest.
Kept_Oldest(q) == SubSeq(q, 1, Len(q) - Excess(q))

\* The packets that it leaves.
Kept(q) == SubSeq(q, Excess(q) + 1, Len(q))

\* The packet is queued, in the place of the oldest ones if need be.
GotPacket(cardDropped, offset, count) ==
  LET ended == EndOfDrops(current_packets) IN
  /\ Numbered(cardDropped)
  /\ skipLeft = 0
  /\ ~flushing
  /\ current_packets' =
       Append(Kept(current_packets),
              [frame |-> frameNumber',
               time |-> frameNumber' * Frame + offset,
               count |-> count,
               first |-> ~had_signal,
               dropped |-> Marked(cardDropped, ended)])
  /\ buffers' = (buffers \ Released(current_packets)) \union {frameNumber'}
  /\ skipped_overall' = IF ended THEN skipped_overall + skipped_last ELSE skipped_overall
  /\ skipped_last' = IF ended THEN 0 ELSE skipped_last + Excess(current_packets)
  /\ had_signal' = TRUE
  /\ CondSignal
  /\ UNCHANGED <<flushing, skipVars, p, alignVars, flushes, lastOut, owed>>

-----------------------------------------------------------------------------
\* create, on the streaming thread.

\* At the wait condition, with src->lock.
AtCondition == strPc \in {"idle", "woken"}

ReturnFlushing ==
  /\ AtCondition
  /\ flushing
  /\ strPc' = "paused"
  /\ UNCHANGED <<queueVars, had_signal, frameNumber, skipVars, p, alignVars, buffers,
                 flushes, lastOut, owed>>

Wait ==
  /\ AtCondition
  /\ ~flushing
  /\ current_packets = <<>>
  /\ strPc' = "waiting"
  /\ UNCHANGED <<queueVars, had_signal, frameNumber, skipVars, p, alignVars, buffers,
                 flushes, lastOut, owed>>

\* Packet b follows packet a: those between them were left out by skip_first_time.
Joined(a, b) == a < b /\ \A n \in (a + 1)..(b - 1) : n \in waived

Pop ==
  LET f == Head(current_packets)
      marked == f.first \/ f.dropped
  IN
  /\ AtCondition
  /\ ~flushing
  /\ current_packets # <<>>
  /\ current_packets' = Tail(current_packets)
  /\ p' = f
  /\ strPc' = "have"
  /\ lastOut' = f.frame
  /\ owed' = (~marked /\ (owed \/ (lastOut # 0 /\ ~Joined(lastOut, f.frame))))
  /\ UNCHANGED <<flushing, skipped_last, skipped_overall, had_signal, frameNumber,
                 skipVars, alignVars, buffers, flushes>>

\* gst_util_uint64_scale (t, rate, GST_SECOND), and back: both round down.
SampleAt(t) == (t * Rate) \div Second
TimeAt(s) == (s * Second) \div Rate

Distance(a, b) == IF a <= b THEN b - a ELSE a - b

\* Mutant: the time is not checked to have passed since the first deviation.
Elapsed_Never(from, to) == 0

\* Unsigned: a time before from counts as an eternity after it.
Elapsed(from, to) == (to - from) % TimeMod

\* The packet is further from the running count of samples than allowed.
Far(start_offset) ==
  Threshold > 0 /\ Distance(start_offset, next_offset) >= SampleAt(Threshold)

\* Mutant: the samples of the buffer are not counted.
Counted_Not(offset, count) == offset

Counted(offset, count) == offset + count

\* Past src->lock: the packet becomes a buffer, is released, and gets the time
\* of its capture (after a discontinuity, or if nothing is to be aligned) or
\* the time that follows from the samples returned before.
Output ==
  LET start_offset == SampleAt(p.time)
      start_time == TimeAt(start_offset)
      end_offset == start_offset + p.count
      far == Far(start_offset)
      lasting == /\ far
                 /\ \/ DiscontWait = 0
                    \/ /\ discont_time # None
                       /\ Elapsed(discont_time, start_time) >= DiscontWait
      discont == next_offset = None \/ p.first \/ p.dropped \/ lasting
      captured == discont \/ Threshold = 0
      time == IF captured THEN p.time ELSE TimeAt(next_offset)
      off == ~discont /\ Distance(time, start_time) > Threshold
  IN
  /\ strPc = "have"
  /\ out' = [time |-> time,
             end |-> IF captured THEN p.time + TimeAt(end_offset) - start_time
                                 ELSE TimeAt(next_offset + p.count),
             capture |-> start_time,
             discont |-> discont]
  /\ next_offset' = IF discont THEN end_offset
                    ELSE IF Threshold = 0 THEN next_offset
                    ELSE Counted(next_offset, p.count)
  /\ discont_time' = IF discont \/ ~far THEN None
                     ELSE IF discont_time = None THEN start_time
                     ELSE discont_time
  /\ since' = IF ~off THEN None ELSE IF since = None THEN start_time ELSE since
  /\ buffers' = buffers \ {p.frame}
  /\ p' = NoPacket
  /\ strPc' = "idle"
  /\ UNCHANGED <<queueVars, had_signal, frameNumber, skipVars, flushes, lastOut, owed>>

-----------------------------------------------------------------------------
\* unlock and unlock_stop, on the application's thread.

Unlock ==
  /\ ~flushing
  /\ flushes < MaxFlushes
  /\ flushes' = flushes + 1
  /\ flushing' = TRUE
  /\ CondSignal
  /\ UNCHANGED <<current_packets, skipped_last, skipped_overall, had_signal,
                 frameNumber, skipVars, p, alignVars, buffers, lastOut, owed>>

\* After the streaming thread has left create, as for the video source.  The
\* count of samples goes on from before the flush.
UnlockStop ==
  /\ flushing
  /\ strPc \in {"idle", "paused"}
  /\ strPc' = "idle"
  /\ flushing' = FALSE
  /\ buffers' = buffers \ FramesOf(current_packets)
  /\ current_packets' = <<>>
  /\ lastOut' = 0
  /\ owed' = FALSE
  /\ UNCHANGED <<skipped_last, skipped_overall, had_signal, frameNumber, skipVars, p,
                 alignVars, flushes>>

-----------------------------------------------------------------------------
Capture(cardDropped) ==
  \/ SkipPacket(cardDropped)
  \/ RejectPacket(cardDropped)
  \/ \E offset \in Offsets, count \in Counts : GotPacket(cardDropped, offset, count)

Streaming == ReturnFlushing \/ Wait \/ Pop \/ Output

Next ==
  \/ GotNoSignal
  \/ \E cardDropped \in BOOLEAN : Capture(cardDropped)
  \/ Streaming
  \/ Unlock
  \/ UnlockStop
  \/ StartStreams

Spec == Init /\ [][Next]_vars

-----------------------------------------------------------------------------
QueueOK ==
  /\ current_packets \in Seq(Packet)
  /\ Len(current_packets) <= QueueSize
  /\ flushing \in BOOLEAN
  /\ had_signal \in BOOLEAN
  /\ skipped_last \in Nat
  /\ skipped_overall \in Nat
  /\ skipLeft \in 0..SkipPackets
  /\ restarts \in 0..MaxRestarts
  /\ flushes \in 0..MaxFlushes

StreamOK ==
  /\ strPc \in {"idle", "waiting", "woken", "have", "paused"}
  /\ strPc = "have" => p \in Packet
  /\ strPc # "have" => p = NoPacket
  /\ owed \in BOOLEAN

NumbersOK ==
  /\ frameNumber \in 0..MaxPackets
  /\ buffers \subseteq 1..frameNumber
  /\ lastOut \in 0..frameNumber
  /\ waived \subseteq 1..frameNumber

AlignOK ==
  /\ next_offset \in Nat \union {None}
  /\ discont_time \in Nat \union {None}
  /\ out \in [time : Nat, end : Nat, capture : Nat, discont : BOOLEAN]
  /\ since \in Nat \union {None}

\* Type invariant; the queue keeps to queue-size, as it has no markers.
TypeOK == QueueOK /\ StreamOK /\ NumbersOK /\ AlignOK

\* The buffers taken from the pool are those of the queue and of create: none
\* is leaked when packets are dropped, skipped, rejected or flushed, and none
\* is released while it is still queued.
BuffersAccounted ==
  buffers = FramesOf(current_packets) \union (IF strPc = "have" THEN {p.frame} ELSE {})

\* A buffer without DISCONT begins where the last one ended, within the one
\* sample that rounding costs (only after a DISCONT, whose timestamp is that of
\* the capture and not rounded), whatever was dropped or flushed in between.
Contiguous ==
  [][out' # out /\ ~out'.discont /\ Threshold # 0 =>
       /\ out'.time <= out.end
       /\ (out.end - out'.time) * Rate < Second + Rate]_vars

\* Timestamps are off by more than alignment-threshold for less than
\* discont-wait of captured time: the first buffer captured later than that has
\* DISCONT and the time of its capture, however drops, flushes and jumps of the
\* time mapping moved the packets before it.
DriftBounded ==
  Threshold # 0 /\ since # None => out.capture - since < DiscontWait

\* A gap in the packets that create returns is followed by a packet with
\* DISCONT: one is queued, or the next one pushed without a drop will be it.  (Only
\* what skip_first_time left out is not announced, at the start or in mid-stream, and
\* with it what was lost between it and the packet pushed before.)
GapAnnounced ==
  LET gapAtHead == /\ lastOut # 0 /\ current_packets # <<>>
                   /\ ~Joined(lastOut, current_packets[1].frame)
  IN
  (owed \/ gapAtHead) =>
    \/ skipped_last > 0
    \/ \E i \in DOMAIN current_packets :
         current_packets[i].first \/ current_packets[i].dropped

\* The abstract queue of LossyFifo.
Fifo == INSTANCE LossyFifo WITH
          Capacity <- QueueSize,
          MaxItem <- MaxPackets,
          items <- FramesOf(current_packets),
          taken <- lastOut

\* The packets are a bounded queue that gives up its oldest entries: got_packet
\* never drops one to keep an older one, create returns the oldest left, and
\* what unlock_stop discards does not come back.
FifoSpec == Fifo!Spec
=============================================================================
