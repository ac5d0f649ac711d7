----------------------------- MODULE TimeMapping -----------------------------
(***************************************************************************)
(* The timestamps of frames and packets (gstajavideosrc.cpp, got_frame and *)
(* update_time_mapping; gstajaaudiosrc.cpp, got_packet): stream times      *)
(* count frames from the last discontinuity, and a mapping, found by       *)
(* linear regression over a window of samples, takes them to the time of   *)
(* the pipeline.  The capture thread keeps it without src->lock;           *)
(* start_streams, which the elements call from other threads, resets it    *)
(* between any two of its steps; the fields of a base, and those of a      *)
(* mapping, are written and read as one.                                   *)
(*                                                                         *)
(* Times are relative: a sample is the offset of its capture time from its *)
(* stream time, a mapping is its offset at the frame in hand and the rate  *)
(* at which its slope changes that per frame.  The regression, GStreamer's,*)
(* is external: the offset itself where all samples have the same one, and *)
(* any line otherwise.  output_stream_time is off, as it is by default.    *)
(***************************************************************************)
EXTENDS Integers

CONSTANTS
  WindowSize,  \* window_size: 64 samples
  MaxSkip,     \* 4 * fps: a sample in so many frames, at the least
  MaxDiff,     \* 5% of a frame, the most a mapping moves per frame
  Far,         \* 50 ms, a difference that is not approached but adopted
  SkipFrames,  \* skip_first_time, in frames
  MaxOffset,   \* bound: offsets, at which a mapping's saturates as well
  MaxRate,     \* bound: of a slope's deviation, per frame
  MaxJumps     \* bound: changes of the clock, losses of the signal, restarts and
               \*   failed regressions

\* A slope that leads a mapping away faster than it may approach the next one is
\* not found between two clocks.
ASSUME TimeMappingAssumption ==
  /\ WindowSize \in Nat \ {0, 1}
  /\ MaxSkip \in Nat \ {0}
  /\ MaxDiff \in Nat /\ Far \in Nat /\ SkipFrames \in Nat
  /\ MaxOffset \in Nat /\ MaxRate \in Nat /\ MaxJumps \in Nat
  /\ MaxRate < MaxDiff

Offsets == -MaxOffset..MaxOffset

\* Where samples and mappings come from: the streams that run, streams that ran
\* before, or nowhere (as reset by start_streams).
Origin == {"these", "earlier", "none"}
Sample == [offset : Offsets, from : Origin]
Mapping == [offset : Offsets, rate : -MaxRate..MaxRate, from : Origin]
Identity == [offset |-> 0, rate |-> 0, from |-> "none"]

\* What a frame or a packet got: a time, from a base that was set, or nothing.
Stamp == [skipped : BOOLEAN, offset : Offsets, based : BOOLEAN]
Skipped == [skipped |-> TRUE, offset |-> 0, based |-> TRUE]
Stamped(o, b) == [skipped |-> FALSE, offset |-> o, based |-> b]

\* first_time: not set, and set to a stream time that was computed without a base.
NoTime == -1
Astray == -2

\* Where the capture thread is: before a frame, at the parts of got_frame, among
\* them those of update_time_mapping, and at the reads of got_packet, which may
\* abort it.
Phases == {"video", "base", "time", "first", "skip",
           "sample", "complete", "regress", "approach", "stamp",
           "assert", "stream", "early", "map", "aborted"}

VARIABLES
  window,             \* times
  window_fill,
  window_filled,
  window_skip,
  window_skip_count,
  current_time_mapping,
  next_time_mapping,
  next_time_mapping_pending,
  signal_state,
  based,              \* discont_time is set
  since,              \* frames since first_time, NoTime or Astray
  clock,              \* the offset at which frames are captured
  phase,
  stream_time,        \* of the frame in hand: the offset of its capture, based or not
  video,              \* what the last frame got
  audio,              \* what its packet got
  restarted,          \* start_streams ran since the frame's callback began
  raced,              \* it ran during a callback, and not between two since then
  jumps

windowVars == <<window, window_fill, window_filled, window_skip, window_skip_count>>
mappingVars == <<current_time_mapping, next_time_mapping, next_time_mapping_pending>>
baseVars == <<signal_state, based, since>>
stamps == <<video, audio>>
ghosts == <<restarted, raced, jumps>>
vars ==
  <<windowVars, mappingVars, baseVars, clock, phase, stream_time, stamps, ghosts>>

\* gst_aja_video_src_init, then start_streams.
Init ==
  /\ window = [i \in 1..WindowSize |-> [offset |-> 0, from |-> "none"]]
  /\ window_fill = 0 /\ window_filled = FALSE
  /\ window_skip = 1 /\ window_skip_count = 0
  /\ current_time_mapping = Identity /\ next_time_mapping = Identity
  /\ next_time_mapping_pending = FALSE
  /\ signal_state = "unknown" /\ based = FALSE /\ since = NoTime
  /\ clock \in Offsets
  /\ phase = "video"
  /\ stream_time = [offset |-> 0, based |-> TRUE]
  /\ video = Skipped /\ audio = Skipped
  /\ restarted = FALSE /\ raced = FALSE /\ jumps = 0

-----------------------------------------------------------------------------
\* gst_aja_video_src_got_frame, up to update_time_mapping.

Saturated(o) ==
  IF o > MaxOffset THEN MaxOffset ELSE IF o < -MaxOffset THEN -MaxOffset ELSE o

\* gst_clock_adjust_with_calibration, one frame on.
Advanced(m) == [m EXCEPT !.offset = Saturated(@ + m.rate)]

OneFrameOn ==
  /\ current_time_mapping' = Advanced(current_time_mapping)
  /\ next_time_mapping' = Advanced(next_time_mapping)
  /\ UNCHANGED next_time_mapping_pending

\* A frame after none, or after no signal, is the new base of the stream time.
Rebased == signal_state # "available" \/ ~based

Frame ==
  /\ phase = "video"
  /\ phase' = IF Rebased THEN "base" ELSE "time"
  /\ signal_state' = "available"
  /\ OneFrameOn
  /\ restarted' = FALSE
  /\ UNCHANGED <<windowVars, based, since, clock, stream_time, stamps, raced, jumps>>

Base ==
  /\ phase = "base" /\ phase' = "time"
  /\ based' = TRUE /\ clock' = 0
  /\ UNCHANGED <<windowVars, mappingVars, signal_state, since, stream_time, stamps, ghosts>>

\* The frame's stream time; from a base that was reset it is any.
StreamTime ==
  /\ phase = "time" /\ phase' = "first"
  /\ \E o \in IF based THEN {clock} ELSE Offsets :
       stream_time' = [offset |-> o, based |-> based]
  /\ UNCHANGED <<windowVars, mappingVars, baseVars, clock, stamps, ghosts>>

\* Frames from a first_time gone astray to those that have a base: it may be far
\* off, or the stream times may come upon it.
FramesSince ==
  IF since = NoTime THEN {IF stream_time.based THEN 0 ELSE Astray}
  ELSE IF since = Astray THEN {Astray} \union 0..SkipFrames
  ELSE {IF since < SkipFrames THEN since + 1 ELSE since}

FirstTime ==
  /\ phase = "first" /\ phase' = "skip"
  /\ since' \in FramesSince
  /\ UNCHANGED <<windowVars, mappingVars, signal_state, based, clock, stream_time, stamps,
                 ghosts>>

\* A first_time gone astray was set to the stream time that had no base.
Elapsed ==
  IF since = NoTime THEN 0
  ELSE IF since = Astray THEN IF stream_time.based THEN SkipFrames ELSE 0
  ELSE since

Early == Elapsed < SkipFrames

\* A difference from a first_time that was reset is any.
Skip ==
  /\ phase = "skip"
  /\ \/ /\ Early
        /\ phase' = "assert" /\ video' = Skipped
     \/ /\ ~Early \/ since = NoTime
        /\ phase' = "sample" /\ UNCHANGED video
  /\ UNCHANGED <<windowVars, mappingVars, baseVars, clock, stream_time, audio, ghosts>>

\* A frame without signal, and its packet, which got_packet ignores.
NoSignalFrame ==
  /\ phase = "video" /\ jumps < MaxJumps
  /\ signal_state' = "lost"
  /\ OneFrameOn
  /\ jumps' = jumps + 1
  /\ UNCHANGED <<windowVars, based, since, clock, phase, stream_time, stamps, restarted,
                 raced>>

-----------------------------------------------------------------------------
\* gst_aja_video_src_update_time_mapping.

Here == IF restarted THEN "earlier" ELSE "these"

\* Mutant: the count of frames between two samples is not reset.
SkipCounted_Stays ==
  IF window_skip_count + 1 >= window_skip THEN window_skip ELSE window_skip_count + 1

SkipCounted ==
  IF window_skip_count + 1 >= window_skip THEN 0 ELSE window_skip_count + 1

\* A sample is taken where the count is 0.
TakeSample ==
  /\ phase = "sample"
  /\ window_skip_count' = SkipCounted
  /\ IF window_skip_count = 0
     THEN /\ window' = [window EXCEPT ![window_fill + 1] = [offset |-> stream_time.offset,
                                                           from |-> Here]]
          /\ window_fill' = window_fill + 1
          /\ phase' = IF window_fill + 1 >= WindowSize THEN "complete" ELSE "regress"
     ELSE phase' = "approach" /\ UNCHANGED <<window, window_fill>>
  /\ UNCHANGED <<window_filled, window_skip, mappingVars, baseVars, clock, stream_time,
                 stamps, ghosts>>

\* Mutant: the next sample is written behind the window.
Complete_Full ==
  /\ phase = "complete"
  /\ window_skip' = IF 2 * window_skip >= MaxSkip THEN MaxSkip ELSE 2 * window_skip
  /\ window_filled' = TRUE
  /\ phase' = "regress"
  /\ UNCHANGED <<window, window_fill, window_skip_count, mappingVars, baseVars, clock,
                 stream_time, stamps, ghosts>>

\* The window is full: samples are taken half as often from here on.
Complete ==
  /\ phase = "complete"
  /\ window_skip' = IF 2 * window_skip >= MaxSkip THEN MaxSkip ELSE 2 * window_skip
  /\ window_fill' = 0 /\ window_filled' = TRUE
  /\ phase' = "regress"
  /\ UNCHANGED <<window, window_skip_count, mappingVars, baseVars, clock, stream_time,
                 stamps, ghosts>>

\* Mutant: a mapping that was pending when the streams were restarted stays so.
FirstMapping_PendingKept ==
  /\ current_time_mapping' = [offset |-> stream_time.offset, rate |-> 0, from |-> Here]
  /\ UNCHANGED <<next_time_mapping, next_time_mapping_pending, jumps>>

\* "First sample ever, create some basic mapping to start".
FirstMapping ==
  /\ current_time_mapping' = [offset |-> stream_time.offset, rate |-> 0, from |-> Here]
  /\ next_time_mapping_pending' = FALSE
  /\ UNCHANGED <<next_time_mapping, jumps>>

\* gst_calculate_linear_regression over the whole window.
Regressions ==
  LET from == IF \A i \in 1..WindowSize : window[i].from = "these"
              THEN "these" ELSE "earlier"
  IN  IF \A i \in 1..WindowSize : window[i].offset = window[1].offset
      THEN {[offset |-> window[1].offset, rate |-> 0, from |-> from]}
      ELSE {m \in Mapping : m.from = from}

NextMapping ==
  /\ next_time_mapping' \in Regressions
  /\ next_time_mapping_pending' = TRUE
  /\ UNCHANGED <<current_time_mapping, jumps>>

\* It returns FALSE, which is not for ever.
NoNextMapping ==
  /\ jumps < MaxJumps /\ jumps' = jumps + 1
  /\ UNCHANGED mappingVars

Regress ==
  /\ phase = "regress" /\ phase' = "approach"
  /\ IF window_filled THEN NextMapping \/ NoNextMapping
     ELSE IF window_fill = 1 THEN FirstMapping
     ELSE UNCHANGED <<mappingVars, jumps>>
  /\ UNCHANGED <<windowVars, baseVars, clock, stream_time, stamps, restarted, raced>>

Distance(c, n) == IF n.offset > c.offset THEN n.offset - c.offset ELSE c.offset - n.offset

\* "adjust so that we move that much closer"
Closer(c, n) == [c EXCEPT !.offset = IF n.offset > c.offset THEN @ + MaxDiff ELSE @ - MaxDiff]

Approaching(c, n, discont) ==
  ~discont /\ Distance(c, n) > MaxDiff /\ Distance(c, n) < Far

\* The next mapping is adopted, or the current one moved towards it.
Approach ==
  /\ phase = "approach" /\ phase' = "stamp"
  /\ IF next_time_mapping_pending
     THEN \E discont \in BOOLEAN :
            LET slowly == Approaching(current_time_mapping, next_time_mapping, discont)
            IN  /\ current_time_mapping' =
                     IF slowly THEN Closer(current_time_mapping, next_time_mapping)
                               ELSE next_time_mapping
                /\ next_time_mapping_pending' = slowly
     ELSE UNCHANGED <<current_time_mapping, next_time_mapping_pending>>
  /\ UNCHANGED <<windowVars, next_time_mapping, baseVars, clock, stream_time, stamps, ghosts>>

\* The frame gets its time.
Timestamp ==
  /\ phase = "stamp" /\ phase' = "assert"
  /\ video' = Stamped(current_time_mapping.offset, stream_time.based)
  /\ UNCHANGED <<windowVars, mappingVars, baseVars, clock, stream_time, audio, ghosts>>

-----------------------------------------------------------------------------
\* gst_aja_audio_src_got_packet: the video source's fields, read without its lock.

\* "The videosrc is always first passed the frame": g_assert otherwise.
Assert ==
  /\ phase = "assert"
  /\ phase' = IF since = NoTime THEN "aborted" ELSE "stream"
  /\ UNCHANGED <<windowVars, mappingVars, baseVars, clock, stream_time, stamps, ghosts>>

\* The packet's stream time is the frame's, if it has a base.
PacketStreamTime ==
  /\ phase = "stream" /\ phase' = "early"
  /\ audio' = Stamped(0, based)
  /\ UNCHANGED <<windowVars, mappingVars, baseVars, clock, stream_time, video, ghosts>>

\* Mutant: the frame at skip_first_time is skipped as well.
TooEarly_AtLimit == Elapsed <= SkipFrames

TooEarly == Elapsed < SkipFrames

\* Differences from what was reset, or of what was, are any.
PacketSkip ==
  /\ phase = "early"
  /\ \/ /\ TooEarly \/ audio.based # stream_time.based
        /\ phase' = "video" /\ audio' = Skipped
     \/ /\ ~TooEarly \/ since = NoTime \/ audio.based # stream_time.based
        /\ phase' = "map" /\ UNCHANGED audio
  /\ UNCHANGED <<windowVars, mappingVars, baseVars, clock, stream_time, video, ghosts>>

Map ==
  /\ phase = "map" /\ phase' = "video"
  /\ audio' = [audio EXCEPT !.offset = current_time_mapping.offset]
  /\ UNCHANGED <<windowVars, mappingVars, baseVars, clock, stream_time, video, ghosts>>

-----------------------------------------------------------------------------
\* gst_aja_video_src_start_streams: called as caps are set and as an element goes
\* to PLAYING, whether or not the capture thread runs.  Its window is left as it
\* is, and so is next_time_mapping_pending.
StartStreams ==
  /\ jumps < MaxJumps
  /\ signal_state' = "unknown" /\ based' = FALSE /\ since' = NoTime
  /\ window_fill' = 0 /\ window_filled' = FALSE
  /\ window_skip' = 1 /\ window_skip_count' = 0
  /\ current_time_mapping' = Identity /\ next_time_mapping' = Identity
  /\ window' = [i \in 1..WindowSize |->
                  [window[i] EXCEPT !.from = IF @ = "these" THEN "earlier" ELSE @]]
  /\ restarted' = (restarted \/ phase # "video")
  /\ raced' = (phase # "video")
  /\ jumps' = jumps + 1
  /\ UNCHANGED <<next_time_mapping_pending, clock, phase, stream_time, stamps>>

\* The pipeline's clock changes against the card's: frame numbers count the frames
\* that are dropped too, and do not make a jump.
ClockJump ==
  /\ phase = "video" /\ jumps < MaxJumps
  /\ clock' \in Offsets \ {clock}
  /\ jumps' = jumps + 1
  /\ UNCHANGED <<windowVars, mappingVars, baseVars, phase, stream_time, stamps, restarted,
                 raced>>

GotFrame == Frame \/ Base \/ StreamTime \/ FirstTime \/ Skip \/ Timestamp
UpdateTimeMapping == TakeSample \/ Complete \/ Regress \/ Approach
GotPacket == Assert \/ PacketStreamTime \/ PacketSkip \/ Map
Capture == GotFrame \/ UpdateTimeMapping \/ GotPacket

Next == Capture \/ NoSignalFrame \/ StartStreams \/ ClockJump

\* The capture thread runs on while there is a signal; nothing makes the clock jump
\* or the elements restart.
Spec == Init /\ [][Next]_vars /\ WF_vars(Capture)

-----------------------------------------------------------------------------
\* The fields hold values of their types, and a sample is always written within the
\* window, whatever start_streams does in between.
TypeOK ==
  /\ window \in [1..WindowSize -> Sample]
  /\ window_fill \in 0..WindowSize /\ window_filled \in BOOLEAN
  /\ phase = "sample" => window_fill < WindowSize
  /\ window_skip \in 1..MaxSkip /\ window_skip_count \in 0..MaxSkip
  /\ current_time_mapping \in Mapping /\ next_time_mapping \in Mapping
  /\ next_time_mapping_pending \in BOOLEAN
  /\ signal_state \in {"unknown", "available", "lost"} /\ based \in BOOLEAN
  /\ since \in {Astray, NoTime} \union 0..SkipFrames
  /\ clock \in Offsets /\ phase \in Phases
  /\ stream_time \in [offset : Offsets, based : BOOLEAN]
  /\ video \in Stamp
  /\ audio \in Stamp
  /\ restarted \in BOOLEAN /\ raced \in BOOLEAN /\ jumps \in 0..MaxJumps

\* A packet is skipped where its frame is and otherwise gets its frame's time,
\* though both sources compute it from fields start_streams resets between any two
\* of their reads: where it did make a difference, or aborted the capture thread,
\* the next frame starts new stream times.
AudioMatchesVideo ==
  (phase = "video" /\ audio # video) \/ phase = "aborted" => ~based

\* gstajaaudiosrc.cpp:686 says that the video source is always first passed the
\* frame, and 687 asserts that it left its first_time.  Contradicted by a
\* start_streams after that was set: it resets it, and the assertion ends the
\* program.
AssertionHolds == phase # "aborted"

\* A frame's time comes from samples of the streams that run: start_streams leaves
\* the old samples, and whether a mapping was pending, and neither shows.  It may
\* show after a start_streams in the middle of update_time_mapping.
FreshMapping ==
  phase = "assert" /\ ~video.skipped /\ ~raced => current_time_mapping.from = "these"

\* The mapping is the clock's, and all that the next one will be made of.
Synchronised ==
  LET OfClock(m) == m.offset = clock /\ m.rate = 0
  IN  /\ OfClock(current_time_mapping)
      /\ next_time_mapping_pending => OfClock(next_time_mapping)
      /\ \A i \in 1..WindowSize :
           window_filled \/ i <= window_fill => window[i].offset = clock

\* Times that are the capture times stay so, frame after frame, through the ends of
\* the window and the mappings adopted or approached, until the clock jumps, the
\* signal is lost or the elements restart; but not after a start_streams in the
\* middle of update_time_mapping.
StaysOnClock ==
  [][Synchronised /\ clock' = clock /\ jumps' = jumps /\ ~raced =>
       /\ Synchronised'
       /\ video' # video => video' \in {Skipped, Stamped(clock, TRUE)}]_vars

\* The mapping finds the clock: while that does not jump, and after all jumps,
\* losses of the signal and restarts, times are the capture times in the end.
Locks ==
  <>[](phase = "aborted" \/ (current_time_mapping.offset = clock
                             /\ current_time_mapping.rate = 0))
=============================================================================
