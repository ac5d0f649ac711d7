-------------------------- MODULE TimeMappingProofs --------------------------
(***************************************************************************)
(* That a packet gets its frame's time and that old samples never show,    *)
(* for every window, skipping time and bound.                              *)
(*                                                                         *)
(* Two arguments stand side by side on the types.  What the reads of       *)
(* got_packet find is what the frame's callback left, step by step, as     *)
(* long as the base that the frame was stamped from is there (Together);   *)
(* start_streams takes it away.  And whatever is called begun              *)
(* - a window that has, or had, a sample that update_time_mapping is       *)
(* through with - is about these streams: the samples, the mapping, and    *)
(* the next one if that is pending (Fresh); a time is only given then.     *)
(***************************************************************************)
EXTENDS TimeMapping, TLAPS

Types ==
  /\ TypeOK
  /\ phase # "complete" => window_fill < WindowSize

\* The frame in hand, and what its packet read so far, with a base that is there.
Together ==
  based =>
    /\ phase \notin {"video", "base", "time", "aborted"} => stream_time.based = TRUE
    /\ phase \notin {"video", "base", "time", "first", "aborted"} => since # NoTime
    /\ phase \in {"sample", "complete", "regress", "approach", "stamp"} => ~TooEarly
    /\ phase \in {"assert", "stream", "early", "map"} =>
         video = IF TooEarly THEN Skipped ELSE Stamped(current_time_mapping.offset, TRUE)
    /\ phase \in {"early", "map"} => audio = Stamped(0, TRUE)
    /\ phase = "map" => ~TooEarly
    /\ phase = "video" => audio = video
    /\ phase # "aborted"

\* A sample was taken since the start, and more than that was done about it.
Begun ==
  \/ window_filled
  \/ window_fill > 1
  \/ window_fill = 1 /\ phase # "regress"

Fresh ==
  /\ phase # "video" /\ restarted => raced
  /\ ~raced =>
       /\ \A i \in 1..WindowSize : window_filled \/ i <= window_fill => window[i].from = "these"
       /\ Begun => current_time_mapping.from = "these"
       /\ Begun /\ next_time_mapping_pending => next_time_mapping.from = "these"
       /\ window_skip_count # 0 => Begun \/ phase = "regress"
       /\ phase = "complete" => window_fill = WindowSize
       /\ phase = "regress" => window_filled \/ window_fill > 0
       /\ phase \in {"approach", "stamp"} => Begun
       /\ phase = "time" => based
       /\ phase \in {"first", "skip", "sample", "complete", "regress"} =>
            stream_time.offset = clock
       /\ phase \in {"first", "skip", "sample", "complete", "regress", "approach", "stamp"} =>
            stream_time.based = TRUE
       /\ phase \in {"assert", "stream", "early", "map"} /\ ~video.skipped => Begun

-----------------------------------------------------------------------------
\* The arithmetic of mappings stays within the offsets.
LEMMA SaturatedType == ASSUME NEW o \in Int PROVE Saturated(o) \in Offsets
  BY TimeMappingAssumption DEF Saturated, Offsets

LEMMA StampTypes ==
  /\ Skipped \in Stamp
  /\ \A o \in Offsets, b \in BOOLEAN : Stamped(o, b) \in Stamp
<1>1. 0 \in Offsets
  BY TimeMappingAssumption DEF Offsets
<1> QED
  BY <1>1 DEF Skipped, Stamped, Stamp

LEMMA AdvancedType ==
  ASSUME NEW m \in Mapping
  PROVE  Advanced(m) \in Mapping /\ Advanced(m).from = m.from
<1>1. m.offset + m.rate \in Int
  BY TimeMappingAssumption DEF Mapping, Offsets
<1>2. Saturated(m.offset + m.rate) \in Offsets
  BY <1>1, SaturatedType
<1> QED
  BY <1>2 DEF Advanced, Mapping

LEMMA CloserType ==
  ASSUME NEW c \in Mapping, NEW n \in Mapping, NEW d \in BOOLEAN, Approaching(c, n, d)
  PROVE  Closer(c, n) \in Mapping /\ Closer(c, n).from = c.from
<1>1. c.offset \in Offsets /\ n.offset \in Offsets
  BY DEF Mapping
<1> DEFINE o == IF n.offset > c.offset THEN c.offset + MaxDiff ELSE c.offset - MaxDiff
<1>2. o \in Offsets
  BY <1>1, TimeMappingAssumption DEF Approaching, Distance, Offsets
<1>3. Closer(c, n) = [c EXCEPT !.offset = o]
  BY DEF Closer
<1>4. c \in [offset : Offsets, rate : -MaxRate..MaxRate, from : Origin]
  BY DEF Mapping
<1> HIDE DEF o
<1> QED
  BY <1>2, <1>3, <1>4 DEF Mapping

LEMMA RegressionsType ==
  ASSUME window \in [1..WindowSize -> Sample], NEW m \in Regressions
  PROVE  /\ m \in Mapping
         /\ (\A i \in 1..WindowSize : window[i].from = "these") => m.from = "these"
<1>1. 0 \in -MaxRate..MaxRate
  BY TimeMappingAssumption
<1>2. 1 \in 1..WindowSize
  BY TimeMappingAssumption
<1>3. window[1].offset \in Offsets
  BY <1>2 DEF Sample
<1> DEFINE from == IF \A i \in 1..WindowSize : window[i].from = "these"
                   THEN "these" ELSE "earlier"
<1>4. m.from = from /\ m \in Mapping
  <2>1. CASE \A i \in 1..WindowSize : window[i].offset = window[1].offset
    <3>1. m = [offset |-> window[1].offset, rate |-> 0, from |-> from]
      BY <2>1 DEF Regressions
    <3>2. from \in Origin
      BY DEF Origin
    <3> QED
      BY <1>1, <1>3, <3>1, <3>2 DEF Mapping
  <2>2. CASE ~\A i \in 1..WindowSize : window[i].offset = window[1].offset
    BY <2>2 DEF Regressions
  <2> QED
    BY <2>1, <2>2
<1> QED
  BY <1>4

-----------------------------------------------------------------------------
LEMMA InitTypes == Init => Types
<1> SUFFICES ASSUME Init PROVE Types
  OBVIOUS
<1>1. 0 \in Offsets /\ 0 \in -MaxRate..MaxRate
  BY TimeMappingAssumption DEF Offsets
<1>2. window \in [1..WindowSize -> Sample]
  BY <1>1 DEF Init, Sample, Origin
<1>3. current_time_mapping \in Mapping /\ next_time_mapping \in Mapping
  BY <1>1 DEF Init, Identity, Mapping, Origin
<1>4. video \in Stamp /\ audio = video
  BY StampTypes DEF Init
<1>5. window_fill < WindowSize /\ window_fill \in 0..WindowSize
  BY TimeMappingAssumption DEF Init
<1>6. /\ window_skip \in 1..MaxSkip /\ window_skip_count \in 0..MaxSkip
      /\ since \in {Astray, NoTime} \union 0..SkipFrames /\ jumps \in 0..MaxJumps
  BY TimeMappingAssumption DEF Init, NoTime
<1>7. signal_state \in {"unknown", "available", "lost"} /\ phase \in Phases
  BY DEF Init, Phases
<1>9. stream_time \in [offset : Offsets, based : BOOLEAN]
  BY <1>1 DEF Init
<1>8. /\ window_filled \in BOOLEAN /\ next_time_mapping_pending \in BOOLEAN
      /\ based \in BOOLEAN /\ clock \in Offsets
      /\ restarted \in BOOLEAN /\ raced \in BOOLEAN
  BY DEF Init
<1> QED
  BY <1>2, <1>3, <1>4, <1>5, <1>6, <1>7, <1>8, <1>9 DEF Types, TypeOK

LEMMA NextTypes == Types /\ [Next]_vars => Types'
<1> SUFFICES ASSUME Types, [Next]_vars PROVE Types'
  OBVIOUS
<1> USE TimeMappingAssumption DEF Types, TypeOK, Phases
<1>1. CASE Frame
  <2>1. Advanced(current_time_mapping) \in Mapping /\ Advanced(next_time_mapping) \in Mapping
    BY AdvancedType
  <2>2. phase = "video" /\ phase' \in {"base", "time"}
    BY <1>1 DEF Frame
  <2> QED
    BY <1>1, <2>1, <2>2 DEF Frame, OneFrameOn, windowVars, stamps
<1>12. CASE Base
  <2>1. 0 \in Offsets
    BY DEF Offsets
  <2> QED
    BY <1>12, <2>1 DEF Base, windowVars, mappingVars, stamps, ghosts
<1>13. CASE StreamTime
  <2>1. stream_time' \in [offset : Offsets, based : BOOLEAN]
    BY <1>13 DEF StreamTime
  <2> QED
    BY <1>13, <2>1 DEF StreamTime, windowVars, mappingVars, baseVars, stamps, ghosts
<1>14. CASE FirstTime
  <2>1. FramesSince \subseteq {Astray, NoTime} \union 0..SkipFrames
    BY DEF FramesSince, NoTime, Astray
  <2> QED
    BY <1>14, <2>1 DEF FirstTime, windowVars, mappingVars, stamps, ghosts
<1>15. CASE Skip
  <2>1. video' \in Stamp /\ phase = "skip" /\ phase' \in {"assert", "sample"}
    BY <1>15, StampTypes DEF Skip
  <2> QED
    BY <1>15, <2>1 DEF Skip, windowVars, mappingVars, baseVars, ghosts
<1>16. CASE Timestamp
  <2>1. current_time_mapping.offset \in Offsets
    BY DEF Mapping
  <2>2. video' \in Stamp
    BY <1>16, <2>1, StampTypes DEF Timestamp
  <2> QED
    BY <1>16, <2>2 DEF Timestamp, windowVars, mappingVars, baseVars, ghosts
<1>2. CASE NoSignalFrame
  <2>1. Advanced(current_time_mapping) \in Mapping /\ Advanced(next_time_mapping) \in Mapping
    BY AdvancedType
  <2> QED
    BY <1>2, <2>1 DEF NoSignalFrame, OneFrameOn, windowVars, stamps
<1>3. CASE TakeSample
  <2>1. [offset |-> stream_time.offset, from |-> Here] \in Sample
    BY DEF Sample, Here, Origin
  <2>2. window' \in [1..WindowSize -> Sample]
    BY <1>3, <2>1 DEF TakeSample
  <2>3. SkipCounted \in 0..MaxSkip
    BY DEF SkipCounted
  <2>4. /\ phase = "sample" /\ phase' \in {"complete", "regress", "approach"}
        /\ window_fill' \in 0..WindowSize
        /\ phase' # "complete" => window_fill' < WindowSize
    BY <1>3 DEF TakeSample
  <2> QED
    BY <1>3, <2>2, <2>3, <2>4 DEF TakeSample, mappingVars, baseVars, stamps, ghosts
<1>4. CASE Complete
  BY <1>4 DEF Complete, mappingVars, baseVars, stamps, ghosts
<1>5. CASE Regress
  <2>1. phase = "regress" /\ phase' = "approach"
    BY <1>5 DEF Regress
  <2>2. [offset |-> stream_time.offset, rate |-> 0, from |-> Here] \in Mapping
    BY DEF Mapping, Here, Origin
  <2>3. /\ current_time_mapping' \in Mapping /\ next_time_mapping' \in Mapping
        /\ next_time_mapping_pending' \in BOOLEAN
        /\ jumps' \in 0..MaxJumps
    <3>1. CASE window_filled
      <4>1. CASE NextMapping
        BY <4>1, RegressionsType DEF NextMapping
      <4>2. CASE NoNextMapping
        BY <4>2 DEF NoNextMapping, mappingVars
      <4> QED
        BY <1>5, <3>1, <4>1, <4>2 DEF Regress
    <3>2. CASE ~window_filled /\ window_fill = 1
      BY <1>5, <2>2, <3>2 DEF Regress, FirstMapping
    <3>3. CASE ~window_filled /\ window_fill # 1
      BY <1>5, <3>3 DEF Regress, mappingVars
    <3> QED
      BY <3>1, <3>2, <3>3
  <2> QED
    BY <1>5, <2>1, <2>3 DEF Regress, windowVars, baseVars, stamps
<1>6. CASE Approach
  <2>1. current_time_mapping' \in Mapping /\ next_time_mapping_pending' \in BOOLEAN
    <3>1. CASE next_time_mapping_pending
      <4>1. PICK d \in BOOLEAN :
              LET slowly == Approaching(current_time_mapping, next_time_mapping, d)
              IN  /\ current_time_mapping' =
                       IF slowly THEN Closer(current_time_mapping, next_time_mapping)
                                 ELSE next_time_mapping
                  /\ next_time_mapping_pending' = slowly
        BY <1>6, <3>1 DEF Approach
      <4>2. Approaching(current_time_mapping, next_time_mapping, d) \in BOOLEAN
        BY DEF Approaching
      <4> QED
        BY <4>1, <4>2, CloserType
    <3>2. CASE ~next_time_mapping_pending
      BY <1>6, <3>2 DEF Approach
    <3> QED
      BY <3>1, <3>2
  <2> QED
    BY <1>6, <2>1 DEF Approach, windowVars, baseVars, stamps, ghosts
<1>7. CASE GotPacket
  <2>1. CASE Assert
    BY <2>1 DEF Assert, windowVars, mappingVars, baseVars, stamps, ghosts
  <2>2. CASE PacketStreamTime
    <3>1. audio' \in Stamp
      <4>1. 0 \in Offsets
        BY DEF Offsets
      <4> QED
        BY <2>2, <4>1, StampTypes DEF PacketStreamTime
    <3> QED
      BY <2>2, <3>1 DEF PacketStreamTime, windowVars, mappingVars, baseVars, ghosts
  <2>4. CASE PacketSkip
    <3>1. audio' \in Stamp
      BY <2>4, StampTypes DEF PacketSkip
    <3> QED
      BY <2>4, <3>1 DEF PacketSkip, windowVars, mappingVars, baseVars, ghosts
  <2>3. CASE Map
    <3>1. current_time_mapping.offset \in Offsets
      BY DEF Mapping
    <3>2. audio' \in Stamp
      BY <2>3, <3>1 DEF Map, Stamp
    <3> QED
      BY <2>3, <3>2 DEF Map, windowVars, mappingVars, baseVars, ghosts
  <2> QED
    BY <1>7, <2>1, <2>2, <2>3, <2>4 DEF GotPacket
<1>8. CASE StartStreams
  <2>1. window' \in [1..WindowSize -> Sample]
    BY <1>8 DEF StartStreams, Sample, Origin
  <2>2. Identity \in Mapping
    BY DEF Identity, Mapping, Origin, Offsets
  <2>3. /\ window_fill' = 0 /\ window_skip' = 1 /\ window_skip_count' = 0
        /\ since' = NoTime /\ phase' = phase /\ clock' = clock
        /\ stream_time' = stream_time /\ video' = video /\ audio' = audio
        /\ next_time_mapping_pending' = next_time_mapping_pending
        /\ current_time_mapping' = Identity /\ next_time_mapping' = Identity
    BY <1>8 DEF StartStreams, stamps
  <2>4. /\ window_filled' = FALSE /\ based' = FALSE /\ signal_state' = "unknown"
        /\ restarted' \in BOOLEAN /\ raced' \in BOOLEAN /\ jumps' \in 0..MaxJumps
    BY <1>8 DEF StartStreams
  <2>5. /\ window_fill' \in 0..WindowSize /\ window_fill' < WindowSize
        /\ window_skip' \in 1..MaxSkip /\ window_skip_count' \in 0..MaxSkip
        /\ since' \in {Astray, NoTime} \union 0..SkipFrames
    BY <2>3 DEF NoTime
  <2>6. /\ current_time_mapping' \in Mapping /\ next_time_mapping' \in Mapping
        /\ next_time_mapping_pending' \in BOOLEAN
        /\ clock' \in Offsets /\ phase' \in Phases
        /\ stream_time' \in [offset : Offsets, based : BOOLEAN]
        /\ video' \in Stamp /\ audio' \in Stamp
    BY <2>2, <2>3
  <2> QED
    BY <2>1, <2>4, <2>5, <2>6
<1>9. CASE ClockJump
  BY <1>9 DEF ClockJump, windowVars, mappingVars, baseVars, stamps
<1>10. CASE UNCHANGED vars
  BY <1>10 DEF vars, windowVars, mappingVars, baseVars, stamps, ghosts
<1> QED
  BY <1>1, <1>2, <1>3, <1>4, <1>5, <1>6, <1>7, <1>8, <1>9, <1>10,
     <1>12, <1>13, <1>14, <1>15, <1>16
  DEF Next, Capture, GotFrame, UpdateTimeMapping

\* Types, and the room in the window, hold in every state.
THEOREM TypesInvariance == Spec => []TypeOK
<1>1. Types => TypeOK
  BY DEF Types
<1> QED
  BY InitTypes, NextTypes, <1>1, PTL DEF Spec

-----------------------------------------------------------------------------
LEMMA NextTogether == Types /\ Together /\ [Next]_vars => Together'
<1> SUFFICES ASSUME Types, Together, [Next]_vars PROVE Together'
  OBVIOUS
<1> USE DEF Together, TooEarly, Elapsed
<1>1. CASE Frame \/ Base
  BY <1>1 DEF Frame, Base
<1>2. CASE NoSignalFrame
  BY <1>2 DEF NoSignalFrame, stamps
<1>3. CASE StreamTime
  <2>1. stream_time'.based = based
    BY <1>3 DEF StreamTime
  <2> QED
    BY <1>3, <2>1 DEF StreamTime, baseVars
<1>4. CASE FirstTime
  <2>1. since' # NoTime
    BY <1>4, TimeMappingAssumption DEF FirstTime, FramesSince, NoTime, Astray, Types, TypeOK
  <2> QED
    BY <1>4, <2>1 DEF FirstTime
<1>5. CASE Skip
  BY <1>5 DEF Skip, Early, mappingVars, baseVars
<1>6. CASE TakeSample \/ Complete \/ Regress
  <2>1. /\ phase \in {"sample", "complete", "regress"}
        /\ phase' \in {"complete", "regress", "approach"}
        /\ UNCHANGED <<baseVars, stream_time>>
    BY <1>6 DEF TakeSample, Complete, Regress
  <2> QED
    BY <2>1 DEF baseVars
<1>7. CASE Approach
  <2>1. phase = "approach" /\ phase' = "stamp" /\ UNCHANGED <<baseVars, stream_time>>
    BY <1>7 DEF Approach
  <2> QED
    BY <2>1 DEF baseVars
<1>8. CASE Timestamp
  <2>1. /\ phase = "stamp" /\ phase' = "assert"
        /\ video' = Stamped(current_time_mapping.offset, stream_time.based)
        /\ UNCHANGED <<mappingVars, baseVars, stream_time>>
    BY <1>8 DEF Timestamp
  <2> QED
    BY <2>1 DEF mappingVars, baseVars
<1>9. CASE Assert
  BY <1>9 DEF Assert, mappingVars, baseVars, stamps
<1>10. CASE PacketStreamTime
  <2>1. based => audio' = Stamped(0, TRUE)
    BY <1>10 DEF PacketStreamTime, Types, TypeOK
  <2> QED
    BY <1>10, <2>1 DEF PacketStreamTime, mappingVars, baseVars
<1>11. CASE PacketSkip
  <2>a. phase = "early"
    BY <1>11 DEF PacketSkip
  <2>b. Stamped(0, TRUE).based = TRUE
    BY DEF Stamped
  <2>1. based => audio.based = stream_time.based /\ since # NoTime
    BY <2>a, <2>b
  <2>2. /\ phase = "early" /\ phase' \in {"video", "map"}
        /\ UNCHANGED <<mappingVars, baseVars, stream_time, video>>
    BY <1>11 DEF PacketSkip
  <2>3. based /\ phase' = "video" => TooEarly /\ audio' = Skipped
    BY <1>11, <2>1 DEF PacketSkip
  <2>4. based /\ phase' = "map" => ~TooEarly /\ audio' = audio
    BY <1>11, <2>1 DEF PacketSkip
  <2> QED
    BY <2>1, <2>2, <2>3, <2>4 DEF mappingVars, baseVars
<1>12. CASE Map
  <2>1. /\ phase = "map" /\ phase' = "video"
        /\ audio' = [audio EXCEPT !.offset = current_time_mapping.offset]
        /\ UNCHANGED <<mappingVars, baseVars, video>>
    BY <1>12 DEF Map
  <2>2. based => audio' = Stamped(current_time_mapping.offset, TRUE)
    <3>1. SUFFICES ASSUME based PROVE audio' = Stamped(current_time_mapping.offset, TRUE)
      OBVIOUS
    <3>2. audio = [skipped |-> FALSE, offset |-> 0, based |-> TRUE]
      BY <2>1, <3>1 DEF Stamped
    <3> QED
      BY <2>1, <3>2, Zenon DEF Stamped
  <2> QED
    BY <2>1, <2>2 DEF mappingVars, baseVars
<1>13. CASE StartStreams
  BY <1>13 DEF StartStreams
<1>14. CASE ClockJump
  BY <1>14 DEF ClockJump, baseVars, stamps
<1>15. CASE UNCHANGED vars
  BY <1>15 DEF vars, mappingVars, baseVars, stamps
<1> QED
  BY <1>1, <1>2, <1>3, <1>4, <1>5, <1>6, <1>7, <1>8, <1>9, <1>10, <1>11, <1>12, <1>13,
     <1>14, <1>15
  DEF Next, Capture, GotFrame, UpdateTimeMapping, GotPacket

\* A packet is skipped with its frame or gets the same time, and the capture thread
\* goes on, unless start_streams took away the base in between, so that the next
\* frame starts new stream times.
THEOREM Matches == Spec => []AudioMatchesVideo
<1>1. Init => Together
  BY DEF Init, Together
<1>2. Together => AudioMatchesVideo
  BY DEF Together, AudioMatchesVideo
<1> QED
  BY InitTypes, NextTypes, NextTogether, <1>1, <1>2, PTL DEF Spec

-----------------------------------------------------------------------------
LEMMA NextFresh == Types /\ Fresh /\ [Next]_vars => Fresh'
<1> SUFFICES ASSUME Types, Fresh, [Next]_vars PROVE Fresh'
  OBVIOUS
<1>0. /\ WindowSize \in Nat /\ WindowSize > 1
      /\ window \in [1..WindowSize -> Sample]
      /\ window_fill \in 0..WindowSize /\ window_skip_count \in Int
      /\ phase # "complete" => window_fill < WindowSize
      /\ current_time_mapping \in Mapping /\ next_time_mapping \in Mapping
  BY TimeMappingAssumption DEF Types, TypeOK
<1>1. CASE Frame
  <2>1. /\ current_time_mapping'.from = current_time_mapping.from
        /\ next_time_mapping'.from = next_time_mapping.from
    BY <1>0, <1>1, AdvancedType DEF Frame, OneFrameOn
  <2>2. UNCHANGED <<windowVars, raced, next_time_mapping_pending, based>>
    BY <1>1 DEF Frame, OneFrameOn
  <2>3. /\ phase = "video" /\ restarted' = FALSE
        /\ phase' = "base" \/ (phase' = "time" /\ based)
    BY <1>1 DEF Frame, Rebased
  <2> QED
    BY <1>0, <2>1, <2>2, <2>3 DEF Fresh, Begun, windowVars
<1>11. CASE Base \/ StreamTime \/ FirstTime \/ Skip
  <2>1. /\ phase \in {"base", "time", "first", "skip"}
        /\ phase' \in {"time", "first", "skip", "sample"}
             \/ (phase' = "assert" /\ video'.skipped)
        /\ UNCHANGED <<windowVars, mappingVars, ghosts>>
    BY <1>11 DEF Base, StreamTime, FirstTime, Skip, Skipped
  <2>2. ~raced => (phase' = "time" => based')
    BY <1>11 DEF Base, StreamTime, FirstTime, Skip
  <2>3. ~raced => (phase' \in {"first", "skip", "sample"} => stream_time'.offset = clock')
    <3>1. CASE StreamTime
      BY <3>1 DEF StreamTime, Fresh
    <3>2. CASE Base
      BY <3>2 DEF Base
    <3>3. CASE FirstTime \/ Skip
      BY <3>3 DEF FirstTime, Skip, Fresh
    <3> QED
      BY <1>11, <3>1, <3>2, <3>3
  <2>4. ~raced => (phase' \in {"first", "skip", "sample"} => stream_time'.based = TRUE)
    <3>1. CASE StreamTime
      BY <3>1 DEF StreamTime, Fresh, Types, TypeOK
    <3>2. CASE Base
      BY <3>2 DEF Base
    <3>3. CASE FirstTime \/ Skip
      BY <3>3 DEF FirstTime, Skip, Fresh
    <3> QED
      BY <1>11, <3>1, <3>2, <3>3
  <2> QED
    BY <1>0, <2>1, <2>2, <2>3, <2>4 DEF Fresh, Begun, windowVars, mappingVars, ghosts
<1>2. CASE NoSignalFrame
  <2>1. /\ current_time_mapping'.from = current_time_mapping.from
        /\ next_time_mapping'.from = next_time_mapping.from
    BY <1>0, <1>2, AdvancedType DEF NoSignalFrame, OneFrameOn
  <2> QED
    BY <1>0, <1>2, <2>1 DEF NoSignalFrame, OneFrameOn, Fresh, Begun, windowVars, stamps
<1>3. CASE TakeSample
  <2>1. /\ phase = "sample"
        /\ UNCHANGED <<window_filled, mappingVars, clock, stream_time, stamps, ghosts>>
        /\ window_skip_count' = SkipCounted
    BY <1>3 DEF TakeSample
  <2>2. CASE window_skip_count = 0
    <3>1. /\ window' = [window EXCEPT ![window_fill + 1] =
                          [offset |-> stream_time.offset, from |-> Here]]
          /\ window_fill' = window_fill + 1
          /\ phase' = IF window_fill + 1 >= WindowSize THEN "complete" ELSE "regress"
      BY <1>3, <2>2 DEF TakeSample
    <3>2. ~raced => Here = "these"
      BY <2>1 DEF Here, Fresh
    <3>3. ~raced => \A i \in 1..WindowSize :
            window_filled \/ i <= window_fill + 1 => window'[i].from = "these"
      BY <1>0, <3>1, <3>2 DEF Fresh
    <3>4. Begun' => Begun
      BY <1>0, <2>1, <3>1 DEF Begun
    <3> QED
      BY <1>0, <2>1, <3>1, <3>3, <3>4 DEF Fresh, Begun, mappingVars, stamps, ghosts
  <2>3. CASE window_skip_count # 0
    <3>1. phase' = "approach" /\ UNCHANGED <<window, window_fill>>
      BY <1>3, <2>3 DEF TakeSample
    <3> QED
      BY <1>0, <2>1, <2>3, <3>1 DEF Fresh, Begun, mappingVars, stamps, ghosts
  <2> QED
    BY <2>2, <2>3
<1>4. CASE Complete
  BY <1>0, <1>4 DEF Complete, Fresh, Begun, mappingVars, stamps, ghosts
<1>5. CASE Regress
  <2>1. /\ phase = "regress" /\ phase' = "approach"
        /\ UNCHANGED <<windowVars, clock, stream_time, video, restarted, raced>>
    BY <1>5 DEF Regress, stamps
  <2>2. ~raced => Begun'
    BY <1>0, <2>1 DEF Fresh, Begun, windowVars
  <2>3. ~raced => current_time_mapping'.from = "these"
                  /\ (next_time_mapping_pending' => next_time_mapping'.from = "these")
    <3>1. CASE window_filled
      <4>1. /\ \/ next_time_mapping' \in Regressions
               \/ UNCHANGED <<next_time_mapping, next_time_mapping_pending>>
            /\ current_time_mapping' = current_time_mapping
        BY <1>5, <3>1 DEF Regress, NextMapping, NoNextMapping, mappingVars
      <4>2. ~raced => \A i \in 1..WindowSize : window[i].from = "these"
        BY <3>1 DEF Fresh
      <4>3. ~raced => (next_time_mapping_pending' => next_time_mapping'.from = "these")
        BY <1>0, <3>1, <4>1, <4>2, RegressionsType DEF Fresh, Begun
      <4> QED
        BY <3>1, <4>1, <4>3 DEF Fresh, Begun
    <3>2. CASE ~window_filled /\ window_fill = 1
      BY <1>5, <2>1, <3>2 DEF Regress, FirstMapping, Here, Fresh
    <3>3. CASE ~window_filled /\ window_fill # 1
      BY <1>0, <1>5, <2>1, <3>3 DEF Regress, mappingVars, Fresh, Begun
    <3> QED
      BY <3>1, <3>2, <3>3
  <2> QED
    BY <1>0, <2>1, <2>2, <2>3 DEF Fresh, Begun, windowVars
<1>6. CASE Approach
  <2>1. /\ phase = "approach" /\ phase' = "stamp"
        /\ UNCHANGED <<windowVars, next_time_mapping, stream_time, ghosts>>
    BY <1>6 DEF Approach
  <2>2. ~raced => current_time_mapping'.from = "these"
                  /\ (next_time_mapping_pending' => next_time_mapping_pending)
    <3>1. CASE next_time_mapping_pending
      <4>1. PICK d \in BOOLEAN :
              LET slowly == Approaching(current_time_mapping, next_time_mapping, d)
              IN  current_time_mapping' =
                    IF slowly THEN Closer(current_time_mapping, next_time_mapping)
                              ELSE next_time_mapping
        BY <1>6, <3>1 DEF Approach
      <4> QED
        BY <1>0, <2>1, <3>1, <4>1, CloserType DEF Fresh
    <3>2. CASE ~next_time_mapping_pending
      BY <1>6, <2>1, <3>2 DEF Approach, Fresh
    <3> QED
      BY <3>1, <3>2
  <2> QED
    BY <1>0, <2>1, <2>2 DEF Fresh, Begun, windowVars, ghosts
<1>12. CASE Timestamp
  <2>1. /\ phase = "stamp" /\ phase' = "assert"
        /\ UNCHANGED <<windowVars, mappingVars, ghosts>>
    BY <1>12 DEF Timestamp
  <2> QED
    BY <1>0, <2>1 DEF Fresh, Begun, windowVars, mappingVars, ghosts
<1>7. CASE GotPacket
  <2>1. /\ phase \in {"assert", "stream", "early", "map"}
        /\ phase' \in {"video", "aborted"} \/ phase' \in {"stream", "early", "map"}
        /\ UNCHANGED <<windowVars, mappingVars, video, ghosts>>
    BY <1>7 DEF GotPacket, Assert, PacketStreamTime, PacketSkip, Map, stamps
  <2> QED
    BY <1>0, <2>1 DEF Fresh, Begun, windowVars, mappingVars, ghosts
<1>8. CASE StartStreams
  <2>1. raced' = (phase # "video") /\ phase' = phase
    BY <1>8 DEF StartStreams
  <2>2. window_fill' = 0 /\ window_filled' = FALSE /\ window_skip_count' = 0
    BY <1>8 DEF StartStreams
  <2>3. CASE phase = "video"
    <3>1. ~Begun' /\ \A i \in 1..WindowSize : ~(i <= window_fill')
      BY <2>2 DEF Begun
    <3> QED
      BY <2>1, <2>2, <2>3, <3>1 DEF Fresh
  <2>4. CASE phase # "video"
    BY <2>1, <2>4 DEF Fresh
  <2> QED
    BY <2>3, <2>4
<1>9. CASE ClockJump
  BY <1>0, <1>9 DEF ClockJump, Fresh, Begun, windowVars, mappingVars, stamps
<1>10. CASE UNCHANGED vars
  BY <1>0, <1>10
  DEF vars, windowVars, mappingVars, baseVars, stamps, ghosts, Fresh, Begun
<1> QED
  BY <1>1, <1>2, <1>3, <1>4, <1>5, <1>6, <1>7, <1>8, <1>9, <1>10, <1>11, <1>12
  DEF Next, Capture, GotFrame, UpdateTimeMapping

\* The time of a frame comes from samples taken since the streams were started.
THEOREM Freshness == Spec => []FreshMapping
<1>1. Init => Fresh
  BY TimeMappingAssumption DEF Init, Fresh, Begun, Skipped
<1>2. Fresh => FreshMapping
  BY DEF Fresh, FreshMapping
<1> QED
  BY InitTypes, NextTypes, NextFresh, <1>1, <1>2, PTL DEF Spec

-----------------------------------------------------------------------------
\* A mapping that moves nowhere in a frame's time, and one that needs not move.
LEMMA AdvancedStill ==
  ASSUME NEW m \in Mapping, m.rate = 0
  PROVE  Advanced(m).offset = m.offset /\ Advanced(m).rate = 0
<1>1. m.offset \in -MaxOffset..MaxOffset /\ MaxOffset \in Nat
  BY TimeMappingAssumption DEF Mapping, Offsets
<1>2. Saturated(m.offset + m.rate) = m.offset
  BY <1>1 DEF Saturated
<1> QED
  BY <1>2 DEF Advanced, Mapping

LEMMA ArrivedAdopts ==
  ASSUME NEW c \in Mapping, NEW n \in Mapping, c.offset = n.offset, NEW d \in BOOLEAN
  PROVE  ~Approaching(c, n, d)
<1>1. Distance(c, n) = 0
  BY TimeMappingAssumption DEF Distance, Mapping, Offsets
<1> QED
  BY <1>1, TimeMappingAssumption DEF Approaching

\* The regression over a window of the clock's samples is the clock.
LEMMA ClockRegression ==
  ASSUME \A i \in 1..WindowSize : window[i].offset = clock,
         NEW m \in Regressions
  PROVE  m.offset = clock /\ m.rate = 0
<1>1. 1 \in 1..WindowSize
  BY TimeMappingAssumption
<1> QED
  BY <1>1 DEF Regressions

\* The times of the frames stay the capture times.
THEOREM OnClock == Spec => StaysOnClock
<1> DEFINE Good == /\ Synchronised'
                   /\ video' # video => video' \in {Skipped, Stamped(clock, TRUE)}
<1>1. ASSUME Types, Fresh, [Next]_vars, Synchronised, clock' = clock, jumps' = jumps, ~raced
      PROVE  Good
  <2> USE DEF Synchronised
  <2>0. /\ WindowSize \in Nat /\ WindowSize > 1
        /\ window \in [1..WindowSize -> Sample]
        /\ window_fill \in 0..WindowSize
        /\ current_time_mapping \in Mapping /\ next_time_mapping \in Mapping
        /\ phase = "complete" => window_fill = WindowSize
        /\ jumps \in Nat
    BY <1>1, TimeMappingAssumption DEF Types, TypeOK, Fresh
  <2>1. CASE Frame
    <3>1. /\ current_time_mapping' = Advanced(current_time_mapping)
          /\ next_time_mapping' = Advanced(next_time_mapping)
          /\ UNCHANGED <<windowVars, next_time_mapping_pending, video>>
      BY <2>1 DEF Frame, OneFrameOn, stamps
    <3> QED
      BY <1>1, <2>0, <3>1, AdvancedStill DEF windowVars
  <2>9. CASE Base \/ StreamTime \/ FirstTime \/ Skip
    <3>1. UNCHANGED <<windowVars, mappingVars>> /\ (video' = Skipped \/ video' = video)
      BY <2>9 DEF Base, StreamTime, FirstTime, Skip, stamps
    <3> QED
      BY <1>1, <3>1 DEF windowVars, mappingVars
  <2>10. CASE Timestamp
    <3>1. /\ UNCHANGED <<windowVars, mappingVars>> /\ phase = "stamp"
          /\ video' = Stamped(current_time_mapping.offset, stream_time.based)
      BY <2>10 DEF Timestamp
    <3>2. stream_time.based = TRUE
      BY <1>1, <3>1 DEF Fresh
    <3> QED
      BY <1>1, <3>1, <3>2 DEF windowVars, mappingVars
  <2>2. CASE TakeSample
    <3>1. UNCHANGED <<window_filled, mappingVars, video>> /\ stream_time.offset = clock
      BY <1>1, <2>2 DEF TakeSample, Fresh, stamps
    <3>2. CASE window_skip_count = 0
      <4>1. /\ window' = [window EXCEPT ![window_fill + 1] =
                            [offset |-> clock, from |-> Here]]
            /\ window_fill' = window_fill + 1
        BY <2>2, <3>1, <3>2 DEF TakeSample
      <4>2. ASSUME NEW i \in 1..WindowSize, window_filled \/ i <= window_fill + 1
            PROVE  window'[i].offset = clock
        BY <1>1, <2>0, <4>1, <4>2
      <4> QED
        BY <1>1, <3>1, <4>1, <4>2 DEF mappingVars
    <3>3. CASE window_skip_count # 0
      BY <1>1, <2>2, <3>1, <3>3 DEF TakeSample, mappingVars
    <3> QED
      BY <3>2, <3>3
  <2>3. CASE Complete
    <3>1. /\ phase = "complete" /\ UNCHANGED <<window, mappingVars, video>>
      BY <2>3 DEF Complete, stamps
    <3>2. \A i \in 1..WindowSize : window[i].offset = clock
      BY <1>1, <2>0, <3>1
    <3> QED
      BY <1>1, <3>1, <3>2 DEF mappingVars
  <2>4. CASE Regress
    <3>1. UNCHANGED <<windowVars, video>> /\ stream_time.offset = clock
      BY <1>1, <2>4 DEF Regress, Fresh, stamps
    <3>2. CASE window_filled
      <4>1. /\ next_time_mapping' \in Regressions
            /\ current_time_mapping' = current_time_mapping
        BY <1>1, <2>0, <2>4, <3>2 DEF Regress, NextMapping, NoNextMapping
      <4>2. next_time_mapping'.offset = clock /\ next_time_mapping'.rate = 0
        BY <1>1, <3>2, <4>1, ClockRegression
      <4> QED
        BY <1>1, <3>1, <4>1, <4>2 DEF windowVars
    <3>3. CASE ~window_filled /\ window_fill = 1
      <4>1. /\ current_time_mapping' = [offset |-> clock, rate |-> 0, from |-> Here]
            /\ next_time_mapping_pending' = FALSE
        BY <2>4, <3>1, <3>3 DEF Regress, FirstMapping
      <4> QED
        BY <1>1, <3>1, <4>1 DEF windowVars
    <3>4. CASE ~window_filled /\ window_fill # 1
      BY <1>1, <2>4, <3>1, <3>4 DEF Regress, windowVars, mappingVars
    <3> QED
      BY <3>2, <3>3, <3>4
  <2>5. CASE Approach
    <3>1. UNCHANGED <<windowVars, next_time_mapping, video>>
      BY <2>5 DEF Approach, stamps
    <3>2. CASE next_time_mapping_pending
      <4>1. PICK d \in BOOLEAN :
              LET slowly == Approaching(current_time_mapping, next_time_mapping, d)
              IN  /\ current_time_mapping' =
                       IF slowly THEN Closer(current_time_mapping, next_time_mapping)
                                 ELSE next_time_mapping
                  /\ next_time_mapping_pending' = slowly
        BY <2>5, <3>2 DEF Approach
      <4>2. ~Approaching(current_time_mapping, next_time_mapping, d)
        BY <1>1, <2>0, <3>2, ArrivedAdopts
      <4> QED
        BY <1>1, <3>1, <3>2, <4>1, <4>2 DEF windowVars
    <3>3. CASE ~next_time_mapping_pending
      <4>1. UNCHANGED <<current_time_mapping, next_time_mapping_pending>>
        BY <2>5, <3>3 DEF Approach
      <4> QED
        BY <1>1, <3>1, <4>1 DEF windowVars
    <3> QED
      BY <3>2, <3>3
  <2>6. CASE GotPacket
    <3>1. UNCHANGED <<windowVars, mappingVars, video>>
      BY <2>6 DEF GotPacket, Assert, PacketStreamTime, PacketSkip, Map, stamps
    <3> QED
      BY <1>1, <3>1 DEF windowVars, mappingVars
  <2>7. ~(NoSignalFrame \/ StartStreams \/ ClockJump)
    BY <1>1, <2>0 DEF NoSignalFrame, StartStreams, ClockJump
  <2>8. CASE UNCHANGED vars
    BY <1>1, <2>8 DEF vars, windowVars, mappingVars, stamps
  <2> HIDE DEF Good
  <2> QED
    BY <1>1, <2>1, <2>2, <2>3, <2>4, <2>5, <2>6, <2>7, <2>8, <2>9,
       <2>10
    DEF Next, Capture, GotFrame, UpdateTimeMapping
<1>2. Init => Fresh
  BY TimeMappingAssumption DEF Init, Fresh, Begun, Skipped
<1>3. ASSUME Types, Fresh, [Next]_vars
      PROVE  [Synchronised /\ clock' = clock /\ jumps' = jumps /\ ~raced => Good]_vars
  BY <1>1, <1>3
<1> QED
  BY InitTypes, NextTypes, NextFresh, <1>2, <1>3, PTL DEF Spec, StaysOnClock
=============================================================================
