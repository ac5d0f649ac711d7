------------------------- MODULE CaptureThreadProofs -------------------------
(***************************************************************************)
(* Proofs about CaptureThread, for any counter width and any bounds.       *)
(*                                                                         *)
(* The inductive invariant is made of four parts that lean on each other   *)
(* in this order: the types (with the room the bounds leave for the frame  *)
(* under way), the flags that tell whether a thread may end, the drop      *)
(* count, and the numbering of frames, which needs to know that the count  *)
(* only grows when the note of new drops is set.                           *)
(***************************************************************************)
EXTENDS CaptureThread, TLAPS

\* The types, and the bound of the frame under way.
Types ==
  /\ TypeOK
  /\ pc \in {"transfer", "stamp"} => processed < MaxFrames

\* Outside of Quit the flags that end the loop are not set under a thread, and
\* the pools go after the thread.
Control ==
  /\ EndsOnlyInQuit
  /\ CaptureHasPools
  /\ ctlPc = "free" => pc = "none"
  /\ ctlPc = "idle" => pc = "none" \/ (~mLastFrame /\ ~mGlobalQuit)

\* The next number to give is the one after the last frame handed out, unless
\* drops are noted; the frame under way was given its number in between.
Numbers ==
  IF pc = "video"
    THEN /\ video.number + 1 = processed + dropped
         /\ ~droppedNow
         /\ GapFlagged
    ELSE /\ frame.number + 1 <= processed + dropped
         /\ frame.number + 1 < processed + dropped => droppedNow

\* Both buffers tell the same of their capture, as soon as they tell it; the video
\* source is ahead by that capture between the callbacks, and only there.
InStep ==
  /\ pc \in {"stamp", "video", "videoOut", "audio"} => video.haveSignal = audio.haveSignal
  /\ pc \in {"video", "videoOut", "audio"} => Seen(video) = Seen(audio)
  /\ IF pc \in {"videoOut", "audio"}
       THEN frame = Seen(video) /\ packet.number < frame.number
       ELSE packet = frame

Inv == Types /\ Control /\ DropsCounted /\ Numbers /\ InStep

\* What the sources were given last has a number, -1 before the first frame.
LEMMA HandedTyped ==
  ASSUME BuffersOK
  PROVE  /\ frame \in Stream!Captures \/ frame = Stream!Nothing
         /\ packet \in Stream!Captures \/ packet = Stream!Nothing
         /\ frame.number \in Int
         /\ packet.number \in Int
<1>1. /\ frame \in Stream!Captures \/ frame = Stream!Nothing
      /\ packet \in Stream!Captures \/ packet = Stream!Nothing
  BY DEF BuffersOK
<1>2. \A c : c \in Stream!Captures \/ c = Stream!Nothing => c.number \in Int
  BY DEF Stream!Captures, Stream!Nothing
<1> QED
  BY <1>1, <1>2

\* What is seen of a buffer is a capture.
LEMMA SeenTyped ==
  ASSUME NEW b \in Buff
  PROVE  /\ Seen(b) \in Stream!Captures
         /\ Seen(b).number = b.number
         /\ Seen(b).dropped = b.droppedChanged
  BY DEF Seen, Buff, Stream!Captures

\* Before the first Run no thread exists and nothing was counted: every part of
\* the inductive invariant holds.
LEMMA InitInv == Init => Inv
<1> SUFFICES ASSUME Init PROVE Inv
  OBVIOUS
<1>1. FlagsOK /\ PlacesOK
  BY DEF Init, FlagsOK, PlacesOK
<1>2. CountersOK
  BY CaptureThreadAssumption DEF Init, CountersOK
<1>3. BuffersOK
  BY DEF Init, Buff, NoBuff, BuffersOK
<1>4. Control
  BY DEF Init, Control, EndsOnlyInQuit, CaptureHasPools
<1>5. DropsCounted
  BY CaptureThreadAssumption DEF Init, DropsCounted, Unpolled
<1>6. Numbers
  BY DEF Init, Numbers, Stream!Nothing
<1>7. InStep
  BY DEF Init, InStep
<1> QED
  BY <1>1, <1>2, <1>3, <1>4, <1>5, <1>6, <1>7 DEF Init, Inv, Types, TypeOK

\* A poll adds to dropped, but for the wrap, what the card dropped since.
LEMMA PollCounts ==
  ASSUME NEW last \in 0..(CounterMod - 1), NEW now \in 0..(CounterMod - 1)
  PROVE  /\ NewDrops(last, now) \in Nat
         /\ NewDrops(last, now) + (IF last > now THEN 1 ELSE 0)
              = IF now >= last THEN now - last ELSE now + CounterMod - last
  BY CaptureThreadAssumption DEF NewDrops

\* Every step keeps the variables in their types; the bounds on processed and
\* dropped need the places of the loop at which they may still grow.
LEMMA TypesStep ==
  ASSUME Types, Next
  PROVE  Types'
<1> USE CaptureThreadAssumption
<1> USE DEF Types, TypeOK, flags, control, counters, history, handed
<1>1. CASE Run
  <2>1. FlagsOK'
    BY <1>1 DEF Run, ResetFlags, FlagsOK
  <2>2. PlacesOK'
    BY <1>1 DEF Run, ResetFlags, PlacesOK
  <2>3. CountersOK' /\ (pc \in {"transfer", "stamp"} => processed < MaxFrames)'
    BY <1>1 DEF Run, ResetFlags, CountersOK, PlacesOK
  <2>4. BuffersOK'
    BY <1>1 DEF Run, ResetFlags, BuffersOK
  <2> QED
    BY <2>1, <2>2, <2>3, <2>4
<1>2. CASE Quit
  <2>1. FlagsOK'
    BY ZenonT(40), <1>2 DEF Quit, QuitBegin, QuitWaited, QuitStop, QuitJoined, QuitFree, FlagsOK
  <2>2. PlacesOK'
    BY <1>2 DEF Quit, QuitBegin, QuitWaited, QuitStop, QuitJoined, QuitFree, PlacesOK
  <2>3. CountersOK' /\ (pc \in {"transfer", "stamp"} => processed < MaxFrames)'
    BY <1>2 DEF Quit, QuitBegin, QuitWaited, QuitStop, QuitJoined, QuitFree,
                  CountersOK, PlacesOK
  <2>4. BuffersOK'
    BY <1>2 DEF Quit, QuitBegin, QuitWaited, QuitStop, QuitJoined, QuitFree, BuffersOK
  <2> QED
    BY <2>1, <2>2, <2>3, <2>4
<1>3. CASE Poll
  <2>0. NewDrops(lastDropped, acFramesDropped) \in Nat
    BY PollCounts DEF CountersOK
  <2>1. FlagsOK'
    BY <1>3 DEF Poll, GoesOn, FlagsOK
  <2>2. PlacesOK'
    BY <1>3 DEF Poll, GoesOn, PlacesOK
  <2>3. CountersOK' /\ (pc \in {"transfer", "stamp"} => processed < MaxFrames)'
    BY <1>3, <2>0 DEF Poll, GoesOn, CountersOK, PlacesOK
  <2>4. BuffersOK'
    BY <1>3 DEF Poll, GoesOn, BuffersOK
  <2> QED
    BY <2>1, <2>2, <2>3, <2>4
<1>4. CASE Stamp
  <2>1. FlagsOK'
    BY <1>4 DEF Stamp, DroppedChanged, FlagsOK
  <2>2. PlacesOK'
    BY <1>4 DEF Stamp, DroppedChanged, PlacesOK
  <2>3. CountersOK' /\ (pc \in {"transfer", "stamp"} => processed < MaxFrames)'
    BY <1>4 DEF Stamp, DroppedChanged, CountersOK, PlacesOK
  <2>4. BuffersOK'
    <3>1. processed + dropped \in Nat /\ DroppedChanged \in BOOLEAN /\ mLastFrame \in BOOLEAN
      BY DEF DroppedChanged, FlagsOK, CountersOK
    <3>2. video' \in Buff
      BY <1>4, <3>1 DEF Stamp, Buff, BuffersOK
    <3>3. audio' \in Buff
      BY <1>4, <3>1 DEF Stamp, Buff, BuffersOK
    <3> QED
      BY <1>4, <3>2, <3>3 DEF Stamp, BuffersOK
  <2> QED
    BY <2>1, <2>2, <2>3, <2>4
<1>5. CASE CardDrops
  <2>1. FlagsOK'
    BY <1>5 DEF CardDrops, FlagsOK
  <2>2. PlacesOK'
    BY <1>5 DEF CardDrops, PlacesOK
  <2>3. CountersOK' /\ (pc \in {"transfer", "stamp"} => processed < MaxFrames)'
    BY <1>5 DEF CardDrops, CountersOK, PlacesOK
  <2>4. BuffersOK'
    BY <1>5 DEF CardDrops, BuffersOK
  <2> QED
    BY <2>1, <2>2, <2>3, <2>4
<1>6. CASE Transfer
  <2>1. FlagsOK'
    BY <1>6 DEF Transfer, FlagsOK
  <2>2. PlacesOK'
    BY <1>6 DEF Transfer, PlacesOK
  <2>3. CountersOK' /\ (pc \in {"transfer", "stamp"} => processed < MaxFrames)'
    BY <1>6 DEF Transfer, CountersOK, PlacesOK
  <2>4. BuffersOK'
    BY <1>6 DEF Transfer, NoBuff, Buff, FlagsOK, BuffersOK
  <2> QED
    BY <2>1, <2>2, <2>3, <2>4
<1>7. CASE VideoCallback
  <2>1. FlagsOK'
    BY <1>7 DEF VideoCallback, FlagsOK
  <2>2. PlacesOK'
    BY <1>7 DEF VideoCallback, PlacesOK
  <2>3. CountersOK' /\ (pc \in {"transfer", "stamp"} => processed < MaxFrames)'
    BY <1>7 DEF VideoCallback, CountersOK, PlacesOK, Buff
  <2>4. BuffersOK'
    BY <1>7, SeenTyped DEF VideoCallback, BuffersOK
  <2> QED
    BY <2>1, <2>2, <2>3, <2>4
<1>8. CASE ExitLoop \/ VideoOut \/ AudioCallback
  <2>1. FlagsOK'
    BY ZenonT(40), <1>8 DEF ExitLoop, GoesOn, VideoOut, AudioCallback, FlagsOK
  <2>2. PlacesOK'
    BY <1>8 DEF ExitLoop, GoesOn, VideoOut, AudioCallback, PlacesOK
  <2>3. CountersOK' /\ (pc \in {"transfer", "stamp"} => processed < MaxFrames)'
    BY <1>8 DEF ExitLoop, GoesOn, VideoOut, AudioCallback, CountersOK, PlacesOK
  <2>4. BuffersOK'
    BY <1>8, SeenTyped DEF ExitLoop, GoesOn, VideoOut, AudioCallback, GivenPacket, BuffersOK
  <2> QED
    BY <2>1, <2>2, <2>3, <2>4
<1>9. CASE NoFrameLast \/ NoFrameWait \/ NoFrameLost \/ LostSlept
  <2>1. FlagsOK'
    BY ZenonT(40), <1>9 DEF NoFrameLast, NoFrameWait, NoFrameLost, LostSlept, CountIteration,
                MoreIterations, FlagsOK
  <2>2. PlacesOK'
    BY <1>9 DEF NoFrameLast, NoFrameWait, NoFrameLost, LostSlept, CountIteration,
                MoreIterations, PlacesOK
  <2>3. CountersOK' /\ (pc \in {"transfer", "stamp"} => processed < MaxFrames)'
    BY <1>9 DEF NoFrameLast, NoFrameWait, NoFrameLost, LostSlept, CountIteration,
                MoreIterations, CountersOK, PlacesOK
  <2>4. BuffersOK'
    BY <1>9 DEF NoFrameLast, NoFrameWait, NoFrameLost, LostSlept, BuffersOK
  <2> QED
    BY <2>1, <2>2, <2>3, <2>4
<1> QED
  BY <1>1, <1>2, <1>3, <1>4, <1>5, <1>6, <1>7, <1>8, <1>9 DEF Next, Worker

\* A worker never outlives its pools: Quit frees them only after it has joined
\* the thread, and only Run starts another.
LEMMA ControlStep ==
  ASSUME Types, Control, Next
  PROVE  Control'
<1> USE DEF Types, TypeOK, FlagsOK, PlacesOK, Control, EndsOnlyInQuit,
            CaptureHasPools, flags, control
<1>1. CASE Run
  BY <1>1 DEF Run, ResetFlags
<1>2. CASE Quit
  BY <1>2 DEF Quit, QuitBegin, QuitWaited, QuitStop, QuitJoined, QuitFree,
              ThreadInactive
<1>3. CASE ExitLoop \/ Poll \/ Transfer \/ Stamp
  BY <1>3 DEF ExitLoop, GoesOn, Poll, Transfer, Stamp
<1>4. CASE VideoCallback \/ VideoOut \/ AudioCallback
  <2>1. UNCHANGED <<mLastFrame, mGlobalQuit, pools, ctlPc>> /\ pc \notin {"none", "exited"}
    BY ZenonT(30), <1>4 DEF VideoCallback, VideoOut, AudioCallback
  <2>2. pc' \in {"videoOut", "audio", "loop"}
    BY <1>4 DEF VideoCallback, VideoOut, AudioCallback
  <2> QED
    BY <2>1, <2>2
<1>5. CASE NoFrameLast \/ NoFrameWait \/ NoFrameLost \/ LostSlept
  BY <1>5 DEF NoFrameLast, NoFrameWait, NoFrameLost, LostSlept
<1>6. CASE CardDrops
  BY <1>6 DEF CardDrops
<1> QED
  BY <1>1, <1>2, <1>3, <1>4, <1>5, <1>6 DEF Next, Worker

\* Each poll settles what the card dropped since the last one, less one at each
\* wrap of the card's counter.
LEMMA DropsStep ==
  ASSUME Types, DropsCounted, Next
  PROVE  DropsCounted'
<1> USE CaptureThreadAssumption
<1> USE DEF Types, TypeOK, CountersOK, DropsCounted, Unpolled, flags, control, counters, history, handed
<1>1. CASE Run
  BY <1>1 DEF Run
<1>2. CASE Quit
  BY <1>2 DEF Quit, QuitBegin, QuitWaited, QuitStop, QuitJoined, QuitFree
<1>3. CASE Poll
  <2>1. /\ NewDrops(lastDropped, acFramesDropped) \in Nat
        /\ NewDrops(lastDropped, acFramesDropped)
             + (IF lastDropped > acFramesDropped THEN 1 ELSE 0) = Unpolled
    BY PollCounts
  <2> QED
    BY <1>3, <2>1 DEF Poll, GoesOn
<1>4. CASE CardDrops
  BY <1>4 DEF CardDrops
<1>5. CASE ExitLoop \/ Transfer \/ Stamp \/ VideoCallback \/ VideoOut \/ AudioCallback
  BY <1>5 DEF ExitLoop, GoesOn, Transfer, Stamp, VideoCallback, VideoOut, AudioCallback
<1>6. CASE NoFrameLast \/ NoFrameWait \/ NoFrameLost \/ LostSlept
  BY <1>6 DEF NoFrameLast, NoFrameWait, NoFrameLost, LostSlept
<1> QED
  BY <1>1, <1>2, <1>3, <1>4, <1>5, <1>6 DEF Next, Worker

\* The numbers handed out follow frames and noted drops: a poll that adds drops
\* also leaves the mark the next frame carries.
LEMMA NumbersStep ==
  ASSUME Types, Numbers, Next
  PROVE  Numbers'
<1> USE CaptureThreadAssumption
<1> USE DEF Types, TypeOK, FlagsOK, CountersOK, Numbers, GapFlagged, flags,
            control, counters, history, handed
<1>0. frame.number \in Int
  BY HandedTyped
<1>1. CASE Run
  BY <1>1 DEF Run, Stream!Nothing
<1>2. CASE Quit
  BY <1>0, <1>2 DEF Quit, QuitBegin, QuitWaited, QuitStop, QuitJoined, QuitFree
<1>3. CASE Poll
  <2>1. NewDrops(lastDropped, acFramesDropped) \in Nat
    BY PollCounts
  <2> QED
    BY <1>0, <1>3, <2>1 DEF Poll, GoesOn
<1>4. CASE Stamp
  BY <1>0, <1>4 DEF Stamp, Buff, BuffersOK, DroppedChanged
<1>5. CASE VideoCallback
  BY <1>0, <1>5, SeenTyped DEF VideoCallback, Buff, BuffersOK
<1>6. CASE CardDrops
  BY <1>0, <1>6 DEF CardDrops
<1>7. CASE ExitLoop \/ Transfer \/ VideoOut \/ AudioCallback
  BY <1>0, <1>7 DEF ExitLoop, GoesOn, Transfer, VideoOut, AudioCallback
<1>8. CASE NoFrameLast \/ NoFrameWait \/ NoFrameLost \/ LostSlept
  BY <1>0, <1>8 DEF NoFrameLast, NoFrameWait, NoFrameLost, LostSlept
<1> QED
  BY <1>1, <1>2, <1>3, <1>4, <1>5, <1>6, <1>7, <1>8 DEF Next, Worker

\* The callbacks are given one capture after the other: a frame only when the last
\* one's packet was given, and nothing ends in between.
LEMMA InStepStep ==
  ASSUME Types, Control, Numbers, InStep, Next
  PROVE  InStep'
<1> USE DEF Types, TypeOK, PlacesOK, BuffersOK, InStep, flags, control, counters,
            history, handed
<1>1. CASE Run
  BY <1>1 DEF Run
<1>2. CASE Quit
  BY <1>2 DEF Quit, QuitBegin, QuitWaited, QuitStop, QuitJoined, QuitFree
<1>3. CASE Transfer
  BY <1>3 DEF Transfer, NoBuff
<1>4. CASE Stamp
  BY <1>4 DEF Stamp, Seen, Buff
<1>5. CASE VideoCallback
  BY <1>5, SeenTyped DEF VideoCallback, Numbers, GapFlagged
<1>6. CASE AudioCallback
  BY <1>6 DEF AudioCallback, GivenPacket
<1>7. CASE ExitLoop \/ Poll \/ VideoOut
  BY <1>7 DEF ExitLoop, Poll, VideoOut
<1>8. CASE NoFrameLast \/ NoFrameWait \/ NoFrameLost \/ LostSlept
  BY <1>8 DEF NoFrameLast, NoFrameWait, NoFrameLost, LostSlept
<1>9. CASE CardDrops
  BY <1>9 DEF CardDrops
<1> QED
  BY <1>1, <1>2, <1>3, <1>4, <1>5, <1>6, <1>7, <1>8, <1>9 DEF Next, Worker

\* The inductive invariant: types, the life of the thread and its pools, the
\* drop count and the frame numbers, kept by every step of Run, Quit and the loop.
THEOREM Invariance == Spec => []Inv
<1>1. Inv /\ [Next]_vars => Inv'
  <2> SUFFICES ASSUME Inv, [Next]_vars PROVE Inv'
    OBVIOUS
  <2>1. CASE Next
    BY <2>1, TypesStep, ControlStep, DropsStep, NumbersStep, InStepStep DEF Inv
  <2>2. CASE UNCHANGED vars
    BY <2>2 DEF Inv, Types, TypeOK, FlagsOK, CountersOK, PlacesOK, Control,
                EndsOnlyInQuit, CaptureHasPools,
                DropsCounted, Unpolled, Numbers, GapFlagged, BuffersOK, InStep, vars
  <2> QED
    BY <2>1, <2>2
<1> QED
  BY InitInv, <1>1, PTL DEF Spec

\* The variables keep to their types, and the number of frames, drops and
\* iterations to their bounds.
THEOREM TypeCorrect == Spec => []TypeOK
<1>1. Inv => TypeOK
  BY DEF Inv, Types
<1> QED
  BY Invariance, <1>1, PTL

\* A capture thread has its buffer pools from start to end, and only ends while
\* a Quit is under way, however Run, Quit and the loop interleave.
THEOREM ThreadLife == Spec => []ThreadWithinRun
<1>1. Inv => ThreadWithinRun
  BY DEF Inv, Control, ThreadWithinRun
<1> QED
  BY Invariance, <1>1, PTL

\* The 64-bit drop count differs from the drops by exactly the wraps of the
\* card's counter, whatever its width.
THEOREM DropCount == Spec => []DropsCounted
<1>1. Inv => DropsCounted
  BY DEF Inv
<1> QED
  BY Invariance, <1>1, PTL

\* Frame numbers grow, and a gap in them is flagged on the frame after it.
THEOREM GapsFlagged == Spec => []GapFlagged
<1>1. Inv => GapFlagged
  BY DEF Inv, Numbers, GapFlagged
<1> QED
  BY Invariance, <1>1, PTL

\* The thread implements FrameStream: every step hands out the next frame, or its
\* packet, or starts a stream anew when both are out, or changes neither.
THEOREM Streams == Spec => StreamSpec
<1>1. Init => Stream!Init
  BY DEF Init, Stream!Init
<1>2. Inv /\ [Next]_vars => [Stream!Next]_(Stream!vars)
  <2> SUFFICES ASSUME Inv, Next
               PROVE  [Stream!Next]_(Stream!vars)
    BY DEF vars, Stream!vars
  <2> USE DEF Inv, Types, TypeOK, InStep, Stream!Next, Stream!vars, control, counters,
              history, handed
  <2>1. CASE Run
    BY <2>1 DEF Run, Stream!Restart
  <2>2. CASE VideoCallback
    <3>1. frame' = Seen(video) /\ packet' = packet /\ packet = frame
      BY <2>2 DEF VideoCallback
    <3>2. /\ frame' \in Stream!Captures
          /\ frame'.number = video.number
          /\ frame'.dropped = video.droppedChanged
      BY <3>1, SeenTyped DEF BuffersOK
    <3>3. /\ video.number > frame.number
          /\ video.number > frame.number + 1 => video.droppedChanged
      BY <2>2 DEF VideoCallback, Numbers, GapFlagged
    <3> QED
      BY <3>1, <3>2, <3>3 DEF Stream!Frame
  <2>3. CASE AudioCallback
    <3>1. packet' = frame /\ UNCHANGED frame
      BY <2>3 DEF AudioCallback, GivenPacket
    <3>2. packet # frame
      BY <2>3, HandedTyped DEF AudioCallback
    <3> QED
      BY <3>1, <3>2 DEF Stream!Packet
  <2>4. CASE Quit
    BY <2>4 DEF Quit, QuitBegin, QuitWaited, QuitStop, QuitJoined, QuitFree
  <2>5. CASE ExitLoop \/ Poll \/ Transfer \/ Stamp \/ VideoOut
    BY <2>5 DEF ExitLoop, Poll, Transfer, Stamp, VideoOut
  <2>6. CASE NoFrameLast \/ NoFrameWait \/ NoFrameLost \/ LostSlept
    BY <2>6 DEF NoFrameLast, NoFrameWait, NoFrameLost, LostSlept
  <2>7. CASE CardDrops
    BY <2>7 DEF CardDrops
  <2> QED
    BY <2>1, <2>2, <2>3, <2>4, <2>5, <2>6, <2>7 DEF Next, Worker
<1> QED
  BY Invariance, <1>1, <1>2, PTL DEF Spec, StreamSpec, Stream!Spec

\* With mGlobalQuit set the thread can only go on to its end, wherever it is: the
\* safety half of QuitReturns.
THEOREM QuitIsBounded == Spec => QuitBounded
<1>1. Inv /\ [Next]_vars =>
        [mGlobalQuit /\ mGlobalQuit' /\ pc' # pc => StepsLeft' < StepsLeft]_vars
  <2> SUFFICES ASSUME Inv, Next, mGlobalQuit, mGlobalQuit', pc' # pc
               PROVE  StepsLeft' < StepsLeft
    OBVIOUS
  <2> USE DEF StepsLeft, control
  <2>1. CASE Run
    BY <2>1 DEF Run, ResetFlags
  <2>2. CASE Quit
    BY <2>2 DEF Quit, QuitBegin, QuitWaited, QuitStop, QuitJoined, QuitFree
  <2>3. CASE ExitLoop \/ Poll \/ Transfer \/ Stamp
    BY <2>3 DEF ExitLoop, Poll, GoesOn, Transfer, Stamp
  <2>4. CASE VideoCallback \/ VideoOut \/ AudioCallback
    <3>1. \/ pc = "video" /\ pc' = "videoOut"
          \/ pc = "videoOut" /\ pc' = "audio"
          \/ pc = "audio" /\ pc' = "loop"
      BY ZenonT(30), <2>4 DEF VideoCallback, VideoOut, AudioCallback
    <3> QED
      BY <3>1
  <2>5. CASE NoFrameLast \/ NoFrameWait \/ NoFrameLost \/ LostSlept
    BY <2>5 DEF NoFrameLast, NoFrameWait, NoFrameLost, LostSlept
  <2>6. CASE CardDrops
    BY <2>6 DEF CardDrops
  <2> QED
    BY <2>1, <2>2, <2>3, <2>4, <2>5, <2>6 DEF Next, Worker
<1> QED
  BY Invariance, <1>1, PTL DEF Spec, QuitBounded
=============================================================================
