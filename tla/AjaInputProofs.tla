--------------------------- MODULE AjaInputProofs ---------------------------
(***************************************************************************)
(* Theorems about the shared input, for any number of state changes,       *)
(* failed opens, runs and capture threads: the types and the lock, that    *)
(* the streams follow the elements' states, and that what starts the       *)
(* streams and the capture threads finds the device and the video source,  *)
(* in whatever order the two sources come and go.                          *)
(*                                                                         *)
(* StreamsFollowStates becomes inductive with two facts.  Phases: a        *)
(* streaming thread lives, and Quit runs, in certain states of the         *)
(* elements only; so a start never meets an element that was stopped.      *)
(* Present: with the video source out of NULL, start_streams is there, and *)
(* with it, by InputInPlace, the device, so a start that finds both        *)
(* sources ready does run; and an audio source that was started since it   *)
(* left READY is enabled, so its stop takes the callback away.             *)
(***************************************************************************)
EXTENDS AjaInput, TLAPS

Phases ==
  /\ vLive => vState = "PLAYING" \/ appPc = "vPlaying"
  /\ aLive => aState = "PLAYING"
  /\ appPc = "vPlaying" => vState = "PAUSED"
  /\ lock => vState = (IF closing THEN "READY" ELSE "PAUSED")

Present ==
  /\ vState # "NULL" => start_streams
  /\ audiosrc => WithAudio
  /\ aState \in {"PAUSED", "PLAYING"} /\ "started" \in played => audio_enabled

\* Streams run for an enabled video source only, and not after Quit.
Streams ==
  /\ thread # 0 => video_enabled
  /\ appPc = "done" => thread = 0

Inv == TypeOK /\ Phases /\ Present /\ Streams /\ InputInPlace /\ StreamsFollowStates

-----------------------------------------------------------------------------
\* What start_streams does: the capture threads are one more, or the same.

LEMMA RunTypes ==
  ASSUME CaptureOK, Run
  PROVE  /\ runs' \in 0..MaxRuns /\ thread' \in 0..runs' /\ thread' # 0
         /\ pc' \in [Threads -> Place]
         /\ {mLastFrame', mLastFrameVideoOut', mLastFrameAudioOut', mGlobalQuit'}
              \subseteq BOOLEAN
<1>1. runs \in Nat /\ MaxRuns \in Nat /\ runs < MaxRuns
  BY AjaInputAssumption DEF CaptureOK, Run
<1>2. runs + 1 \in 0..MaxRuns /\ runs + 1 # 0 /\ runs + 1 \in 0..(runs + 1)
  BY <1>1
<1>3. runs' = runs + 1 /\ thread' = runs + 1 /\ pc' = [pc EXCEPT ![runs + 1] = "loop"]
  BY DEF Run
<1>4. pc' \in [Threads -> Place]
  BY <1>3 DEF CaptureOK, Place
<1>5. {mLastFrame', mLastFrameVideoOut', mLastFrameAudioOut', mGlobalQuit'}
         \subseteq BOOLEAN
  BY DEF Run
<1> QED
  BY <1>2, <1>3, <1>4, <1>5

LEMMA StartTypes ==
  ASSUME CaptureOK, first_time \in BOOLEAN, NEW v, NEW a, StartStreams(v, a),
         UNCHANGED last
  PROVE  CaptureOK' /\ first_time' \in BOOLEAN
<1>1. CASE StreamsReady(v, a, VideoPlaying) /\ ntv2AV
  <2>1. Run /\ first_time' = FALSE
    BY <1>1 DEF StartStreams
  <2> QED
    BY <2>1, RunTypes DEF CaptureOK
<1>2. CASE ~(StreamsReady(v, a, VideoPlaying) /\ ntv2AV)
  <2>1. UNCHANGED <<flags, thread, runs, pc>> /\ first_time' \in BOOLEAN
    BY <1>2 DEF StartStreams
  <2> QED
    BY <2>1 DEF flags, CaptureOK
<1> QED
  BY <1>1, <1>2

\* Streams run afterwards if both sources are ready, and are not started
\* otherwise.
LEMMA StartRuns ==
  ASSUME CaptureOK, NEW v, NEW a, StartStreams(v, a)
  PROVE  /\ StreamsReady(v, a, VideoPlaying) /\ ntv2AV => thread' # 0
         /\ ~StreamsReady(v, a, VideoPlaying) => thread' = thread
  BY RunTypes DEF StartStreams

\* gst_aja_acquire_input makes a device with no thread, or leaves the one there is.
LEMMA AcquireTypes ==
  ASSUME CaptureOK, ntv2AV \in BOOLEAN, AcquireDevice, UNCHANGED <<runs, pc, last>>
  PROVE  /\ CaptureOK' /\ ntv2AV' = TRUE
         /\ thread' = IF ntv2AV THEN thread ELSE 0
<1>1. CASE ntv2AV
  BY <1>1 DEF AcquireDevice, flags, CaptureOK
<1>2. CASE ~ntv2AV
  <2>1. /\ ntv2AV' = TRUE /\ thread' = 0
        /\ {mLastFrame', mLastFrameVideoOut', mLastFrameAudioOut', mGlobalQuit'}
             \subseteq BOOLEAN
    BY <1>2 DEF AcquireDevice
  <2>2. 0 \in 0..runs
    BY DEF CaptureOK
  <2> QED
    BY <1>2, <2>1, <2>2 DEF CaptureOK
<1> QED
  BY <1>1, <1>2

\* A state change is one of at most MaxChanges, and happens while nothing else
\* does on the application's thread.
LEMMA ChangeTypes ==
  ASSUME AppOK, MayChange, Changed
  PROVE  changes' \in 0..MaxChanges /\ appPc = "idle" /\ ~lock
<1>1. changes \in Nat /\ MaxChanges \in Nat /\ changes < MaxChanges
  BY AjaInputAssumption DEF AppOK, MayChange
<1>2. changes + 1 \in 0..MaxChanges
  BY <1>1
<1> QED
  BY <1>2 DEF MayChange, Changed

\* A step after which the device and the video slot are as they were, and no more
\* threads run, leaves the input in place, if it does not use the device itself.
LEMMA InPlaceKept ==
  ASSUME InputInPlace, UNCHANGED <<ntv2AV, videosrc, start_streams>>,
         "video" \notin nullUse', \A w \in Threads : Running(w)' => Running(w)
  PROVE  InputInPlace'
<1>1. start_streams' => ntv2AV' /\ videosrc' = "video"
  BY DEF InputInPlace
<1>2. ASSUME NEW w \in Threads, Running(w)' PROVE ntv2AV' /\ videosrc' = "video"
  BY <1>2 DEF InputInPlace
<1> QED
  BY <1>1, <1>2 DEF InputInPlace

-----------------------------------------------------------------------------
\* The video source's state changes.

\* READY to PAUSED: the streams do not run yet.
LEMMA VideoPauseStep == ASSUME Inv, VideoPause PROVE Inv'
<1> USE DEF Inv, TypeOK, VideoPause
<1>1. ElementsOK'
  BY DEF ElementsOK, ElementState
<1>2. AppOK'
  BY ChangeTypes DEF AppOK
<1>3. InputOK'
  BY DEF UsesDevice, InputOK
<1>4. CaptureOK'
  BY DEF CaptureOK, flags, capture
<1>5. Phases' /\ Present' /\ Streams' /\ StreamsFollowStates'
  BY DEF MayChange, Phases, Present, Streams, StreamsFollowStates,
         StartedWhenReady, DisabledWhenStopped, CallbackGoesWithSource, capture
<1>6. InputInPlace'
  BY DEF UsesDevice, Present, InputInPlace, capture, Running
<1> QED
  BY <1>1, <1>2, <1>3, <1>4, <1>5, <1>6

\* PAUSED to PLAYING lets the streaming thread go.
LEMMA VideoPlayStep == ASSUME Inv, VideoPlay PROVE Inv'
<1> USE DEF Inv, TypeOK, VideoPlay
<1>1. ElementsOK'
  BY DEF ElementsOK
<1>2. AppOK'
  BY ChangeTypes DEF AppOK, Quitting
<1>3. InputOK'
  BY DEF InputOK, input
<1>4. CaptureOK'
  BY DEF CaptureOK, flags, capture
<1>5. Phases' /\ Present' /\ Streams' /\ StreamsFollowStates'
  BY DEF Phases, Present, Streams, StreamsFollowStates, StartedWhenReady,
         DisabledWhenStopped, CallbackGoesWithSource, input, capture
<1>6. InputInPlace'
  BY DEF InputInPlace, Running, input, capture
<1> QED
  BY <1>1, <1>2, <1>3, <1>4, <1>5, <1>6

\* PLAYING to PAUSED ends the streaming thread, not the streams.
LEMMA VideoUnplayStep == ASSUME Inv, VideoUnplay PROVE Inv'
<1> USE DEF Inv, TypeOK, VideoUnplay
<1>1. ElementsOK'
  BY DEF ElementsOK, ElementState
<1>2. AppOK'
  BY ChangeTypes DEF AppOK
<1>3. InputOK'
  BY DEF InputOK, input
<1>4. CaptureOK'
  BY DEF CaptureOK, flags, capture
<1>5. Phases' /\ Present' /\ Streams' /\ StreamsFollowStates'
  BY DEF Phases, Present, Streams, StreamsFollowStates, StartedWhenReady,
         DisabledWhenStopped, CallbackGoesWithSource, input, capture
<1>6. InputInPlace'
  BY DEF InputInPlace, Running, input, capture
<1> QED
  BY <1>1, <1>2, <1>3, <1>4, <1>5, <1>6

\* stop: a source that was not started has no streams to quit.
LEMMA VideoStopStep == ASSUME Inv, VideoStop PROVE Inv'
<1> USE DEF Inv, TypeOK, VideoStop
<1>1. ElementsOK'
  BY DEF ElementsOK, ElementState
<1>2. AppOK'
  BY ChangeTypes DEF AppOK, Quitting
<1>3. InputOK'
  BY DEF UsesDevice, InputOK, input
<1>4. CaptureOK'
  BY DEF CaptureOK, flags, capture
<1>5. Phases' /\ Present' /\ Streams' /\ StreamsFollowStates'
  BY DEF MayChange, Phases, Present, Streams, StreamsFollowStates,
         StartedWhenReady, DisabledWhenStopped, CallbackGoesWithSource, input, capture
<1>6. InputInPlace'
  <2>1. UNCHANGED <<ntv2AV, videosrc, start_streams, pc>>
    BY DEF input, capture
  <2>2. nullUse' = nullUse
    BY DEF UsesDevice, Present, InputInPlace
  <2> QED
    BY <2>1, <2>2 DEF InputInPlace, Running
<1> QED
  BY <1>1, <1>2, <1>3, <1>4, <1>5, <1>6

\* close goes to Quit with the lock held.
LEMMA VideoCloseStep == ASSUME Inv, VideoClose PROVE Inv'
<1> USE DEF Inv, TypeOK, VideoClose
<1>1. ElementsOK'
  BY DEF ElementsOK, elements
<1>2. AppOK'
  BY ChangeTypes DEF AppOK, Quitting
<1>3. InputOK'
  BY DEF InputOK, input
<1>4. CaptureOK'
  BY DEF CaptureOK, flags, capture
<1>5. Phases' /\ Present' /\ Streams' /\ StreamsFollowStates'
  <2>1. appPc' \in {"quit", "done"} /\ vState = "READY" /\ appPc = "idle"
    BY DEF MayChange
  <2>2. thread' = 0 /\ thread = 0
    BY <2>1 DEF StreamsFollowStates, DisabledWhenStopped, CallbackGoesWithSource, capture
  <2>3. Phases' /\ Present'
    BY <2>1 DEF Phases, Present, elements, input
  <2> QED
    BY <2>1, <2>2, <2>3 DEF Streams, StreamsFollowStates, StartedWhenReady,
                            DisabledWhenStopped, CallbackGoesWithSource, elements, input
<1>6. InputInPlace'
  <2>1. UNCHANGED <<ntv2AV, videosrc, start_streams, pc, nullUse>>
    BY DEF input, capture
  <2> QED
    BY <2>1, InPlaceKept DEF InputInPlace, Running
<1> QED
  BY <1>1, <1>2, <1>3, <1>4, <1>5, <1>6

-----------------------------------------------------------------------------
\* Quit.

\* Quit asks for the last frame, or for the end.
LEMMA QuitBeginStep == ASSUME Inv, QuitBegin PROVE Inv'
<1> USE DEF Inv, TypeOK, QuitBegin
<1>1. ElementsOK'
  BY DEF ElementsOK, elements
<1>2. AppOK'
  BY DEF AppOK, Quitting
<1>3. InputOK'
  BY DEF InputOK, input
<1>4. CaptureOK'
  BY DEF CaptureOK, capture
<1>5. Phases' /\ Present' /\ Streams' /\ StreamsFollowStates'
  BY DEF Phases, Present, Streams, StreamsFollowStates, StartedWhenReady,
         DisabledWhenStopped, CallbackGoesWithSource, elements, input, capture
<1>6. InputInPlace'
  BY DEF InputInPlace, Running, input, capture
<1> QED
  BY <1>1, <1>2, <1>3, <1>4, <1>5, <1>6

\* It has waited for the last frame long enough.
LEMMA QuitWaitedStep == ASSUME Inv, QuitWaited PROVE Inv'
<1> USE DEF Inv, TypeOK, QuitWaited
<1>1. ElementsOK'
  BY DEF ElementsOK, elements
<1>2. AppOK'
  BY DEF AppOK, Quitting
<1>3. InputOK'
  BY DEF InputOK, input
<1>4. CaptureOK'
  BY DEF CaptureOK, capture
<1>5. Phases' /\ Present' /\ Streams' /\ StreamsFollowStates'
  BY DEF Phases, Present, Streams, StreamsFollowStates, StartedWhenReady,
         DisabledWhenStopped, CallbackGoesWithSource, elements, input, capture
<1>6. InputInPlace'
  BY DEF InputInPlace, Running, input, capture
<1> QED
  BY <1>1, <1>2, <1>3, <1>4, <1>5, <1>6

\* It knows of no thread any more.
LEMMA QuitJoinedStep == ASSUME Inv, QuitJoined PROVE Inv'
<1> USE DEF Inv, TypeOK, QuitJoined
<1>1. ElementsOK'
  BY DEF ElementsOK, elements
<1>2. AppOK'
  BY DEF AppOK, Quitting
<1>3. InputOK'
  BY DEF InputOK, input
<1>4. CaptureOK'
  BY DEF CaptureOK, flags
<1>5. Phases' /\ Present' /\ Streams' /\ StreamsFollowStates'
  BY DEF Phases, Present, Streams, StreamsFollowStates, StartedWhenReady,
         DisabledWhenStopped, CallbackGoesWithSource, elements, input
<1>6. InputInPlace'
  BY DEF InputInPlace, Running, input
<1> QED
  BY <1>1, <1>2, <1>3, <1>4, <1>5, <1>6

\* stop leaves the source disabled, and no thread that it knows of.
LEMMA VideoStoppedStep == ASSUME Inv, VideoStopped PROVE Inv'
<1> USE DEF Inv, TypeOK, VideoStopped
<1>1. ElementsOK'
  BY DEF ElementsOK, ElementState
<1>2. AppOK'
  BY DEF AppOK, Quitting
<1>3. InputOK'
  BY DEF InputOK
<1>4. CaptureOK'
  BY DEF CaptureOK, flags, capture
<1>5. Phases' /\ Present' /\ Streams' /\ StreamsFollowStates'
  BY DEF Phases, Present, Streams, StreamsFollowStates, StartedWhenReady,
         DisabledWhenStopped, CallbackGoesWithSource, AppOK, capture
<1>6. InputInPlace'
  BY DEF InputInPlace, Running, capture
<1> QED
  BY <1>1, <1>2, <1>3, <1>4, <1>5, <1>6

\* So does close.
LEMMA VideoClosedStep == ASSUME Inv, VideoClosed PROVE Inv'
<1> USE DEF Inv, TypeOK, VideoClosed
<1>1. ElementsOK'
  BY DEF ElementsOK, ElementState
<1>2. AppOK'
  BY DEF AppOK, Quitting
<1>3. InputOK'
  BY DEF InputOK
<1>4. CaptureOK'
  <2>1. pc' \in [Threads -> Place]
    BY DEF CaptureOK, Place
  <2> QED
    BY <2>1 DEF CaptureOK, flags
<1>5. Phases' /\ Present' /\ Streams' /\ StreamsFollowStates'
  BY DEF Phases, Present, Streams, StreamsFollowStates, StartedWhenReady,
         DisabledWhenStopped, CallbackGoesWithSource, AppOK
<1>6. InputInPlace'
  BY DEF InputInPlace, Running, Active, CaptureOK
<1> QED
  BY <1>1, <1>2, <1>3, <1>4, <1>5, <1>6

-----------------------------------------------------------------------------
\* The audio source's state changes.

\* READY to PAUSED registers the callback.
LEMMA AudioPauseStep == ASSUME Inv, AudioPause PROVE Inv'
<1> USE DEF Inv, TypeOK, AudioPause
<1>1. ElementsOK'
  BY DEF ElementsOK, ElementState
<1>2. AppOK'
  BY ChangeTypes DEF AppOK
<1>3. InputOK'
  BY DEF UsesDevice, InputOK
<1>4. CaptureOK'
  BY DEF CaptureOK, flags, capture
<1>5. Phases' /\ Present' /\ Streams' /\ StreamsFollowStates'
  BY DEF Phases, Present, Streams, StreamsFollowStates, StartedWhenReady,
         DisabledWhenStopped, CallbackGoesWithSource, capture
<1>6. InputInPlace'
  <2>1. "video" \notin nullUse'
    BY DEF UsesDevice, InputInPlace
  <2>2. UNCHANGED <<ntv2AV, videosrc, start_streams>>
    OBVIOUS
  <2>3. \A w \in Threads : Running(w)' => Running(w)
    BY DEF capture, Running
  <2> QED
    BY <2>1, <2>2, <2>3, InPlaceKept
<1> QED
  BY <1>1, <1>2, <1>3, <1>4, <1>5, <1>6

\* PAUSED to PLAYING lets the streaming thread go.
LEMMA AudioPlayStep == ASSUME Inv, AudioPlay PROVE Inv'
<1> USE DEF Inv, TypeOK, AudioPlay
<1>1. ElementsOK'
  BY DEF ElementsOK, ElementState
<1>2. AppOK'
  BY ChangeTypes DEF AppOK
<1>3. InputOK'
  BY DEF InputOK, input
<1>4. CaptureOK'
  BY DEF CaptureOK, flags, capture
<1>5. Phases' /\ Present' /\ Streams' /\ StreamsFollowStates'
  BY DEF Phases, Present, Streams, StreamsFollowStates, StartedWhenReady,
         DisabledWhenStopped, CallbackGoesWithSource, input, capture
<1>6. InputInPlace'
  BY DEF InputInPlace, Running, input, capture
<1> QED
  BY <1>1, <1>2, <1>3, <1>4, <1>5, <1>6

\* PLAYING to PAUSED ends it.
LEMMA AudioUnplayStep == ASSUME Inv, AudioUnplay PROVE Inv'
<1> USE DEF Inv, TypeOK, AudioUnplay
<1>1. ElementsOK'
  BY DEF ElementsOK, ElementState
<1>2. AppOK'
  BY ChangeTypes DEF AppOK
<1>3. InputOK'
  BY DEF InputOK, input
<1>4. CaptureOK'
  BY DEF CaptureOK, flags, capture
<1>5. Phases' /\ Present' /\ Streams' /\ StreamsFollowStates'
  BY DEF Phases, Present, Streams, StreamsFollowStates, StartedWhenReady,
         DisabledWhenStopped, CallbackGoesWithSource, input, capture
<1>6. InputInPlace'
  BY DEF InputInPlace, Running, input, capture
<1> QED
  BY <1>1, <1>2, <1>3, <1>4, <1>5, <1>6

\* stop leaves the source disabled.
LEMMA AudioStopStep == ASSUME Inv, AudioStop PROVE Inv'
<1> USE DEF Inv, TypeOK, AudioStop
<1>1. ElementsOK'
  BY DEF ElementsOK, ElementState
<1>2. AppOK'
  BY ChangeTypes DEF AppOK
<1>3. InputOK'
  BY DEF UsesDevice, InputOK
<1>4. CaptureOK'
  BY DEF CaptureOK, flags, capture
<1>5. Phases' /\ Present' /\ Streams' /\ StreamsFollowStates'
  BY DEF Phases, Present, Streams, StreamsFollowStates, StartedWhenReady,
         DisabledWhenStopped, CallbackGoesWithSource, capture
<1>6. InputInPlace'
  <2>1. "video" \notin nullUse'
    <3>1. CASE audio_enabled
      <4>1. UsesDevice("audio stop")
        BY <3>1
      <4> QED
        BY <4>1 DEF UsesDevice, InputInPlace
    <3>2. CASE ~audio_enabled
      BY <3>2 DEF InputInPlace
    <3> QED
      BY <3>1, <3>2
  <2>2. UNCHANGED <<ntv2AV, videosrc, start_streams>>
    OBVIOUS
  <2>3. \A w \in Threads : Running(w)' => Running(w)
    BY DEF capture, Running
  <2> QED
    BY <2>1, <2>2, <2>3, InPlaceKept
<1> QED
  BY <1>1, <1>2, <1>3, <1>4, <1>5, <1>6

\* So does close.
LEMMA AudioCloseStep == ASSUME Inv, AudioClose PROVE Inv'
<1> USE DEF Inv, TypeOK, AudioClose
<1>1. ElementsOK'
  BY DEF ElementsOK, ElementState
<1>2. AppOK'
  BY ChangeTypes DEF AppOK
<1>3. InputOK'
  BY DEF InputOK
<1>4. CaptureOK'
  BY DEF CaptureOK, flags, capture
<1>5. Phases' /\ Present' /\ Streams' /\ StreamsFollowStates'
  BY DEF Phases, Present, Streams, StreamsFollowStates, StartedWhenReady,
         DisabledWhenStopped, CallbackGoesWithSource, capture
<1>6. InputInPlace'
  BY DEF InputInPlace, Running, capture
<1> QED
  BY <1>1, <1>2, <1>3, <1>4, <1>5, <1>6

-----------------------------------------------------------------------------
\* The capture threads.

\* An iteration changes the thread's own place and last frame, first_time and the
\* flags, and nothing that the elements' states have to agree with.
LEMMA WorkerStep == ASSUME Inv, NEW w \in Threads, Worker(w) PROVE Inv'
<1> DEFINE Flags == {mLastFrame, mLastFrameVideoOut, mLastFrameAudioOut, mGlobalQuit}
<1>1. UNCHANGED <<elements, app, input, thread, runs, nullUse>>
  BY DEF Worker, WorkerEnd, WorkerFrame, WorkerNoFrame, VideoCallback,
         AudioCallback, GotPacketLocked, GotPacket
<1>2. /\ Flags \subseteq BOOLEAN /\ first_time \in BOOLEAN
      /\ vCallback \in BOOLEAN /\ video_enabled \in BOOLEAN
      /\ pc \in [Threads -> Place] /\ last \in [Threads -> BOOLEAN]
      /\ last[w] \in BOOLEAN
  BY DEF Inv, TypeOK, InputOK, CaptureOK
<1>3. /\ \E p \in Place : Goto(w, p)
      /\ last' = last \/ last' = [last EXCEPT ![w] = mLastFrame]
  BY DEF Worker, WorkerEnd, WorkerFrame, WorkerNoFrame, VideoCallback,
         AudioCallback, GotPacketLocked, GotPacket, Place
<1>4. pc' \in [Threads -> Place] /\ last' \in [Threads -> BOOLEAN]
  BY <1>2, <1>3 DEF Goto
<1>5. Flags' \subseteq BOOLEAN /\ first_time' \in BOOLEAN
  <2>1. CASE WorkerEnd(w) \/ WorkerFrame(w) \/ GotPacketLocked(w)
    BY <1>2, <2>1 DEF WorkerEnd, WorkerFrame, GotPacketLocked, flags
  <2>2. CASE WorkerNoFrame(w)
    BY <1>2, <2>2 DEF WorkerNoFrame
  <2>3. CASE VideoCallback(w)
    BY <1>2, <2>3 DEF VideoCallback
  <2>4. CASE AudioCallback(w) \/ GotPacket(w)
    BY <1>2, <2>4 DEF AudioCallback, GotPacket
  <2> QED
    BY <2>1, <2>2, <2>3, <2>4 DEF Worker
<1>6. ElementsOK' /\ AppOK'
  BY <1>1 DEF Inv, TypeOK, ElementsOK, AppOK, elements, app
<1>7. InputOK'
  BY <1>1, <1>5 DEF Inv, TypeOK, InputOK, input
<1>8. CaptureOK'
  BY <1>1, <1>4, <1>5 DEF Inv, TypeOK, CaptureOK
<1>9. Phases' /\ Present' /\ Streams' /\ StreamsFollowStates'
  BY <1>1 DEF Inv, Phases, Present, Streams, StreamsFollowStates, StartedWhenReady,
              DisabledWhenStopped, CallbackGoesWithSource, elements, app, input
<1>10. InputInPlace'
  <2>1. Running(w)
    BY DEF Running, Worker, WorkerEnd, WorkerFrame, WorkerNoFrame, VideoCallback,
           AudioCallback, GotPacketLocked, GotPacket, At
  <2>2. \A u \in Threads : Running(u)' => Running(u)
    BY <1>2, <1>3, <2>1 DEF Running, Goto
  <2> QED
    BY <1>1, <2>2 DEF Inv, InputInPlace, input
<1> QED
  BY <1>6, <1>7, <1>8, <1>9, <1>10 DEF Inv, TypeOK

-----------------------------------------------------------------------------
\* The opens and the starts.

\* A failed open leaves the element in NULL, with its slot and perhaps a device.
LEMMA VideoOpenStep == ASSUME Inv, NEW ok \in BOOLEAN, VideoOpen(ok) PROVE Inv'
<1> USE DEF Inv, TypeOK, VideoOpen
<1>1. CaptureOK' /\ ntv2AV' = TRUE /\ thread' = IF ntv2AV THEN thread ELSE 0
  BY AcquireTypes DEF InputOK
<1>2. ElementsOK'
  BY DEF ElementsOK, ElementState
<1>3. AppOK'
  <2>1. failures' \in 0..MaxFailures
    BY AjaInputAssumption DEF AppOK
  <2> QED
    BY <2>1, ChangeTypes DEF AppOK, Quitting
<1>4. InputOK'
  BY <1>1 DEF InputOK
<1>5. Phases' /\ Present' /\ Streams' /\ StreamsFollowStates'
  BY <1>1 DEF MayChange, Phases, Present, Streams, StreamsFollowStates, StartedWhenReady,
              DisabledWhenStopped, CallbackGoesWithSource, ElementsOK, ElementState,
              AppOK, Quitting
<1>6. InputInPlace'
  BY <1>1 DEF InputInPlace, Running
<1> QED
  BY <1>1, <1>2, <1>3, <1>4, <1>5, <1>6

LEMMA AudioOpenStep == ASSUME Inv, NEW ok \in BOOLEAN, AudioOpen(ok) PROVE Inv'
<1> USE DEF Inv, TypeOK, AudioOpen
<1>1. CaptureOK' /\ ntv2AV' = TRUE /\ thread' = IF ntv2AV THEN thread ELSE 0
  BY AcquireTypes DEF InputOK
<1>2. ElementsOK'
  BY DEF ElementsOK, ElementState
<1>3. AppOK'
  <2>1. failures' \in 0..MaxFailures
    BY AjaInputAssumption DEF AppOK
  <2> QED
    BY <2>1, ChangeTypes DEF AppOK, Quitting
<1>4. InputOK'
  BY <1>1 DEF InputOK
<1>5. Phases' /\ Present' /\ Streams' /\ StreamsFollowStates'
  BY <1>1 DEF MayChange, Phases, Present, Streams, StreamsFollowStates, StartedWhenReady,
              DisabledWhenStopped, CallbackGoesWithSource, ElementsOK, ElementState,
              AppOK, Quitting
<1>6. InputInPlace'
  BY <1>1 DEF InputInPlace, Running
<1> QED
  BY <1>1, <1>2, <1>3, <1>4, <1>5, <1>6

\* The video source is live, so out of READY, and finds start_streams and the
\* device: if the audio source is enabled, or not there, the streams run.
LEMMA VideoStartStep == ASSUME Inv, VideoStart PROVE Inv'
<1> USE DEF Inv, TypeOK, VideoStart
<1>1. /\ vState = "PLAYING" \/ (appPc = "vPlaying" /\ vState = "PAUSED")
      /\ ntv2AV /\ start_streams /\ videosrc = "video"
  BY DEF Phases, Present, InputInPlace
<1>2. StartStreams(TRUE, audio_enabled) /\ first_time \in BOOLEAN
  BY <1>1 DEF InputOK
<1>3. CaptureOK' /\ first_time' \in BOOLEAN
  BY <1>2, StartTypes
<1>4. ElementsOK' /\ AppOK'
  BY DEF ElementsOK, AppOK, elements, app
<1>5. InputOK'
  BY <1>3 DEF InputOK
<1>6. Phases' /\ Present' /\ Streams'
  BY <1>1 DEF Phases, Present, Streams, elements, app, AppOK, Quitting
<1>7. InputInPlace'
  BY <1>1 DEF InputInPlace
<1>8. StreamsFollowStates'
  <2>1. (WithAudio => audio_enabled) => thread' # 0
    BY <1>1, <1>2, StartRuns DEF StreamsReady, VideoPlaying, Present
  <2> QED
    BY <1>1, <2>1
       DEF StreamsFollowStates, StartedWhenReady, DisabledWhenStopped,
           CallbackGoesWithSource, elements, app
<1> QED
  BY <1>3, <1>4, <1>5, <1>6, <1>7, <1>8

\* The audio source is live; if the video source is enabled and PLAYING, the
\* streams run.
LEMMA AudioStartStep == ASSUME Inv, AudioStart PROVE Inv'
<1> USE DEF Inv, TypeOK, AudioStart
<1>1. aState = "PLAYING" /\ first_time \in BOOLEAN
  BY DEF Phases, InputOK
<1>2. CaptureOK' /\ first_time' \in BOOLEAN
  <2>1. CASE start_streams /\ videosrc # "none"
    BY <1>1, <2>1, StartTypes
  <2>2. CASE ~(start_streams /\ videosrc # "none")
    BY <1>1, <2>2 DEF CaptureOK, flags
  <2> QED
    BY <2>1, <2>2
<1>3. ElementsOK' /\ AppOK'
  BY DEF ElementsOK, AppOK, elements, app
<1>4. InputOK'
  BY <1>2 DEF InputOK
<1>5. thread' # thread => video_enabled /\ VideoPlaying
  <2>1. CASE start_streams /\ videosrc # "none"
    <3>1. StartStreams(video_enabled, TRUE)
      BY <2>1
    <3>2. ~StreamsReady(video_enabled, TRUE, VideoPlaying) => thread' = thread
      BY <3>1, StartRuns
    <3>3. StreamsReady(video_enabled, TRUE, VideoPlaying) => video_enabled /\ VideoPlaying
      BY DEF StreamsReady
    <3> QED
      BY <3>2, <3>3
  <2>2. CASE ~(start_streams /\ videosrc # "none")
    BY <2>2
  <2> QED
    BY <2>1, <2>2
<1>6. ASSUME vState = "PLAYING", video_enabled PROVE thread' # 0
  <2>1. start_streams /\ videosrc # "none" /\ ntv2AV
    <3>1. start_streams
      BY <1>6 DEF Present
    <3> QED
      BY <3>1 DEF InputInPlace
  <2>2. StartStreams(video_enabled, TRUE)
    BY <2>1
  <2>3. StreamsReady(video_enabled, TRUE, VideoPlaying)
    BY <1>6 DEF StreamsReady, VideoPlaying
  <2> QED
    BY <2>1, <2>2, <2>3, StartRuns
<1>7. Phases' /\ Present' /\ Streams'
  <2>1. Phases' /\ Present'
    BY DEF Phases, Present, elements, app
  <2>2. thread' # 0 => video_enabled
    BY <1>5 DEF Streams
  <2>3. appPc = "done" => thread' = thread
    BY <1>5 DEF Phases, VideoPlaying, AppOK, Quitting
  <2> QED
    BY <2>1, <2>2, <2>3 DEF Streams, app
<1>8. StreamsFollowStates'
  BY <1>1, <1>5, <1>6
     DEF StreamsFollowStates, StartedWhenReady, DisabledWhenStopped,
           CallbackGoesWithSource, elements, app
<1>9. InputInPlace'
  <2>1. CASE start_streams
    BY <2>1 DEF InputInPlace
  <2>2. CASE ~start_streams
    BY <2>2, InPlaceKept DEF InputInPlace, Running
  <2> QED
    BY <2>1, <2>2
<1> QED
  BY <1>2, <1>3, <1>4, <1>7, <1>8, <1>9

\* The state change to PLAYING looks once more whether the streams can start.
LEMMA VideoPlayedStep == ASSUME Inv, VideoPlayed PROVE Inv'
<1> USE DEF Inv, TypeOK, VideoPlayed
<1>1. /\ vState = "PAUSED" /\ first_time \in BOOLEAN
      /\ ntv2AV /\ start_streams /\ videosrc = "video"
  BY DEF Phases, Present, InputInPlace, InputOK
<1>2. StartStreams(video_enabled, audio_enabled)
  BY <1>1
<1>3. CaptureOK' /\ first_time' \in BOOLEAN
  BY <1>1, <1>2, StartTypes
<1>4. ElementsOK'
  BY DEF ElementsOK, ElementState
<1>5. AppOK'
  BY DEF AppOK, Quitting
<1>6. InputOK'
  BY <1>3 DEF InputOK, input
<1>7. thread' # thread => video_enabled
  BY <1>2, StartRuns DEF StreamsReady
<1>8. video_enabled /\ (WithAudio => audio_enabled) => thread' # 0
  BY <1>1, <1>2, StartRuns DEF StreamsReady, VideoPlaying, Present
<1>9. Phases' /\ Present' /\ Streams' /\ StreamsFollowStates'
  BY <1>1, <1>7, <1>8
     DEF Phases, Present, Streams, StreamsFollowStates, StartedWhenReady,
         DisabledWhenStopped, CallbackGoesWithSource, input
<1>10. InputInPlace'
  BY <1>1 DEF InputInPlace, input
<1> QED
  BY <1>3, <1>4, <1>5, <1>6, <1>9, <1>10

-----------------------------------------------------------------------------
\* The theorems.

LEMMA InitInv == Init => Inv
<1> SUFFICES ASSUME Init PROVE Inv
  OBVIOUS
<1>0. 0 \in 0..MaxChanges /\ 0 \in 0..MaxFailures /\ 0 \in 0..MaxRuns /\ 0 \in 0..0
  BY AjaInputAssumption
<1>1. ElementsOK /\ AppOK
  BY <1>0 DEF Init, ElementsOK, ElementState, AppOK, Quitting
<1>2. InputOK
  BY DEF Init, InputOK
<1>3. CaptureOK
  BY <1>0 DEF Init, CaptureOK, Place
<1>4. Phases /\ Present /\ Streams /\ StreamsFollowStates
  BY DEF Init, Phases, Present, Streams, StreamsFollowStates, StartedWhenReady,
         DisabledWhenStopped, CallbackGoesWithSource
<1>5. InputInPlace
  BY DEF Init, InputInPlace, Running
<1> QED
  BY <1>1, <1>2, <1>3, <1>4, <1>5 DEF Inv, TypeOK

\* The invariant of both elements' state changes, their starts, Quit and the
\* capture threads.
THEOREM Invariance == Spec => []Inv
<1>1. Inv /\ [Next]_vars => Inv'
  <2> SUFFICES ASSUME Inv, [Next]_vars PROVE Inv'
    OBVIOUS
  <2>1. CASE \E ok \in BOOLEAN : VideoOpen(ok) \/ AudioOpen(ok)
    BY <2>1, VideoOpenStep, AudioOpenStep
  <2>2. CASE VideoPause \/ VideoPlay \/ VideoPlayed \/ VideoUnplay \/ VideoStop \/ VideoClose
    BY <2>2, VideoPauseStep, VideoPlayStep, VideoPlayedStep, VideoUnplayStep,
       VideoStopStep, VideoCloseStep
  <2>3. CASE AudioPause \/ AudioPlay \/ AudioUnplay \/ AudioStop \/ AudioClose
    BY <2>3, AudioPauseStep, AudioPlayStep, AudioUnplayStep, AudioStopStep, AudioCloseStep
  <2>4. CASE Quit
    BY <2>4, QuitBeginStep, QuitWaitedStep, QuitJoinedStep, VideoStoppedStep,
       VideoClosedStep DEF Quit
  <2>5. CASE VideoStart \/ AudioStart
    BY <2>5, VideoStartStep, AudioStartStep
  <2>6. CASE \E w \in Threads : Worker(w)
    BY <2>6, WorkerStep
  <2>7. CASE UNCHANGED vars
    <3>1. TypeOK'
      BY <2>7 DEF vars, Inv, TypeOK, ElementsOK, AppOK, InputOK, CaptureOK
    <3>2. Phases' /\ Present' /\ Streams'
      BY <2>7 DEF vars, Inv, Phases, Present, Streams
    <3>3. InputInPlace' /\ StreamsFollowStates'
      BY <2>7 DEF vars, Inv, StreamsFollowStates, StartedWhenReady, DisabledWhenStopped,
                  CallbackGoesWithSource, InputInPlace, Running
    <3> QED
      BY <3>1, <3>2, <3>3 DEF Inv
  <2> QED
    BY <2>1, <2>2, <2>3, <2>4, <2>5, <2>6, <2>7 DEF Next
<1> QED
  BY <1>1, InitInv, PTL DEF Spec

\* Types, and input->lock is held by stop and close over Quit and by nothing else
\* for longer than one step.
THEOREM TypeCorrect == Spec => []TypeOK
<1>1. Inv => TypeOK
  BY DEF Inv
<1> QED
  BY <1>1, Invariance, PTL

\* Whatever order the two streaming threads' starts and the state changes come
\* in, the streams run when both sources are ready, and no element that was
\* stopped is left enabled, nor its audio callback registered once it was served.
THEOREM StreamsFollow == Spec => []StreamsFollowStates
<1>1. Inv => StreamsFollowStates
  BY DEF Inv
<1> QED
  BY <1>1, Invariance, PTL

\* Whatever order the two sources are opened, fail, shut down and are opened again in,
\* the streams are started and run with the device and the video source in their
\* places; got_packet never finds its video source gone, nor an audio source there.
THEOREM InputThere == Spec => []InputInPlace
<1>1. Inv => InputInPlace
  BY DEF Inv
<1> QED
  BY <1>1, Invariance, PTL
=============================================================================
