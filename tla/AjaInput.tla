------------------------------ MODULE AjaInput ------------------------------
(***************************************************************************)
(* One GstAjaInput shared by a video source, an audio source and the       *)
(* capture threads of its NTV2GstAV: opening, starting, stopping and       *)
(* closing the two elements (gstajavideosrc.cpp, gstajaaudiosrc.cpp,       *)
(* gst_aja_acquire_input in gstaja.cpp, Run and Quit in gstntv2.cpp).      *)
(*                                                                         *)
(* The application's thread changes the elements' states one step at a     *)
(* time.  A source's streaming thread is live from the middle of           *)
(* PAUSED->PLAYING, where the parent's change_state lets it go, to the     *)
(* middle of PLAYING->PAUSED, and calls create, whose first part is        *)
(* start().  Every Run makes one more capture thread.                      *)
(*                                                                         *)
(* input->lock is held over whole critical sections; only Quit waits while *)
(* it is held, so only Quit is split.  Frames and queues are those of      *)
(* VideoQueue and are left out; of a frame remains whether it was captured *)
(* after the last one was asked for.                                       *)
(***************************************************************************)
EXTENDS Integers

CONSTANTS
  WithAudio,    \* an audio source is part of the application
  Resume,       \* the application may go from PAUSED back to PLAYING
  MaxChanges,   \* bound: state changes of the application
  MaxRuns,      \* bound: calls of Run, and so capture threads
  MaxFailures   \* bound: failures of Open, Init or InitAudio

ASSUME AjaInputAssumption ==
  /\ WithAudio \in BOOLEAN
  /\ Resume \in BOOLEAN
  /\ MaxChanges \in Nat
  /\ MaxRuns \in Nat
  /\ MaxFailures \in Nat

VARIABLES
  vState, aState,    \* states of the two elements
  changes, failures, \* state changes and failed opens so far
  appPc,             \* where the application's thread is
  closing,           \* it is in close, not in stop
  vLive, aLive,      \* the streaming threads may call create
  lock,              \* input->lock is held by the application's thread in Quit
  ntv2AV,            \* input->ntv2AV is there
  videosrc,          \* whose element the video slot of the input holds
  audiosrc,          \* the audio slot is taken
  video_enabled, audio_enabled,
  start_streams,     \* input->start_streams is set
  vCallback, aCallback,         \* the callbacks are registered
  aInput,            \* the audio source's src->input is set
  mLastFrame, mLastFrameVideoOut, mLastFrameAudioOut, mGlobalQuit,
  thread,            \* mACInputThread, 0 for NULL
  runs,              \* calls of Run so far; capture threads are numbered by them
  pc,                \* where each capture thread is
  last,              \* lastFrame of the frame it carries
  first_time,        \* the video source's first_time is set
  played,            \* history: elements that have been PLAYING since READY, and
                     \* whether the audio source was started since it left READY
  nullUse            \* history: who used ntv2AV while it was NULL

Threads == 1..MaxRuns

elements == <<vState, aState, vLive, aLive, played>>
input == <<ntv2AV, videosrc, audiosrc, video_enabled, audio_enabled, start_streams,
           vCallback, aCallback, aInput>>
flags == <<mLastFrame, mLastFrameVideoOut, mLastFrameAudioOut, mGlobalQuit>>
capture == <<thread, runs, pc, last>>
app == <<changes, failures, appPc, closing, lock>>
vars == <<vState, aState, changes, failures, appPc, closing, vLive, aLive, lock, ntv2AV,
          videosrc, audiosrc, video_enabled, audio_enabled, start_streams,
          vCallback, aCallback, aInput, mLastFrame, mLastFrameVideoOut,
          mLastFrameAudioOut, mGlobalQuit, thread, runs, pc, last, first_time,
          played, nullUse>>

Init ==
  /\ vState = "NULL" /\ aState = "NULL"
  /\ changes = 0 /\ failures = 0
  /\ appPc = "idle"
  /\ closing = FALSE
  /\ vLive = FALSE /\ aLive = FALSE
  /\ lock = FALSE
  /\ ntv2AV = FALSE
  /\ videosrc = "none" /\ audiosrc = FALSE
  /\ video_enabled = FALSE /\ audio_enabled = FALSE
  /\ start_streams = FALSE
  /\ vCallback = FALSE /\ aCallback = FALSE
  /\ aInput = FALSE
  /\ mLastFrame = FALSE /\ mLastFrameVideoOut = FALSE /\ mLastFrameAudioOut = FALSE
  /\ mGlobalQuit = FALSE
  /\ thread = 0
  /\ runs = 0
  /\ pc = [w \in Threads |-> "none"]
  /\ last = [w \in Threads |-> FALSE]
  /\ first_time = FALSE
  /\ played = {}
  /\ nullUse = {}

\* A state change of the application may begin: its thread is free, and no
\* thread holds the lock the change needs first.
MayChange == appPc = "idle" /\ changes < MaxChanges /\ ~lock

Changed == changes' = changes + 1

\* A call of the device, if there is one.  (Without one the program ends; the model
\* goes on.)
UsesDevice(caller) ==
  nullUse' = IF ntv2AV THEN nullUse ELSE nullUse \union {caller}

-----------------------------------------------------------------------------
\* start_streams, always called with input->lock held.

\* Its condition: the video source is PLAYING, or on its way there.
StreamsReady(vEnabled, aEnabled, playing) ==
  vEnabled /\ (~audiosrc \/ aEnabled) /\ playing

VideoPlaying == vState = "PLAYING" \/ appPc = "vPlaying"

\* Run: the flags start over, and one more thread becomes mACInputThread,
\* whatever was there.
Run ==
  /\ runs < MaxRuns
  /\ runs' = runs + 1
  /\ thread' = runs + 1
  /\ pc' = [pc EXCEPT ![runs + 1] = "loop"]
  /\ mLastFrame' = FALSE
  /\ mLastFrameVideoOut' = FALSE
  /\ mLastFrameAudioOut' = FALSE
  /\ mGlobalQuit' = FALSE

StartStreams(vEnabled, aEnabled) ==
  IF StreamsReady(vEnabled, aEnabled, VideoPlaying)
    THEN /\ first_time' = FALSE
         /\ IF ntv2AV THEN Run ELSE UNCHANGED <<flags, thread, runs, pc>>
    ELSE UNCHANGED <<first_time, flags, thread, runs, pc>>

\* gst_aja_video_src_start on the video streaming thread.
VideoStart ==
  /\ vLive
  /\ ~lock
  /\ ~video_enabled
  /\ video_enabled' = TRUE
  /\ IF start_streams
       THEN StartStreams(TRUE, audio_enabled)
       ELSE UNCHANGED <<first_time, flags, thread, runs, pc>>
  /\ UNCHANGED <<elements, app, ntv2AV, videosrc, audiosrc, audio_enabled,
                 start_streams, vCallback, aCallback, aInput, last, nullUse>>

\* gst_aja_audio_src_start on the audio streaming thread.
AudioStart ==
  /\ aLive
  /\ ~lock
  /\ ~audio_enabled
  /\ audio_enabled' = TRUE
  /\ played' = played \union {"started"}
  /\ IF start_streams /\ videosrc # "none"
       THEN StartStreams(video_enabled, TRUE)
       ELSE UNCHANGED <<first_time, flags, thread, runs, pc>>
  /\ UNCHANGED <<vState, aState, vLive, aLive, app, ntv2AV, videosrc, audiosrc, video_enabled,
                 start_streams, vCallback, aCallback, aInput, last, nullUse>>

-----------------------------------------------------------------------------
\* The video source's state changes.

\* A new NTV2GstAV if there is none: its flags are fresh.
AcquireDevice ==
  IF ntv2AV
    THEN UNCHANGED <<ntv2AV, flags, thread>>
    ELSE /\ ntv2AV' = TRUE
         /\ mLastFrame' = FALSE
         /\ mLastFrameVideoOut' = FALSE
         /\ mLastFrameAudioOut' = FALSE
         /\ mGlobalQuit' = FALSE
         /\ thread' = 0

\* NULL->READY: gst_aja_acquire_input, Open and Init.  When one of the latter
\* fails, the slot stays taken and the element stays in NULL.
VideoOpen(ok) ==
  /\ MayChange
  /\ vState = "NULL"
  /\ videosrc = "none"
  /\ Changed
  /\ AcquireDevice
  /\ videosrc' = "video"
  /\ start_streams' = TRUE
  /\ IF ok THEN vState' = "READY" /\ UNCHANGED failures
           ELSE /\ failures < MaxFailures
                /\ failures' = failures + 1
                /\ UNCHANGED vState
  /\ UNCHANGED <<aState, vLive, aLive, played, appPc, closing, lock, audiosrc, video_enabled,
                 audio_enabled, vCallback, aCallback, aInput, runs, pc, last,
                 first_time, nullUse>>

\* READY->PAUSED registers the callback.
VideoPause ==
  /\ MayChange
  /\ vState = "READY"
  /\ Changed
  /\ vState' = "PAUSED"
  /\ UsesDevice("video")
  /\ vCallback' = TRUE
  /\ UNCHANGED <<aState, vLive, aLive, played, failures, appPc, closing, lock, ntv2AV, videosrc,
                 audiosrc, video_enabled, audio_enabled, start_streams, aCallback,
                 aInput, flags, capture, first_time>>

\* PAUSED->PLAYING: the parent's change_state lets the streaming thread go ...
VideoPlay ==
  /\ MayChange
  /\ vState = "PAUSED"
  /\ Resume \/ "v" \notin played
  /\ Changed
  /\ vLive' = TRUE
  /\ appPc' = "vPlaying"
  /\ UNCHANGED <<vState, aState, aLive, played, failures, closing, lock, input, flags, capture,
                 first_time, nullUse>>

\* ... and afterwards start_streams is called once more.
VideoPlayed ==
  /\ appPc = "vPlaying"
  /\ ~lock
  /\ IF start_streams
       THEN StartStreams(video_enabled, audio_enabled)
       ELSE UNCHANGED <<first_time, flags, thread, runs, pc>>
  /\ appPc' = "idle"
  /\ vState' = "PLAYING"
  /\ played' = played \union {"v"}
  /\ UNCHANGED <<aState, vLive, aLive, changes, failures, closing, lock, input, last, nullUse>>

\* PLAYING->PAUSED: input->started is cleared, which nobody reads; the capture
\* threads go on.
VideoUnplay ==
  /\ MayChange
  /\ vState = "PLAYING"
  /\ Changed
  /\ vLive' = FALSE
  /\ vState' = "PAUSED"
  /\ UNCHANGED <<aState, aLive, played, failures, appPc, closing, lock, input, flags, capture,
                 first_time, nullUse>>

\* PAUSED->READY after the streaming thread has ended: gst_aja_video_src_stop
\* takes the lock and calls Quit, if the element was started.
VideoStop ==
  /\ MayChange
  /\ vState = "PAUSED"
  /\ Changed
  /\ IF video_enabled
       THEN /\ lock' = TRUE
            /\ appPc' = "quit"
            /\ closing' = FALSE
            /\ UsesDevice("video")
            /\ UNCHANGED <<vState, played>>
       ELSE /\ vState' = "READY"
            /\ played' = played \ {"v"}
            /\ UNCHANGED <<lock, appPc, closing, nullUse>>
  /\ UNCHANGED <<aState, vLive, aLive, failures, input, flags, capture, first_time>>

\* READY->NULL: gst_aja_video_src_close.
VideoClose ==
  /\ MayChange
  /\ vState = "READY"
  /\ Changed
  /\ lock' = TRUE
  /\ closing' = TRUE
  /\ appPc' = IF ntv2AV THEN "quit" ELSE "done"
  /\ UNCHANGED <<elements, failures, input, flags, capture, first_time, nullUse>>

-----------------------------------------------------------------------------
\* Quit, on the application's thread and with input->lock held.

\* The first Quit of a run asks for a last frame and waits for it; a later one
\* stops the thread at once.
QuitBegin ==
  /\ appPc = "quit"
  /\ IF ~mLastFrame /\ ~mGlobalQuit
       THEN mLastFrame' = TRUE /\ appPc' = "wait" /\ UNCHANGED mGlobalQuit
       ELSE mGlobalQuit' = TRUE /\ appPc' = "join" /\ UNCHANGED mLastFrame
  /\ UNCHANGED <<elements, changes, failures, closing, lock, input, mLastFrameVideoOut,
                 mLastFrameAudioOut, capture, first_time, nullUse>>

\* Mutant: mGlobalQuit is not set after the wait.
QuitWaited_NoGlobalQuit ==
  /\ appPc = "wait"
  /\ appPc' = "join"
  /\ UNCHANGED <<elements, changes, failures, closing, lock, input, flags, capture,
                 first_time, nullUse>>

\* Both last frames are out, or three seconds are over.
QuitWaited ==
  /\ appPc = "wait"
  /\ mGlobalQuit' = TRUE
  /\ appPc' = "join"
  /\ UNCHANGED <<elements, changes, failures, closing, lock, input, mLastFrame,
                 mLastFrameVideoOut, mLastFrameAudioOut, capture, first_time, nullUse>>

Active(w) == pc[w] \notin {"none", "exited"}

\* StopACThread waits for the thread it knows; FreeHostBuffers.
QuitJoined ==
  /\ appPc = "join"
  /\ thread # 0 => ~Active(thread)
  /\ thread' = 0
  /\ appPc' = "done"
  /\ UNCHANGED <<elements, changes, failures, closing, lock, input, flags, runs, pc,
                 last, first_time, nullUse>>

\* Mutant: stop leaves the source enabled.
VideoStopped_Enabled ==
  /\ appPc = "done"
  /\ ~closing
  /\ vCallback' = FALSE
  /\ lock' = FALSE
  /\ appPc' = "idle"
  /\ vState' = "READY"
  /\ played' = played \ {"v"}
  /\ UNCHANGED <<aState, vLive, aLive, changes, failures, closing, ntv2AV, videosrc,
                 audiosrc, video_enabled, audio_enabled, start_streams, aCallback,
                 aInput, flags, capture, first_time, nullUse>>

\* Mutant: stop returns without unlocking.
VideoStopped_KeepsLock ==
  /\ appPc = "done"
  /\ ~closing
  /\ video_enabled' = FALSE
  /\ vCallback' = FALSE
  /\ appPc' = "idle"
  /\ vState' = "READY"
  /\ played' = played \ {"v"}
  /\ UNCHANGED <<aState, vLive, aLive, changes, failures, closing, lock, ntv2AV, videosrc,
                 audiosrc, audio_enabled, start_streams, aCallback, aInput, flags,
                 capture, first_time, nullUse>>

\* The rest of stop: callback and video_enabled.
VideoStopped ==
  /\ appPc = "done"
  /\ ~closing
  /\ video_enabled' = FALSE
  /\ vCallback' = FALSE
  /\ lock' = FALSE
  /\ appPc' = "idle"
  /\ vState' = "READY"
  /\ played' = played \ {"v"}
  /\ UNCHANGED <<aState, vLive, aLive, changes, failures, closing, ntv2AV, videosrc,
                 audiosrc, audio_enabled, start_streams, aCallback, aInput, flags,
                 capture, first_time, nullUse>>

\* Mutant: close leaves start_streams set.
VideoClosed_StartKept ==
  /\ appPc = "done"
  /\ closing
  /\ ntv2AV' = FALSE
  /\ vCallback' = FALSE
  /\ aCallback' = FALSE
  /\ pc' = [w \in Threads |-> IF Active(w) THEN "freed" ELSE pc[w]]
  /\ video_enabled' = FALSE
  /\ videosrc' = "none"
  /\ lock' = FALSE
  /\ appPc' = "idle"
  /\ vState' = "NULL"
  /\ UNCHANGED <<aState, vLive, aLive, played, changes, failures, closing, audiosrc,
                 start_streams, audio_enabled, aInput, flags, thread, runs, last,
                 first_time, nullUse>>

\* The rest of close: the object is deleted, and its callbacks with it; a
\* capture thread that still runs is left with freed memory.
VideoClosed ==
  /\ appPc = "done"
  /\ closing
  /\ ntv2AV' = FALSE
  /\ vCallback' = FALSE
  /\ aCallback' = FALSE
  /\ pc' = [w \in Threads |-> IF Active(w) THEN "freed" ELSE pc[w]]
  /\ video_enabled' = FALSE
  /\ videosrc' = "none"
  /\ start_streams' = FALSE
  /\ lock' = FALSE
  /\ appPc' = "idle"
  /\ vState' = "NULL"
  /\ UNCHANGED <<aState, vLive, aLive, played, changes, failures, closing, audiosrc,
                 audio_enabled, aInput, flags, thread, runs, last, first_time, nullUse>>

-----------------------------------------------------------------------------
\* The audio source's state changes.

\* NULL->READY: the audio slot, or the video slot if the former is taken (by an
\* earlier open that failed); then Open and InitAudio.
AudioOpen(ok) ==
  /\ WithAudio
  /\ MayChange
  /\ aState = "NULL"
  /\ ~audiosrc \/ videosrc = "none"
  /\ Changed
  /\ AcquireDevice
  /\ audiosrc' = TRUE
  /\ videosrc' = IF audiosrc THEN "audio" ELSE videosrc
  /\ aInput' = TRUE
  /\ IF ok THEN aState' = "READY" /\ UNCHANGED failures
           ELSE /\ failures < MaxFailures
                /\ failures' = failures + 1
                /\ UNCHANGED aState
  /\ UNCHANGED <<vState, vLive, aLive, played, appPc, closing, lock, video_enabled,
                 audio_enabled, start_streams, vCallback, aCallback, runs, pc, last,
                 first_time, nullUse>>

\* READY->PAUSED registers the callback, and fails afterwards if there is no
\* video source.
AudioPause ==
  /\ MayChange
  /\ aState = "READY"
  /\ Changed
  /\ UsesDevice("audio pause")
  /\ aCallback' = TRUE
  /\ aState' = IF videosrc # "none" THEN "PAUSED" ELSE "READY"
  /\ played' = played \ {"started"}
  /\ UNCHANGED <<vState, vLive, aLive, failures, appPc, closing, lock, ntv2AV,
                 videosrc, audiosrc, video_enabled, audio_enabled, start_streams,
                 vCallback, aInput, flags, capture, first_time>>

\* PAUSED->PLAYING and back: the streaming thread may run, or not.
AudioPlay ==
  /\ MayChange
  /\ aState = "PAUSED"
  /\ Resume \/ "a" \notin played
  /\ Changed
  /\ aState' = "PLAYING"
  /\ aLive' = TRUE
  /\ played' = played \union {"a"}
  /\ UNCHANGED <<vState, vLive, failures, appPc, closing, lock, input, flags, capture,
                 first_time, nullUse>>

AudioUnplay ==
  /\ MayChange
  /\ aState = "PLAYING"
  /\ Changed
  /\ aState' = "PAUSED"
  /\ aLive' = FALSE
  /\ UNCHANGED <<vState, vLive, played, failures, appPc, closing, lock, input, flags,
                 capture, first_time, nullUse>>

\* PAUSED->READY: gst_aja_audio_src_stop does nothing for a source that was
\* not started.
AudioStop ==
  /\ MayChange
  /\ aState = "PAUSED"
  /\ Changed
  /\ aState' = "READY"
  /\ played' = played \ {"a"}
  /\ audio_enabled' = FALSE
  /\ IF audio_enabled THEN /\ UsesDevice("audio stop")
                           /\ aCallback' = FALSE
                      ELSE UNCHANGED <<nullUse, aCallback>>
  /\ UNCHANGED <<vState, vLive, aLive, failures, appPc, closing, lock, ntv2AV, videosrc,
                 audiosrc, video_enabled, start_streams, vCallback, aInput, flags,
                 capture, first_time>>

\* READY->NULL: gst_aja_audio_src_close.
AudioClose ==
  /\ MayChange
  /\ aState = "READY"
  /\ Changed
  /\ aState' = "NULL"
  /\ audio_enabled' = FALSE
  /\ audiosrc' = FALSE
  /\ aInput' = FALSE
  /\ UNCHANGED <<vState, vLive, aLive, played, failures, appPc, closing, lock, ntv2AV,
                 videosrc, video_enabled, start_streams, vCallback, aCallback, flags,
                 capture, first_time, nullUse>>

-----------------------------------------------------------------------------
\* A capture thread: ACInputWorker and the callbacks it calls.

At(w, p) == pc[w] = p
Goto(w, p) == pc' = [pc EXCEPT ![w] = p]

\* The end of the loop.
WorkerEnd(w) ==
  /\ At(w, "loop")
  /\ mGlobalQuit
  /\ Goto(w, "exited")
  /\ UNCHANGED <<elements, app, input, flags, thread, runs, last, first_time, nullUse>>

\* A frame with a signal was transferred.
WorkerFrame(w) ==
  /\ At(w, "loop")
  /\ ~mGlobalQuit
  /\ last' = [last EXCEPT ![w] = mLastFrame]
  /\ Goto(w, "video")
  /\ UNCHANGED <<elements, app, input, flags, thread, runs, first_time, nullUse>>

\* No frame, and the last one was asked for.
WorkerNoFrame(w) ==
  /\ At(w, "loop")
  /\ ~mGlobalQuit
  /\ mLastFrame
  /\ mLastFrameVideoOut' = TRUE
  /\ mLastFrameAudioOut' = TRUE
  /\ Goto(w, "exited")
  /\ UNCHANGED <<elements, app, input, mLastFrame, mGlobalQuit, thread, runs, last,
                 first_time, nullUse>>

\* The video callback: got_frame if the source is enabled.
VideoCallback(w) ==
  /\ At(w, "video")
  /\ first_time' = (first_time \/ (vCallback /\ video_enabled))
  /\ mLastFrameVideoOut' = (mLastFrameVideoOut \/ last[w])
  /\ Goto(w, "audio")
  /\ UNCHANGED <<elements, app, input, mLastFrame, mLastFrameAudioOut, mGlobalQuit,
                 thread, runs, last, nullUse>>

\* The audio callback, if there is one: it reads src->input->audio_enabled, and
\* got_packet then wants input->lock.
AudioCallback(w) ==
  /\ At(w, "audio")
  /\ IF aCallback /\ audio_enabled
       THEN Goto(w, "lock") /\ UNCHANGED mLastFrameAudioOut
       ELSE /\ mLastFrameAudioOut' = (mLastFrameAudioOut \/ last[w])
            /\ Goto(w, "loop")
  /\ UNCHANGED <<elements, app, input, mLastFrame, mLastFrameVideoOut, mGlobalQuit,
                 thread, runs, last, first_time, nullUse>>

\* got_packet looks under input->lock whether there is a video source, whose
\* first_time it needs.
GotPacketLocked(w) ==
  /\ At(w, "lock")
  /\ ~lock
  /\ Goto(w, IF videosrc # "none" THEN "assert" ELSE "packet")
  /\ UNCHANGED <<elements, app, input, flags, thread, runs, last, first_time, nullUse>>

\* The rest of got_packet and of the iteration.
GotPacket(w) ==
  /\ pc[w] \in {"assert", "packet"}
  /\ mLastFrameAudioOut' = (mLastFrameAudioOut \/ last[w])
  /\ Goto(w, "loop")
  /\ UNCHANGED <<elements, app, input, mLastFrame, mLastFrameVideoOut, mGlobalQuit,
                 thread, runs, last, first_time, nullUse>>

Worker(w) ==
  \/ WorkerEnd(w)
  \/ WorkerFrame(w)
  \/ WorkerNoFrame(w)
  \/ VideoCallback(w)
  \/ AudioCallback(w)
  \/ GotPacketLocked(w)
  \/ GotPacket(w)

Quit ==
  \/ QuitBegin
  \/ QuitWaited
  \/ QuitJoined
  \/ VideoStopped
  \/ VideoClosed

Next ==
  \/ \E ok \in BOOLEAN : VideoOpen(ok) \/ AudioOpen(ok)
  \/ VideoPause \/ VideoPlay \/ VideoPlayed \/ VideoUnplay \/ VideoStop \/ VideoClose
  \/ AudioPause \/ AudioPlay \/ AudioUnplay \/ AudioStop \/ AudioClose
  \/ Quit
  \/ VideoStart \/ AudioStart
  \/ \E w \in Threads : Worker(w)

Spec == Init /\ [][Next]_vars

\* A thread that is running goes on; the application need not change states.
FairSpec == Spec /\ WF_vars(Quit) /\ \A w \in Threads : WF_vars(Worker(w))

-----------------------------------------------------------------------------
\* Properties.

ElementState == {"NULL", "READY", "PAUSED", "PLAYING"}
Quitting == {"quit", "wait", "join", "done"}
Place == {"none", "loop", "video", "audio", "lock", "assert", "packet", "exited", "freed"}

ElementsOK ==
  /\ vState \in ElementState /\ aState \in ElementState
  /\ vLive \in BOOLEAN /\ aLive \in BOOLEAN
  /\ played \subseteq {"v", "a", "started"}

AppOK ==
  /\ changes \in 0..MaxChanges /\ failures \in 0..MaxFailures
  /\ appPc \in {"idle", "vPlaying"} \union Quitting
  /\ closing \in BOOLEAN
  /\ lock \in BOOLEAN
  /\ lock <=> appPc \in Quitting

InputOK ==
  /\ {ntv2AV, audiosrc, video_enabled, audio_enabled, start_streams,
      vCallback, aCallback, aInput, first_time} \subseteq BOOLEAN
  /\ videosrc \in {"none", "video", "audio"}
  /\ nullUse \subseteq {"video", "audio pause", "audio stop"}

CaptureOK ==
  /\ {mLastFrame, mLastFrameVideoOut, mLastFrameAudioOut, mGlobalQuit} \subseteq BOOLEAN
  /\ runs \in 0..MaxRuns
  /\ thread \in 0..runs
  /\ pc \in [Threads -> Place]
  /\ last \in [Threads -> BOOLEAN]

\* Every variable keeps to its values, and input->lock is held over Quit's steps
\* and no longer.
TypeOK == ElementsOK /\ AppOK /\ InputOK /\ CaptureOK

Running(w) == pc[w] \notin {"none", "exited", "freed"}

\* Whatever the order in which the two sources are opened, fail, are shut down and are
\* opened again: start_streams, and got_packet on a capture thread that was not left
\* behind, find the device, and in the video slot the video source that they take for
\* one; so do the video source's own state changes.
InputInPlace ==
  /\ start_streams => ntv2AV /\ videosrc = "video"
  /\ \A w \in Threads : Running(w) => ntv2AV /\ videosrc = "video"
  /\ "video" \notin nullUse

\* Whoever comes last starts the streams: when the video source is PLAYING and
\* both sources are enabled, there is a capture thread, in whatever order the
\* streaming threads and the state changes came.
StartedWhenReady ==
  (/\ appPc = "idle" /\ vState = "PLAYING" /\ video_enabled
   /\ WithAudio => audio_enabled)
    => thread # 0

\* A source that is back in READY or NULL is disabled, so that its next start
\* is not taken for one that was done already, and no stopped stream is left
\* half started.
DisabledWhenStopped ==
  /\ appPc = "idle" /\ vState \in {"NULL", "READY"} => ~video_enabled /\ thread = 0
  /\ aState \in {"NULL", "READY"} => ~audio_enabled

\* The audio callback, which uses the source's input, goes when a source that was
\* started is stopped.  Only one that was paused and never started leaves it behind,
\* and with its input gone after close.
CallbackGoesWithSource ==
  aCallback /\ aState \in {"NULL", "READY"} => "started" \notin played

\* The streams follow the states of both elements: they run when both are ready, and
\* leave nothing enabled behind them, from which the next start would be missed, and
\* no callback that was served.
StreamsFollowStates == StartedWhenReady /\ DisabledWhenStopped /\ CallbackGoesWithSource

\* No capture thread runs on in a deleted NTV2GstAV.  The destructor's comment
\* says "Stop my capture and consumer threads, then destroy them".
StoppedThenDestroyed == \A w \in Threads : pc[w] # "freed"

\* Quit "Gracefully stops me from running": it returns, and the state change
\* that called it ends.
QuitReturns == appPc = "quit" ~> appPc = "idle"

\* Nothing else keeps Quit: it returns unless a capture thread waits for the
\* input->lock under which Quit was called.
QuitKeptByLockOnly ==
  appPc = "quit" ~> (appPc = "idle" \/ \E w \in Threads : pc[w] = "lock")
=============================================================================
