--------------------------- MODULE CaptureThread ---------------------------
(***************************************************************************)
(* NTV2GstAV's capture thread and its control (gstntv2.cpp): Run, Quit and *)
(* the loop of ACInputWorker.                                              *)
(*                                                                         *)
(* The controlling thread and the capture thread share the flags           *)
(* mLastFrame, mLastFrameInput, mLastFrameVideoOut, mLastFrameAudioOut and *)
(* mGlobalQuit, plain members without a lock; every read or write of one   *)
(* is a step of its own, and work on the thread's own variables is joined  *)
(* to the step before it.  The card is external: it circulates frames,     *)
(* drops frames when it is not read in time (a 32-bit counter, here modulo *)
(* CounterMod) and sees an input format or none.                           *)
(*                                                                         *)
(* Run is called while no capture thread runs, as its users in the sources *)
(* intend; what happens when they do not is the matter of AjaInput.        *)
(***************************************************************************)
EXTENDS Integers

CONSTANTS
  CounterMod,   \* 2^32 in the driver: acFramesDropped is a ULWord
  LossLimit,    \* iterations without a frame that count as signal loss (32)
  MaxFrames,    \* bound: frames captured by one thread
  MaxDrops,     \* bound: frames dropped by the card under one thread
  MaxRuns       \* bound: calls of Run

ASSUME CaptureThreadAssumption ==
  /\ CounterMod \in Nat \ {0, 1}
  /\ LossLimit \in Nat
  /\ MaxFrames \in Nat
  /\ MaxDrops \in Nat
  /\ MaxRuns \in Nat

VARIABLES
  mLastFrame, mLastFrameInput, mLastFrameVideoOut, mLastFrameAudioOut,
  mGlobalQuit,
  mStarted,
  pools,         \* mVideoBufferPool and mAudioBufferPool are there
  ctlPc,         \* where the controlling thread is
  runs,          \* calls of Run so far
  acFramesDropped,  \* the card's counter
  pc,            \* where the capture thread is; "none": there is no thread
  processed, dropped, lastDropped, droppedNow,  \* locals of ACInputWorker
  iterations, haveSignal,
  video, audio,  \* the buffers on their way to the callbacks
  cardDrops,     \* history: frames the card really dropped
  wraps,         \* history: wraps of the card's counter the thread has seen
  frame, packet  \* history: what the callbacks were last given

flags == <<mLastFrame, mLastFrameInput, mLastFrameVideoOut, mLastFrameAudioOut>>
control == <<mGlobalQuit, mStarted, pools, ctlPc, runs>>
counters == <<processed, dropped, lastDropped, droppedNow>>
handed == <<frame, packet>>
history == <<cardDrops, wraps, handed>>
vars == <<mLastFrame, mLastFrameInput, mLastFrameVideoOut, mLastFrameAudioOut,
          mGlobalQuit, mStarted, pools, ctlPc, runs, acFramesDropped, pc,
          processed, dropped, lastDropped, droppedNow, iterations, haveSignal,
          video, audio, cardDrops, wraps, frame, packet>>

Buff == [number : Nat, lastFrame : BOOLEAN, droppedChanged : BOOLEAN,
         haveSignal : BOOLEAN]
NoBuff == [number |-> 0, lastFrame |-> FALSE, droppedChanged |-> FALSE,
           haveSignal |-> TRUE]

\* What a callback can tell of a capture.
Seen(buff) == [number |-> buff.number, dropped |-> buff.droppedChanged,
               signal |-> buff.haveSignal]

\* The stream that frame and packet show, and the properties are about.
Stream == INSTANCE FrameStream

Init ==
  /\ mLastFrame = FALSE
  /\ mLastFrameInput = FALSE
  /\ mLastFrameVideoOut = FALSE
  /\ mLastFrameAudioOut = FALSE
  /\ mGlobalQuit = FALSE
  /\ mStarted = FALSE
  /\ pools = FALSE
  /\ ctlPc = "idle"
  /\ runs = 0
  /\ acFramesDropped = 0
  /\ pc = "none"
  /\ processed = 0
  /\ dropped = 0
  /\ lastDropped = 0
  /\ droppedNow = FALSE
  /\ iterations = 0
  /\ haveSignal = TRUE
  /\ video = NoBuff
  /\ audio = NoBuff
  /\ cardDrops = 0
  /\ wraps = 0
  /\ frame = Stream!Nothing
  /\ packet = Stream!Nothing

-----------------------------------------------------------------------------
\* The controlling thread.

\* Mutant: the flags of the previous run are left as they were.
ResetFlags_Not == UNCHANGED <<flags, mGlobalQuit>>

ResetFlags ==
  /\ mLastFrame' = FALSE
  /\ mLastFrameInput' = FALSE
  /\ mLastFrameVideoOut' = FALSE
  /\ mLastFrameAudioOut' = FALSE
  /\ mGlobalQuit' = FALSE

\* Run: flags, AutoCirculate (its counters start over), buffer pools, thread.
\* The new thread's locals are those of the start of ACInputWorker.
Run ==
  /\ ctlPc = "idle"
  /\ pc = "none"
  /\ runs < MaxRuns
  /\ runs' = runs + 1
  /\ ResetFlags
  /\ acFramesDropped' = 0
  /\ pools' = TRUE
  /\ pc' = "loop"
  /\ processed' = 0
  /\ dropped' = 0
  /\ lastDropped' = 0
  /\ droppedNow' = FALSE
  /\ iterations' = 0
  /\ haveSignal' = TRUE
  /\ mStarted' = TRUE
  /\ cardDrops' = 0
  /\ wraps' = 0
  /\ frame' = Stream!Nothing
  /\ packet' = Stream!Nothing
  /\ UNCHANGED <<ctlPc, video, audio>>

\* Quit, also before any Run: asks for the last frame, once.
QuitBegin ==
  /\ ctlPc = "idle"
  /\ IF ~mLastFrame /\ ~mGlobalQuit
       THEN /\ mLastFrame' = TRUE
            /\ ctlPc' = "waitLast"
       ELSE /\ ctlPc' = "stop"
            /\ UNCHANGED mLastFrame
  /\ UNCHANGED <<mLastFrameInput, mLastFrameVideoOut, mLastFrameAudioOut, mGlobalQuit,
                 mStarted, pools, runs, acFramesDropped, pc, counters, iterations,
                 haveSignal, video, audio, history>>

\* The last frame is out, or 300 sleeps of 10 ms have passed.
QuitWaited ==
  /\ ctlPc = "waitLast"
  /\ ctlPc' = "stop"
  /\ UNCHANGED <<flags, mGlobalQuit, mStarted, pools, runs, acFramesDropped, pc,
                 counters, iterations, haveSignal, video, audio, history>>

QuitStop ==
  /\ ctlPc = "stop"
  /\ mGlobalQuit' = TRUE
  /\ mStarted' = FALSE
  /\ ctlPc' = "join"
  /\ UNCHANGED <<flags, pools, runs, acFramesDropped, pc, counters, iterations,
                 haveSignal, video, audio, history>>

\* Mutant: the thread is not waited for.
ThreadInactive_NotAwaited == TRUE

\* ~mACInputThread->Active (), or there is no thread.
ThreadInactive == pc \in {"none", "exited"}

\* StopACThread.
QuitJoined ==
  /\ ctlPc = "join"
  /\ ThreadInactive
  /\ pc' = IF pc = "exited" THEN "none" ELSE pc
  /\ ctlPc' = "free"
  /\ UNCHANGED <<flags, mGlobalQuit, mStarted, pools, runs, acFramesDropped,
                 counters, iterations, haveSignal, video, audio, history>>

\* FreeHostBuffers and the SetMode calls.
QuitFree ==
  /\ ctlPc = "free"
  /\ pools' = FALSE
  /\ ctlPc' = "idle"
  /\ UNCHANGED <<flags, mGlobalQuit, mStarted, runs, acFramesDropped, pc, counters,
                 iterations, haveSignal, video, audio, history>>

-----------------------------------------------------------------------------
\* The capture thread.

\* The condition of the loop.
GoesOn == ~mGlobalQuit

\* The loop's condition fails: AutoCirculateStop.
ExitLoop ==
  /\ pc = "loop"
  /\ ~GoesOn
  /\ pc' = "exited"
  /\ UNCHANGED <<flags, control, acFramesDropped, counters, iterations, haveSignal,
                 video, audio, history>>

\* Mutant: the counter is taken not to wrap.
NewDrops_NoWrap(last, now) == IF last > now THEN 0 ELSE now - last

\* What acFramesDropped going from last to now adds to dropped_frames.
NewDrops(last, now) ==
  IF last > now THEN ((CounterMod - 1) - last) + now ELSE now - last

\* One iteration up to the test for an available frame: status, input format
\* and drop accounting.  The frame is available or not, as the card says.
Poll ==
  /\ pc = "loop"
  /\ GoesOn
  /\ haveSignal' \in BOOLEAN
  /\ IF lastDropped # acFramesDropped
       THEN /\ dropped' = dropped + NewDrops(lastDropped, acFramesDropped)
            /\ lastDropped' = acFramesDropped
            /\ droppedNow' = TRUE
            /\ wraps' = wraps + (IF lastDropped > acFramesDropped THEN 1 ELSE 0)
       ELSE UNCHANGED <<dropped, lastDropped, droppedNow, wraps>>
  /\ \/ /\ processed < MaxFrames
        /\ pc' = "transfer"
     \/ pc' = "noFrame"
  /\ UNCHANGED <<flags, control, acFramesDropped, processed, iterations, video, audio,
                 cardDrops, handed>>

\* Acquires both buffers, which say whether there was a signal, transfers, and
\* stamps the video buffer with the flag mLastFrame.
Transfer ==
  /\ pc = "transfer"
  /\ iterations' = 0
  /\ video' = [NoBuff EXCEPT !.lastFrame = mLastFrame, !.haveSignal = haveSignal]
  /\ audio' = [NoBuff EXCEPT !.haveSignal = haveSignal]
  /\ pc' = "stamp"
  /\ UNCHANGED <<flags, control, acFramesDropped, counters, haveSignal, history>>

\* What both buffers say of drops since the last frame.
DroppedChanged == droppedNow

\* Stamps the audio buffer with mLastFrame, numbers both, and clears the note
\* of new drops.
Stamp ==
  LET number == processed + dropped IN
  /\ pc = "stamp"
  /\ video' = [video EXCEPT !.number = number, !.droppedChanged = DroppedChanged]
  /\ audio' = [audio EXCEPT !.number = number, !.droppedChanged = DroppedChanged,
                            !.lastFrame = mLastFrame]
  /\ droppedNow' = FALSE
  /\ mLastFrameInput' = (mLastFrameInput \/ video.lastFrame)
  /\ processed' = processed + 1
  /\ pc' = "video"
  /\ UNCHANGED <<mLastFrame, mLastFrameVideoOut, mLastFrameAudioOut, control,
                 acFramesDropped, dropped, lastDropped, iterations, haveSignal, history>>

\* DoCallback (VIDEO_CALLBACK), and the release if nobody takes the buffer.
VideoCallback ==
  /\ pc = "video"
  /\ frame' = Seen(video)
  /\ pc' = "videoOut"
  /\ UNCHANGED <<flags, control, acFramesDropped, counters, iterations, haveSignal,
                 video, audio, cardDrops, wraps, packet>>

\* Reads lastFrame again after the callback gave the buffer away: whoever had it
\* may have discarded it since, and then anything is read.
VideoOut ==
  /\ pc = "videoOut"
  /\ mLastFrameVideoOut' \in {mLastFrameVideoOut, TRUE}
  /\ pc' = "audio"
  /\ UNCHANGED <<mLastFrame, mLastFrameInput, mLastFrameAudioOut, control,
                 acFramesDropped, counters, iterations, haveSignal, video, audio, history>>

\* Mutant: without a signal the audio callback is left out.
GivenPacket_WithSignal == IF audio.haveSignal THEN Seen(audio) ELSE packet

\* What the audio callback has been given after DoCallback (AUDIO_CALLBACK).
GivenPacket == Seen(audio)

\* DoCallback (AUDIO_CALLBACK) and the flag after it, which is read like the other.
AudioCallback ==
  /\ pc = "audio"
  /\ packet' = GivenPacket
  /\ mLastFrameAudioOut' \in {mLastFrameAudioOut, TRUE}
  /\ pc' = "loop"
  /\ UNCHANGED <<mLastFrame, mLastFrameInput, mLastFrameVideoOut, control,
                 acFramesDropped, counters, iterations, haveSignal, video, audio,
                 cardDrops, wraps, frame>>

\* No frame, and the last one was asked for: there will be none.
NoFrameLast ==
  /\ pc = "noFrame"
  /\ mLastFrame
  /\ mLastFrameVideoOut' = TRUE
  /\ mLastFrameAudioOut' = TRUE
  /\ pc' = "exited"
  /\ UNCHANGED <<mLastFrame, mLastFrameInput, control, acFramesDropped, counters,
                 iterations, haveSignal, video, audio, history>>

\* Mutant: the iterations are not counted.
CountIteration_Not == UNCHANGED iterations

CountIteration == iterations' = iterations + 1

\* Mutant: one iteration more than the limit.
MoreIterations_OneMore == iterations <= LossLimit

MoreIterations == iterations < LossLimit

\* No frame yet: waits for the next vertical interrupt.
NoFrameWait ==
  /\ pc = "noFrame"
  /\ ~mLastFrame
  /\ haveSignal /\ MoreIterations
  /\ CountIteration
  /\ pc' = "loop"
  /\ UNCHANGED <<flags, control, acFramesDropped, counters, haveSignal, video, audio,
                 history>>

\* No signal: both callbacks are told with NULL.
NoFrameLost ==
  /\ pc = "noFrame"
  /\ ~mLastFrame
  /\ ~haveSignal \/ ~MoreIterations
  /\ pc' = "lost"
  /\ UNCHANGED <<flags, control, acFramesDropped, counters, iterations, haveSignal,
                 video, audio, history>>

LostSlept ==
  /\ pc = "lost"
  /\ pc' = "loop"
  /\ UNCHANGED <<flags, control, acFramesDropped, counters, iterations, haveSignal,
                 video, audio, history>>

-----------------------------------------------------------------------------
\* The card drops a frame.  It does not drop 2^32 of them between two polls.
CardDrops ==
  LET next == IF acFramesDropped + 1 = CounterMod THEN 0 ELSE acFramesDropped + 1 IN
  /\ pc \notin {"none", "exited"}
  /\ cardDrops < MaxDrops
  /\ next # lastDropped
  /\ cardDrops' = cardDrops + 1
  /\ acFramesDropped' = next
  /\ UNCHANGED <<flags, control, pc, counters, iterations, haveSignal, video, audio,
                 wraps, handed>>

Worker ==
  \/ ExitLoop \/ Poll \/ Transfer \/ Stamp \/ VideoCallback \/ VideoOut
  \/ AudioCallback \/ NoFrameLast \/ NoFrameWait \/ NoFrameLost \/ LostSlept

Quit == QuitBegin \/ QuitWaited \/ QuitStop \/ QuitJoined \/ QuitFree

Next == Run \/ Quit \/ Worker \/ CardDrops

Spec == Init /\ [][Next]_vars

\* Both threads are scheduled; callbacks return; Quit's sleeps end.  Nobody has
\* to call Run or Quit.
Fairness ==
  /\ WF_vars(Worker)
  /\ WF_vars(QuitWaited \/ QuitStop \/ QuitJoined \/ QuitFree)

FairSpec == Spec /\ Fairness
-----------------------------------------------------------------------------
FlagsOK ==
  /\ mLastFrame \in BOOLEAN
  /\ mLastFrameInput \in BOOLEAN
  /\ mLastFrameVideoOut \in BOOLEAN
  /\ mLastFrameAudioOut \in BOOLEAN
  /\ mGlobalQuit \in BOOLEAN
  /\ mStarted \in BOOLEAN
  /\ pools \in BOOLEAN
  /\ droppedNow \in BOOLEAN
  /\ haveSignal \in BOOLEAN

CountersOK ==
  /\ runs \in 0..MaxRuns
  /\ acFramesDropped \in 0..(CounterMod - 1)
  /\ processed \in 0..MaxFrames
  /\ dropped \in Nat
  /\ lastDropped \in 0..(CounterMod - 1)
  /\ iterations \in 0..LossLimit
  /\ cardDrops \in 0..MaxDrops
  /\ wraps \in Nat

PlacesOK ==
  /\ ctlPc \in {"idle", "waitLast", "stop", "join", "free"}
  /\ pc \in {"none", "loop", "transfer", "stamp", "video", "videoOut", "audio",
             "noFrame", "lost", "exited"}

BuffersOK ==
  /\ video \in Buff
  /\ audio \in Buff
  /\ {frame, packet} \subseteq Stream!Captures \union {Stream!Nothing}

\* Type invariant.
TypeOK == FlagsOK /\ CountersOK /\ PlacesOK /\ BuffersOK

\* Drops the card counted and the thread has not polled yet.
Unpolled ==
  IF acFramesDropped >= lastDropped
    THEN acFramesDropped - lastDropped
    ELSE acFramesDropped + CounterMod - lastDropped

\* dropped_frames, the 64-bit count kept over the card's 32-bit one, is the
\* number of drops but for the one that each wrap of the counter loses
\* (G_MAXUINT32 - last, where 2^32 - last is meant), however the drops and the
\* polls interleave.
DropsCounted == dropped + wraps + Unpolled = cardDrops

\* The frame about to be handed out is newer than the last one, and if its
\* number leaves a gap it says so with droppedChanged.
GapFlagged ==
  pc = "video" =>
    /\ video.number > frame.number
    /\ video.number > frame.number + 1 => video.droppedChanged

\* The thread transfers into buffers of the pools: they are there from before
\* its start until after its end, so no acquisition fails under it.
CaptureHasPools == pc # "none" => pools

\* The flags that end the loop belong to the run they were set in: a thread
\* only ever ends while a Quit is under way.
EndsOnlyInQuit == pc = "exited" => ctlPc # "idle"

\* Both: a thread lives from Run to Quit, with its pools.
ThreadWithinRun == CaptureHasPools /\ EndsOnlyInQuit

\* The sources are given a stream of frames, each followed by its packet, in order
\* of their numbers, with the gaps marked, and never cut between a frame and its
\* packet by the end of the thread.
StreamSpec == Stream!Spec

\* Steps that are left at most of a thread that is to end, its joining included.
StepsLeft ==
  CASE pc = "none" -> 0
    [] pc = "exited" -> 1
    [] pc = "loop" -> 2
    [] pc \in {"audio", "lost"} -> 3
    [] pc \in {"videoOut", "noFrame"} -> 4
    [] pc = "video" -> 5
    [] pc = "stamp" -> 6
    [] pc = "transfer" -> 7

\* Once Quit has set mGlobalQuit every step of the thread brings its end nearer, and
\* nothing starts it anew: StopACThread waits for at most one frame more.
QuitBounded ==
  [][mGlobalQuit /\ mGlobalQuit' /\ pc' # pc => StepsLeft' < StepsLeft]_vars

\* Quit returns, with the capture thread ended, wherever it finds the thread.
QuitReturns == ctlPc # "idle" ~> (ctlPc = "idle" /\ pc = "none")

\* Frames that stop coming do not leave the elements waiting: every iteration
\* is followed by a frame, by a NULL callback or by the end of the thread.
StallReported == pc = "loop" ~> pc \in {"video", "lost", "exited"}
=============================================================================
