----------------------------- MODULE VideoQueue -----------------------------
(***************************************************************************)
(* The frame queue of the video source (gstajavideosrc.cpp).               *)
(*                                                                         *)
(* Three threads meet here.  The capture thread of NTV2GstAV runs          *)
(* gst_aja_video_src_got_frame for every frame and for every iteration     *)
(* without one; the streaming thread of GstBaseSrc runs                    *)
(* gst_aja_video_src_create; the application's thread reaches unlock,      *)
(* unlock_stop, stop and start_streams through state changes and flushing  *)
(* seeks.  src->lock protects current_frames and flushing, except where    *)
(* the capture thread pushes a signal marker (1046-1060 and 1063-1080) and *)
(* in stop, which has ended the capture and the streaming before it drains *)
(* the queue.                                                              *)
(*                                                                         *)
(* Every critical section is one action, but for the streaming thread's    *)
(* test of the wait condition and its g_cond_wait: the unlocked pushes of  *)
(* the capture thread fit between these two.  A single queue operation is  *)
(* taken to be atomic.  A frame is its frame number, which goes on growing *)
(* when the streams start again (the code's count is only an identity      *)
(* here); 0 is "no buffer".  One worker calls got_frame: what a second Run *)
(* adds to that is the subject of AjaInput.                                *)
(***************************************************************************)
EXTENDS Integers, Sequences, FiniteSets

CONSTANTS
  QueueSize,   \* the queue-size property, 1..G_MAXINT
  SkipFrames,  \* the most frames that arrive within skip_first_time
  MaxFrames,   \* bound: frame numbers the card hands out
  MaxCalls     \* bound: calls of unlock, stop and, in mid-stream, start_streams

ASSUME VideoQueueAssumption ==
  /\ QueueSize \in Nat \ {0}
  /\ SkipFrames \in Nat
  /\ MaxFrames \in Nat
  /\ MaxCalls \in Nat

VARIABLES
  current_frames,   \* src->current_frames
  flushing,         \* src->flushing
  skipped_last,     \* src->skipped_last
  skipped_overall,  \* src->skipped_overall
  video_enabled,    \* src->input->video_enabled
  signal_state,     \* src->signal_state
  skipLeft,         \* frames that may still come within skip_first_time
  restarts,         \* calls of stop, and of start_streams in mid-stream, so far
  capPc,            \* where the capture thread is in got_frame
  capMarker,        \* the marker it is about to push
  capFrame,         \* the frame it holds
  capFirst,         \* !had_signal
  capDropped,       \* videoBuff->droppedChanged
  frameNumber,      \* number of the last frame the card captured
  strPc,            \* where the streaming thread is in create
  held,             \* the entry it popped
  downstream,       \* frames pushed to the next element and not yet released
  inUse,            \* buffers taken from the pool and not given back
  flushes,          \* calls of unlock so far
  notified,         \* history: the last signal change that was notified
  unreported,       \* history: a change was discarded on purpose by a flush
  forgotten,        \* history: a remembered change found no entry to go to
  lastOut,          \* history: last frame popped since the last flush
  owed,             \* history: a gap was delivered without DISCONT after it
  waived            \* history: frames that skip_first_time left out

queueVars == <<current_frames, flushing, skipped_last, skipped_overall>>
startVars == <<video_enabled, signal_state, skipLeft, restarts>>
capVars == <<capPc, capMarker, capFrame, capFirst, capDropped, frameNumber>>
strVars == <<strPc, held, downstream, notified, lastOut, owed>>
lossVars == <<unreported, forgotten, waived>>
vars == <<queueVars, startVars, capVars, strVars, inUse, flushes, lossVars>>

-----------------------------------------------------------------------------
\* AjaCaptureVideoFrame and its signal changes.

SignalChange == {"NO_CHANGE", "GOT_SIGNAL", "RECOVERED_SIGNAL", "LOST_SIGNAL"}

SignalState == {"UNKNOWN", "LOST", "AVAILABLE"}

Entry == [change : SignalChange, frame : Nat, first : BOOLEAN, dropped : BOOLEAN]

Marker(change) ==
  [change |-> change, frame |-> 0, first |-> FALSE, dropped |-> FALSE]

\* Mutant: droppedChanged is not set on the frame.
Captured_NotMarked(n, first, dropped) ==
  [change |-> "NO_CHANGE", frame |-> n, first |-> first, dropped |-> FALSE]

Captured(n, first, dropped) ==
  [change |-> "NO_CHANGE", frame |-> n, first |-> first, dropped |-> dropped]

NoEntry == Marker("NO_CHANGE")

FramesOf(q) == {q[i].frame : i \in DOMAIN q} \ {0}

\* src->lock is free: only the streaming thread keeps it from one step to the
\* next, from the test of the wait condition until it waits or leaves.
LockFree == strPc \notin {"check", "sleep"}

\* Mutant: the g_cond_signal is forgotten.
CondSignal_Forgotten == UNCHANGED strPc

\* g_cond_signal (&src->cond): the only waiter is the streaming thread.
CondSignal == strPc' = IF strPc = "waiting" THEN "entering" ELSE strPc

-----------------------------------------------------------------------------
\* The parts of got_frame.

Init ==
  /\ current_frames = <<>>
  /\ flushing = FALSE
  /\ skipped_last = 0
  /\ skipped_overall = 0
  /\ video_enabled = FALSE
  /\ signal_state = "UNKNOWN"
  /\ skipLeft = SkipFrames
  /\ restarts = 0
  /\ capPc = "idle"
  /\ capMarker = "NO_CHANGE"
  /\ capFrame = 0
  /\ capFirst = FALSE
  /\ capDropped = FALSE
  /\ frameNumber = 0
  /\ strPc = "idle"
  /\ held = NoEntry
  /\ downstream = {}
  /\ inUse = {}
  /\ flushes = 0
  /\ notified = "NO_CHANGE"
  /\ unreported = FALSE
  /\ forgotten = FALSE
  /\ lastOut = 0
  /\ owed = FALSE
  /\ waived = {}

\* The change a marker reports when the signal appears in state s.
AppearsAs(s) == IF s = "LOST" THEN "RECOVERED_SIGNAL" ELSE "GOT_SIGNAL"

\* The callback returns at once unless the source is enabled: the worker keeps the
\* buffer.
CallbackDisabled ==
  /\ capPc = "idle"
  /\ ~video_enabled
  /\ frameNumber' \in frameNumber..MaxFrames
  /\ UNCHANGED <<queueVars, startVars, capPc, capMarker, capFrame, capFirst, capDropped,
                 strVars, inUse, flushes, lossVars>>

\* got_frame (src, NULL), or with a buffer without signal, which was numbered like
\* the others and goes straight back to the pool, its mark of drops with it.  Beyond
\* that nothing happens unless the state changes; the marker is left out while the
\* element is flushing, a test made without src->lock.
GotNoSignal ==
  /\ capPc = "idle"
  /\ video_enabled
  /\ frameNumber' \in frameNumber..MaxFrames
  /\ signal_state' = "LOST"
  /\ IF signal_state # "LOST" /\ ~flushing
       THEN capPc' = "mark" /\ capMarker' = "LOST_SIGNAL"
       ELSE UNCHANGED <<capPc, capMarker>>
  /\ unreported' = (unreported \/ (signal_state # "LOST" /\ flushing))
  /\ UNCHANGED <<queueVars, video_enabled, skipLeft, restarts, capFrame, capFirst,
                 capDropped, strVars, inUse, flushes, forgotten, waived>>

\* got_frame with a frame.  What the worker promises of its number and its mark is
\* FrameStream: it is newer than all before, and marked if one is left out.  The
\* state change and the unlocked test of flushing.
GotFrame(cardDropped) ==
  LET appears == signal_state # "AVAILABLE" IN
  /\ capPc = "idle"
  /\ video_enabled
  /\ frameNumber' \in (frameNumber + 1)..MaxFrames
  /\ frameNumber' > frameNumber + 1 => cardDropped
  /\ capFrame' = frameNumber'
  /\ capDropped' = cardDropped
  /\ capFirst' = appears
  /\ inUse' = inUse \union {capFrame'}
  /\ signal_state' = "AVAILABLE"
  /\ IF appears /\ ~flushing
       THEN /\ capPc' = "mark"
            /\ capMarker' = AppearsAs(signal_state)
       ELSE /\ capPc' = "frame"
            /\ UNCHANGED capMarker
  /\ unreported' = (unreported \/ (appears /\ flushing))
  /\ UNCHANGED <<queueVars, video_enabled, skipLeft, restarts, strVars, flushes,
                 forgotten, waived>>

\* gst_queue_array_push_tail_struct of a marker, without src->lock.
PushMarker ==
  /\ capPc = "mark"
  /\ current_frames' = Append(current_frames, Marker(capMarker))
  /\ unreported' = flushing
  /\ forgotten' = FALSE
  /\ capPc' = "signal"
  /\ UNCHANGED <<flushing, skipped_last, skipped_overall, startVars, capMarker, capFrame,
                 capFirst, capDropped, frameNumber, strVars, inUse, flushes, waived>>

\* The g_cond_signal that follows, also without src->lock.
SignalMarker ==
  /\ capPc = "signal"
  /\ CondSignal
  /\ capMarker' = "NO_CHANGE"
  /\ capPc' = IF capFrame = 0 THEN "idle" ELSE "frame"
  /\ UNCHANGED <<queueVars, startVars, capFrame, capFirst, capDropped, frameNumber, held,
                 downstream, notified, lastOut, owed, inUse, flushes, lossVars>>

\* Mutant: the frame handed on is still referred to.
DoneWithFrame_Dangling ==
  /\ capPc' = "idle"
  /\ capFirst' = FALSE
  /\ capDropped' = FALSE
  /\ UNCHANGED <<capMarker, capFrame, frameNumber>>

\* Leaves got_frame with the frame handed on or given back.
DoneWithFrame ==
  /\ capPc' = "idle"
  /\ capFrame' = 0
  /\ capFirst' = FALSE
  /\ capDropped' = FALSE
  /\ UNCHANGED <<capMarker, frameNumber>>

\* The frames after all that were pushed, up to the one that is skipped.
SincePushed ==
  {n \in 1..capFrame : \A k \in FramesOf(current_frames) \union {lastOut} : k < n}

\* The early return for frames within skip_first_time of the first one since
\* start_streams; as time is counted, frames lost by the card count too.
SkipFrame ==
  /\ capPc = "frame"
  /\ skipLeft > 0
  /\ skipLeft' \in 0..(skipLeft - 1)
  /\ inUse' = inUse \ {capFrame}
  /\ waived' = waived \union SincePushed
  /\ DoneWithFrame
  /\ UNCHANGED <<queueVars, video_enabled, signal_state, restarts, strVars, flushes,
                 unreported, forgotten>>

\* The frame is late enough, and goes on to src->lock.
PassFrame ==
  /\ capPc = "frame"
  /\ skipLeft = 0
  /\ capPc' = "queue"
  /\ UNCHANGED <<queueVars, startVars, capMarker, capFrame, capFirst, capDropped,
                 frameNumber, strVars, inUse, flushes, lossVars>>

\* How many entries the loop of got_frame pops to make room.
Excess(q) == IF Len(q) >= QueueSize THEN Len(q) - QueueSize + 1 ELSE 0

\* Mutant: the newest entries go instead of the oldest.
Kept_Oldest(q) == SubSeq(q, 1, Len(q) - Excess(q))

\* The popped entries, and what is left.
Dropped(q) == SubSeq(q, 1, Excess(q))
Kept(q) == SubSeq(q, Excess(q) + 1, Len(q))

\* Mutant: a RECOVERED_SIGNAL is not remembered.
Remembered_GotOnly(dropped) ==
  IF \E i \in DOMAIN dropped : dropped[i].change = "GOT_SIGNAL"
    THEN "GOT_SIGNAL"
    ELSE "NO_CHANGE"

\* The signal change that the loop remembers of the entries it popped.
Remembered(dropped) ==
  IF \E i \in DOMAIN dropped : dropped[i].change = "RECOVERED_SIGNAL"
    THEN "RECOVERED_SIGNAL"
    ELSE IF \E i \in DOMAIN dropped : dropped[i].change = "GOT_SIGNAL"
           THEN "GOT_SIGNAL"
           ELSE "NO_CHANGE"

WithChange(entry, change) == [entry EXCEPT !.change = change]

\* The remembered change is written into the oldest entry left, if any.
Rewritten(q, change) ==
  IF change # "NO_CHANGE" /\ q # <<>>
    THEN [q EXCEPT ![1] = WithChange(@, change)]
    ELSE q

\* The rest of got_frame under src->lock while the element is not flushing.
EnqueueFrame ==
  LET dropped == Dropped(current_frames)
      lost == Cardinality(FramesOf(dropped))
      endOfDrops == lost = 0 /\ skipped_last > 0
      change == Remembered(dropped)
      kept == Rewritten(Kept(current_frames), change)
  IN
  /\ capPc = "queue"
  /\ LockFree
  /\ ~flushing
  /\ current_frames' =
       Append(kept, Captured(capFrame, capFirst, capDropped \/ endOfDrops))
  /\ skipped_overall' = IF endOfDrops THEN skipped_overall + skipped_last
                                      ELSE skipped_overall
  /\ skipped_last' = IF endOfDrops THEN 0 ELSE skipped_last + lost
  /\ inUse' = inUse \ FramesOf(dropped)
  /\ forgotten' = (forgotten \/ (change # "NO_CHANGE" /\ kept = <<>>))
  /\ CondSignal
  /\ DoneWithFrame
  /\ UNCHANGED <<flushing, startVars, held, downstream, notified, lastOut, owed, flushes,
                 unreported, waived>>

\* Mutant: the buffer of a rejected frame is not released.
RejectFrame_Leaks ==
  /\ capPc = "queue"
  /\ LockFree
  /\ flushing
  /\ DoneWithFrame
  /\ UNCHANGED <<queueVars, startVars, strVars, inUse, flushes, lossVars>>

\* The same while flushing: the buffer is released.
RejectFrame ==
  /\ capPc = "queue"
  /\ LockFree
  /\ flushing
  /\ inUse' = inUse \ {capFrame}
  /\ DoneWithFrame
  /\ UNCHANGED <<queueVars, startVars, strVars, flushes, lossVars>>

-----------------------------------------------------------------------------
\* create, on the streaming thread.

\* start, the first time that create is called: the source is enabled, and the
\* streams start unless the audio source is not enabled yet (they then start later).
Start(streams) ==
  /\ strPc = "idle"
  /\ ~video_enabled
  /\ ~flushing
  /\ video_enabled' = TRUE
  /\ skipLeft' = IF streams THEN SkipFrames ELSE skipLeft
  /\ strPc' = "starting"
  /\ UNCHANGED <<queueVars, signal_state, restarts, capVars, held, downstream, notified,
                 lastOut, owed, inUse, flushes, lossVars>>

\* The end of start, past input->lock: the worker may be running by now.
ResetSkipped ==
  /\ strPc = "starting"
  /\ skipped_last' = 0
  /\ skipped_overall' = 0
  /\ strPc' = "entering"
  /\ UNCHANGED <<current_frames, flushing, startVars, capVars, held, downstream, notified,
                 lastOut, owed, inUse, flushes, lossVars>>

\* Takes src->lock (when called, or again after g_cond_wait).
EnterCreate ==
  /\ strPc = "entering" \/ (strPc = "idle" /\ video_enabled)
  /\ strPc' = "check"
  /\ UNCHANGED <<queueVars, startVars, capVars, held, downstream, notified, lastOut, owed,
                 inUse, flushes, lossVars>>

\* GST_FLOW_FLUSHING: the task of GstBaseSrc pauses and calls create again
\* after unlock_stop only.
ReturnFlushing ==
  /\ strPc = "check"
  /\ flushing
  /\ strPc' = "paused"
  /\ UNCHANGED <<queueVars, startVars, capVars, held, downstream, notified, lastOut, owed,
                 inUse, flushes, lossVars>>

\* The wait condition holds: g_cond_wait is next.
DecideToWait ==
  /\ strPc = "check"
  /\ ~flushing
  /\ current_frames = <<>>
  /\ strPc' = "sleep"
  /\ UNCHANGED <<queueVars, startVars, capVars, held, downstream, notified, lastOut, owed,
                 inUse, flushes, lossVars>>

\* g_cond_wait gives up src->lock and joins the waiters in one step.
Wait ==
  /\ strPc = "sleep"
  /\ strPc' = "waiting"
  /\ UNCHANGED <<queueVars, startVars, capVars, held, downstream, notified, lastOut, owed,
                 inUse, flushes, lossVars>>

\* g_cond_wait may also return without a signal.
SpuriousWakeup ==
  /\ strPc = "waiting"
  /\ strPc' = "entering"
  /\ UNCHANGED <<queueVars, startVars, capVars, held, downstream, notified, lastOut, owed,
                 inUse, flushes, lossVars>>

\* Frame b comes after frame a with nothing lost between them but what
\* skip_first_time left out.
Joined(a, b) == a < b /\ \A n \in (a + 1)..(b - 1) : n \in waived

\* What gst_queue_array_pop_head_struct leaves.
Popped(q) == Tail(q)

\* Pops the oldest entry and notifies its change.  An entry without a buffer
\* leads back to the wait condition with src->lock held.
Pop ==
  LET f == Head(current_frames)
      discont == f.first \/ f.dropped
  IN
  /\ strPc = "check"
  /\ ~flushing
  /\ current_frames # <<>>
  /\ current_frames' = Popped(current_frames)
  /\ notified' = IF f.change = "NO_CHANGE" THEN notified ELSE f.change
  /\ IF f.frame = 0
       THEN UNCHANGED <<strPc, held, lastOut, owed>>
       ELSE /\ strPc' = "have"
            /\ held' = f
            /\ lastOut' = f.frame
            /\ owed' = (/\ ~discont
                        /\ owed \/ (lastOut # 0 /\ ~Joined(lastOut, f.frame)))
  /\ UNCHANGED <<flushing, skipped_last, skipped_overall, startVars, capVars, downstream,
                 inUse, flushes, lossVars>>

\* Past src->lock: the output buffer gets a reference of its own before
\* aja_capture_video_frame_clear gives up the entry's.
Deliver ==
  /\ strPc = "have"
  /\ downstream' = downstream \union {held.frame}
  /\ held' = NoEntry
  /\ strPc' = "idle"
  /\ UNCHANGED <<queueVars, startVars, capVars, notified, lastOut, owed, inUse, flushes,
                 lossVars>>

\* The next elements drop the last reference: the buffer is back in the pool.
ReleaseDownstream(n) ==
  /\ n \in downstream
  /\ downstream' = downstream \ {n}
  /\ inUse' = inUse \ {n}
  /\ UNCHANGED <<queueVars, startVars, capVars, strPc, held, notified, lastOut, owed,
                 flushes, lossVars>>

-----------------------------------------------------------------------------
\* unlock, unlock_stop, start_streams and stop, on the application's thread.

Unlock ==
  /\ LockFree
  /\ ~flushing
  /\ flushes + restarts < MaxCalls
  /\ flushes' = flushes + 1
  /\ flushing' = TRUE
  /\ CondSignal
  /\ UNCHANGED <<current_frames, skipped_last, skipped_overall, startVars, capVars, held,
                 downstream, notified, lastOut, owed, inUse, lossVars>>

\* GstBaseSrc calls it once the streaming thread has left create (it takes the
\* live lock or the stream lock first, both held around create).  READY_TO_PAUSED
\* after a stop does the same to flushing, with nothing left to drain.
UnlockStop ==
  /\ flushing
  /\ strPc \in {"idle", "paused"}
  /\ strPc' = "idle"
  /\ flushing' = FALSE
  /\ inUse' = inUse \ FramesOf(current_frames)
  /\ unreported' = (unreported \/ \E i \in DOMAIN current_frames :
                                    current_frames[i].change # "NO_CHANGE")
  /\ current_frames' = <<>>
  /\ lastOut' = 0
  /\ owed' = FALSE
  /\ UNCHANGED <<skipped_last, skipped_overall, startVars, capVars, held, downstream,
                 notified, flushes, forgotten, waived>>

\* start_streams while frames arrive, when the source goes to PLAYING again or the
\* audio source is enabled: the signal state is unknown and skip_first_time counts
\* anew.
StartStreams ==
  /\ LockFree
  /\ video_enabled
  /\ flushes + restarts < MaxCalls
  /\ restarts' = restarts + 1
  /\ signal_state' = "UNKNOWN"
  /\ skipLeft' = SkipFrames
  /\ UNCHANGED <<queueVars, video_enabled, capVars, strVars, inUse, flushes, lossVars>>

\* stop, once GstBaseSrc has ended the streaming task and Quit the worker.
Stop ==
  /\ video_enabled
  /\ strPc \in {"idle", "paused"}
  /\ capPc = "idle"
  /\ flushes + restarts < MaxCalls
  /\ restarts' = restarts + 1
  /\ video_enabled' = FALSE
  /\ inUse' = inUse \ FramesOf(current_frames)
  /\ current_frames' = <<>>
  /\ signal_state' = "UNKNOWN"
  /\ lastOut' = 0
  /\ owed' = FALSE
  /\ UNCHANGED <<flushing, skipped_last, skipped_overall, skipLeft, capVars, strPc, held,
                 downstream, notified, flushes, lossVars>>

-----------------------------------------------------------------------------
CaptureMarker == PushMarker \/ SignalMarker
CaptureFrame == SkipFrame \/ PassFrame \/ EnqueueFrame \/ RejectFrame
CaptureInput == CallbackDisabled \/ GotNoSignal \/ \E d \in BOOLEAN : GotFrame(d)
Starting == ResetSkipped \/ \E streams \in BOOLEAN : Start(streams)
Streaming == EnterCreate \/ ReturnFlushing \/ DecideToWait \/ Wait \/ Pop \/ Deliver

Next ==
  \/ CaptureInput
  \/ CaptureMarker
  \/ CaptureFrame
  \/ Starting
  \/ Streaming
  \/ SpuriousWakeup
  \/ \E n \in 1..MaxFrames : ReleaseDownstream(n)
  \/ Unlock
  \/ UnlockStop
  \/ StartStreams
  \/ Stop

Spec == Init /\ [][Next]_vars

\* got_frame runs to its end once called, the task of GstBaseSrc calls create
\* again and again, and unlock_stop follows every unlock.  Nothing makes the
\* card deliver frames, the application flush, or downstream release buffers.
Fairness ==
  /\ WF_vars(CaptureMarker)
  /\ WF_vars(CaptureFrame)
  /\ WF_vars(Starting \/ Streaming)
  /\ WF_vars(UnlockStop)

FairSpec == Spec /\ Fairness

-----------------------------------------------------------------------------
QueueOK ==
  /\ current_frames \in Seq(Entry)
  /\ flushing \in BOOLEAN
  /\ skipped_last \in Nat
  /\ skipped_overall \in Nat

\* A marker is only ever pushed to report a change, and a frame is held exactly
\* when it is about to be handed on.
CaptureOK ==
  /\ capPc \in {"idle", "mark", "signal", "frame", "queue"}
  /\ capMarker \in SignalChange
  /\ capFirst \in BOOLEAN
  /\ capDropped \in BOOLEAN
  /\ capPc \in {"mark", "signal"} <=> capMarker # "NO_CHANGE"
  /\ capPc = "idle" => capFrame = 0
  /\ capPc \in {"frame", "queue"} => capFrame # 0

\* A source that is not enabled knows of no signal, and no thread is at work on it.
StartOK ==
  /\ video_enabled \in BOOLEAN
  /\ signal_state \in SignalState
  /\ skipLeft \in 0..SkipFrames
  /\ restarts \in 0..MaxCalls
  /\ flushes \in 0..MaxCalls
  /\ ~video_enabled => /\ signal_state = "UNKNOWN"
                       /\ capPc = "idle"
                       /\ strPc \in {"idle", "paused"}

StreamOK ==
  /\ strPc \in {"idle", "starting", "check", "sleep", "waiting", "entering", "have", "paused"}
  /\ held \in Entry
  /\ notified \in SignalChange
  /\ owed \in BOOLEAN
  /\ unreported \in BOOLEAN
  /\ forgotten \in BOOLEAN
  /\ strPc = "have" => held.frame # 0
  /\ strPc # "have" => held = NoEntry

NumbersOK ==
  /\ frameNumber \in 0..MaxFrames
  /\ capFrame \in 0..frameNumber
  /\ lastOut \in 0..frameNumber
  /\ downstream \subseteq 1..frameNumber
  /\ inUse \subseteq 1..frameNumber
  /\ waived \subseteq 1..frameNumber

\* Type invariant.
TypeOK == QueueOK /\ CaptureOK /\ StartOK /\ StreamOK /\ NumbersOK

Holding(n) == IF n = 0 THEN {} ELSE {n}

\* Every buffer taken from the pool has exactly one owner: the capture thread,
\* the queue, the streaming thread or the elements downstream.  A buffer in
\* inUse and with none of them is leaked; one with an owner and not in inUse,
\* or with two, is released twice.
BufferHasOneOwner ==
  LET cap == Holding(capFrame)
      queue == FramesOf(current_frames)
      str == Holding(held.frame)
  IN
  /\ inUse = cap \union queue \union str \union downstream
  /\ cap \intersect (queue \union str \union downstream) = {}
  /\ queue \intersect (str \union downstream) = {}
  /\ str \intersect downstream = {}

Ordered(q) ==
  \A i, j \in DOMAIN q :
    i < j /\ q[i].frame # 0 /\ q[j].frame # 0 => q[i].frame < q[j].frame

\* Frames wait in the order of their capture and none that left the queue
\* comes back: what create returns is increasing, whatever was dropped.
FramesInOrder ==
  /\ Ordered(current_frames)
  /\ \A n \in FramesOf(current_frames) :
       lastOut < n /\ n <= frameNumber /\ (capFrame # 0 => n < capFrame)

\* The streaming thread never sleeps on a frame or through a flush: whoever
\* pushes a frame or sets flushing does it with src->lock held and signals.
NoMissedWakeup ==
  strPc = "waiting" => ~flushing /\ FramesOf(current_frames) = {}

\* The change an application will know of once the queue is drained.
LastChange ==
  LET changes == {i \in DOMAIN current_frames :
                    current_frames[i].change # "NO_CHANGE"}
  IN IF changes = {}
       THEN notified
       ELSE current_frames[CHOOSE i \in changes : \A j \in changes : j <= i].change

Reports(change, state) ==
  \/ state = "LOST" /\ change = "LOST_SIGNAL"
  \/ state = "AVAILABLE" /\ change \in {"GOT_SIGNAL", "RECOVERED_SIGNAL"}

\* The comments in got_frame (1048, 1067, 1128, 1163): the signal changes reach the
\* streaming thread after the frames queued before them, and a GOT is remembered and
\* written back when its entry is dropped.  So once the queue is drained the last
\* notification agrees with the signal state since start_streams, unless a flush
\* discarded it.  With room for one entry only it does not: see VideoQueueOneEntry.
SignalTracked ==
  capPc # "mark" /\ signal_state # "UNKNOWN" /\ ~unreported
    => Reports(LastChange, signal_state)

QueuedFrame(n) == \E i \in DOMAIN current_frames : current_frames[i].frame = n

\* A gap in the frame numbers that create returns is always followed by a
\* frame with DISCONT: while none is queued, skipped_last is still to be
\* reported and will mark the first frame pushed after the dropping ends.  A gap of
\* frames left out by skip_first_time after start_streams is the one that is not
\* announced: the mark of the first frame goes with it.
GapAnnounced ==
  LET frames == FramesOf(current_frames)
      gapAtHead == /\ lastOut # 0
                   /\ frames # {}
                   /\ \A n \in frames : ~Joined(lastOut, n)
  IN
  (owed \/ gapAtHead) =>
    \/ skipped_last > 0
    \/ \E i \in DOMAIN current_frames :
         /\ current_frames[i].frame # 0
         /\ current_frames[i].first \/ current_frames[i].dropped

\* A frame that is queued leaves the queue: it is returned, dropped or flushed.
FramesLeave ==
  \A n \in 1..MaxFrames : QueuedFrame(n) ~> ~QueuedFrame(n)

\* unlock gets the streaming thread out of create.
UnlockUnblocks == flushing ~> strPc \in {"idle", "paused"}

\* The comment at 1048: a lost signal is handled by the streaming thread.  As
\* long as the signal stays lost and nothing is flushed, LOST is notified.
LossIsNotified ==
  (signal_state = "LOST" /\ capPc = "idle" /\ ~unreported)
    ~> (notified = "LOST_SIGNAL" \/ signal_state # "LOST" \/ flushing)

\* The abstract queue of LossyFifo, with the markers left out.
Fifo == INSTANCE LossyFifo WITH
          Capacity <- QueueSize,
          MaxItem <- MaxFrames,
          items <- FramesOf(current_frames),
          taken <- lastOut

FifoSpec == Fifo!Spec
=============================================================================
