-------------------------- MODULE VideoQueueProofs --------------------------
(***************************************************************************)
(* Theorems about the frame queue: the types, the single owner of every    *)
(* buffer, the order of the frames and the wakeups hold for every queue    *)
(* size and every number of frames and of calls.                           *)
(*                                                                         *)
(* BufferHasOneOwner, FramesInOrder and the types are inductive only       *)
(* together, and with two facts of their own: Ahead (the frame that the    *)
(* capture thread holds is newer than all that left the queue) and Asleep  *)
(* (the streaming thread has decided to wait, or waits, only while no      *)
(* frame is queued and nothing flushes).                                   *)
(***************************************************************************)
EXTENDS VideoQueue, FiniteSetTheorems, TLAPS

\* The frame number and the signal change of an AjaCaptureVideoFrame.
LEMMA EntryType ==
  ASSUME NEW e \in Entry
  PROVE  e.frame \in Nat /\ e.change \in SignalChange
  BY DEF Entry

\* push_tail adds the frame of its entry, if it has one, and no other.
LEMMA AppendFrames ==
  ASSUME NEW q \in Seq(Entry), NEW e \in Entry
  PROVE  /\ Append(q, e) \in Seq(Entry)
         /\ FramesOf(Append(q, e)) = FramesOf(q) \union Holding(e.frame)
  BY DEF FramesOf, Holding

\* The dropping loop of got_frame pops no more entries than there are.
LEMMA ExcessType ==
  ASSUME NEW q \in Seq(Entry)
  PROVE  Excess(q) \in 0..Len(q)
  BY VideoQueueAssumption DEF Excess

\* The loop splits the queue: what it popped, then what is left.
LEMMA Parts ==
  ASSUME NEW q \in Seq(Entry)
  PROVE  /\ Dropped(q) \in Seq(Entry) /\ Kept(q) \in Seq(Entry)
         /\ Len(Dropped(q)) = Excess(q) /\ Len(Kept(q)) = Len(q) - Excess(q)
         /\ \A i \in 1..Excess(q) : Dropped(q)[i] = q[i]
         /\ \A i \in 1..(Len(q) - Excess(q)) : Kept(q)[i] = q[i + Excess(q)]
  BY ExcessType DEF Dropped, Kept

\* Writing a signal change into an entry leaves its frame alone.
LEMMA WithChangeType ==
  ASSUME NEW e \in Entry, NEW c \in SignalChange
  PROVE  WithChange(e, c) \in Entry /\ WithChange(e, c).frame = e.frame
  BY DEF WithChange, Entry

\* So does writing the remembered change into the oldest entry left.
LEMMA RewrittenType ==
  ASSUME NEW q \in Seq(Entry), NEW c \in SignalChange
  PROVE  /\ Rewritten(q, c) \in Seq(Entry)
         /\ Len(Rewritten(q, c)) = Len(q)
         /\ \A i \in 1..Len(q) : Rewritten(q, c)[i].frame = q[i].frame
<1>1. CASE c # "NO_CHANGE" /\ q # <<>>
  <2> DEFINE e == WithChange(q[1], c)
  <2>1. 1 \in 1..Len(q) /\ q[1] \in Entry
    BY <1>1
  <2>2. e \in Entry /\ e.frame = q[1].frame
    BY <2>1, WithChangeType
  <2>3. Rewritten(q, c) = [q EXCEPT ![1] = e]
    BY <1>1, <2>1 DEF Rewritten
  <2> HIDE DEF e
  <2> QED
    BY <2>1, <2>2, <2>3
<1>2. CASE ~(c # "NO_CHANGE" /\ q # <<>>)
  BY <1>2 DEF Rewritten
<1> QED
  BY <1>1, <1>2

\* A queue stays ordered when a marker, or a frame newer than all in it, is
\* pushed.
LEMMA OrderedAppend ==
  ASSUME NEW q \in Seq(Entry), NEW e \in Entry, Ordered(q),
         e.frame # 0 => \A n \in FramesOf(q) : n < e.frame
  PROVE  Ordered(Append(q, e))
  BY EntryType DEF Ordered, FramesOf

\* The order and the set of frames depend on the frame numbers alone.
LEMMA SameFrames ==
  ASSUME NEW q \in Seq(Entry), NEW r \in Seq(Entry), Len(q) = Len(r),
         \A i \in 1..Len(q) : q[i].frame = r[i].frame
  PROVE  FramesOf(q) = FramesOf(r) /\ (Ordered(q) => Ordered(r))
  BY DEF Ordered, FramesOf

\* A frame is in the queue when an entry has its number.
LEMMA InFramesOf ==
  ASSUME NEW q \in Seq(Entry), NEW n
  PROVE  n \in FramesOf(q) <=> n # 0 /\ \E i \in 1..Len(q) : q[i].frame = n
  BY DEF FramesOf

\* The dropping loop loses no frame and keeps none it dropped: in an ordered
\* queue the frames popped are older than the frames left.
LEMMA KeptFrames ==
  ASSUME NEW q \in Seq(Entry), Ordered(q)
  PROVE  /\ FramesOf(q) = FramesOf(Dropped(q)) \union FramesOf(Kept(q))
         /\ FramesOf(Dropped(q)) \intersect FramesOf(Kept(q)) = {}
         /\ \A n \in FramesOf(Dropped(q)), m \in FramesOf(Kept(q)) : n < m
         /\ Ordered(Kept(q))
<1> DEFINE D == Dropped(q)
<1> DEFINE K == Kept(q)
<1> DEFINE x == Excess(q)
<1>0. /\ x \in 0..Len(q) /\ Len(q) \in Nat
      /\ D \in Seq(Entry) /\ K \in Seq(Entry)
      /\ Len(D) = x /\ Len(K) = Len(q) - x
      /\ \A i \in 1..x : D[i] = q[i]
      /\ \A i \in 1..(Len(q) - x) : K[i] = q[i + x]
  <2>1. x \in 0..Len(q) /\ Len(q) \in Nat
    BY ExcessType
  <2> QED
    BY <2>1, Parts
<1>a. \A n : n \in FramesOf(D) <=> n # 0 /\ \E i \in 1..x : q[i].frame = n
  BY <1>0, InFramesOf
<1>b. \A n : n \in FramesOf(K)
              <=> n # 0 /\ \E i \in 1..(Len(q) - x) : q[i + x].frame = n
  <2> HIDE DEF D, K, x
  <2>1. \A n : n \in FramesOf(K)
                <=> n # 0 /\ \E i \in 1..(Len(q) - x) : K[i].frame = n
    BY <1>0, InFramesOf
  <2> QED
    BY ZenonT(40), <1>0, <2>1
<1>c. \A n : n \in FramesOf(q) <=> n # 0 /\ \E i \in 1..Len(q) : q[i].frame = n
  BY InFramesOf
<1> HIDE DEF D, K, x
<1>1. FramesOf(D) \subseteq FramesOf(q)
  <2> SUFFICES ASSUME NEW n, n # 0, NEW i \in 1..x, q[i].frame = n
               PROVE  \E j \in 1..Len(q) : q[j].frame = n
    BY <1>a, <1>c
  <2>1. i \in 1..Len(q)
    BY <1>0
  <2> QED
    BY <2>1
<1>2. FramesOf(K) \subseteq FramesOf(q)
  <2> SUFFICES ASSUME NEW n, n # 0, NEW i \in 1..(Len(q) - x), q[i + x].frame = n
               PROVE  \E j \in 1..Len(q) : q[j].frame = n
    BY <1>b, <1>c
  <2>1. i + x \in 1..Len(q)
    BY <1>0
  <2> QED
    BY <2>1
<1>3. FramesOf(q) \subseteq FramesOf(D) \union FramesOf(K)
  <2> SUFFICES ASSUME NEW n, n # 0, NEW i \in 1..Len(q), q[i].frame = n
               PROVE  n \in FramesOf(D) \union FramesOf(K)
    BY <1>c
  <2>1. CASE i <= x
    <3>1. i \in 1..x
      BY <1>0, <2>1
    <3> QED
      BY <1>a, <3>1
  <2>2. CASE i > x
    <3>1. i - x \in 1..(Len(q) - x) /\ (i - x) + x = i
      BY <1>0, <2>2
    <3> QED
      BY <1>b, <3>1
  <2> QED
    BY <1>0, <2>1, <2>2
<1>4. ASSUME NEW n \in FramesOf(D), NEW m \in FramesOf(K)
      PROVE  n < m
  <2>1. PICK i \in 1..x : q[i].frame = n /\ n # 0
    BY <1>a
  <2>2. PICK j \in 1..(Len(q) - x) : q[j + x].frame = m /\ m # 0
    BY <1>b
  <2>3. i \in 1..Len(q) /\ j + x \in 1..Len(q) /\ i < j + x
    BY <1>0
  <2> QED
    BY <2>1, <2>2, <2>3 DEF Ordered
<1>5. Ordered(K)
  <2> SUFFICES ASSUME NEW i \in 1..(Len(q) - x), NEW j \in 1..(Len(q) - x),
                      i < j, K[i].frame # 0, K[j].frame # 0
               PROVE  K[i].frame < K[j].frame
    <3>1. DOMAIN K = 1..(Len(q) - x)
      BY <1>0
    <3> QED
      BY <3>1 DEF Ordered
  <2>1. i + x \in 1..Len(q) /\ j + x \in 1..Len(q) /\ i + x < j + x
    BY <1>0
  <2>2. K[i] = q[i + x] /\ K[j] = q[j + x]
    BY <1>0
  <2> QED
    BY <2>1, <2>2 DEF Ordered
<1>6. \A n \in FramesOf(q) : n \in Nat
  <2> SUFFICES ASSUME NEW i \in 1..Len(q) PROVE q[i].frame \in Nat
    BY <1>c
  <2> QED
    BY EntryType
<1>7. FramesOf(D) \intersect FramesOf(K) = {}
  BY <1>1, <1>2, <1>4, <1>6
<1> QED
  BY <1>1, <1>2, <1>3, <1>4, <1>5, <1>7 DEF D, K

\* pop_head takes the oldest frame of an ordered queue.
LEMMA TailFrames ==
  ASSUME NEW q \in Seq(Entry), q # <<>>, Ordered(q)
  PROVE  /\ Head(q) \in Entry /\ Tail(q) \in Seq(Entry)
         /\ FramesOf(q) = Holding(Head(q).frame) \union FramesOf(Tail(q))
         /\ Head(q).frame # 0 => \A n \in FramesOf(Tail(q)) : Head(q).frame < n
         /\ Ordered(Tail(q))
<1>1. /\ Head(q) \in Entry /\ Tail(q) \in Seq(Entry)
      /\ Len(Tail(q)) = Len(q) - 1 /\ Len(q) \in Nat \ {0}
      /\ \A i \in 1..(Len(q) - 1) : Tail(q)[i] = q[i + 1]
      /\ Head(q) = q[1]
  OBVIOUS
<1>2. FramesOf(q) \subseteq Holding(Head(q).frame) \union FramesOf(Tail(q))
  <2> SUFFICES ASSUME NEW i \in 1..Len(q), q[i].frame # 0
               PROVE  q[i].frame \in Holding(Head(q).frame) \union FramesOf(Tail(q))
    BY DEF FramesOf
  <2>1. CASE i = 1
    BY <2>1, <1>1 DEF Holding
  <2>2. CASE i # 1
    <3>1. i - 1 \in 1..(Len(q) - 1) /\ Tail(q)[i - 1] = q[i]
      BY <2>2, <1>1
    <3> QED
      BY <3>1, <1>1, InFramesOf
  <2> QED
    BY <2>1, <2>2
<1>3. Holding(Head(q).frame) \union FramesOf(Tail(q)) \subseteq FramesOf(q)
  BY <1>1 DEF FramesOf, Holding
<1>4. Head(q).frame # 0 => \A n \in FramesOf(Tail(q)) : Head(q).frame < n
  BY <1>1 DEF FramesOf, Ordered
<1>5. Ordered(Tail(q))
  BY <1>1 DEF Ordered
<1> QED
  BY <1>1, <1>2, <1>3, <1>4, <1>5

\* The streaming thread is about to wait, or waits, for a reason.
Asleep ==
  strPc \in {"sleep", "waiting"} => ~flushing /\ FramesOf(current_frames) = {}

\* The frame that the capture thread holds has not left the queue before.
Ahead == capFrame # 0 => lastOut < capFrame

Inv ==
  /\ TypeOK
  /\ BufferHasOneOwner
  /\ FramesInOrder
  /\ Ahead
  /\ Asleep

\* The queue after unlock_stop has no frames.
LEMMA EmptyFrames ==
  <<>> \in Seq(Entry) /\ FramesOf(<<>>) = {} /\ Ordered(<<>>)
<1>1. <<>> \in Seq(Entry) /\ Len(<<>>) = 0
  OBVIOUS
<1>2. ASSUME NEW n \in FramesOf(<<>>) PROVE FALSE
  <2>1. \E i \in 1..Len(<<>>) : <<>>[i].frame = n
    BY <1>1, InFramesOf
  <2> QED
    BY <1>1, <2>1
<1>3. Ordered(<<>>)
  BY DEF Ordered
<1> QED
  BY <1>1, <1>2, <1>3

\* The cleared AjaCaptureVideoFrame of create.
LEMMA NoEntryType == NoEntry \in Entry /\ NoEntry.frame = 0
  BY DEF NoEntry, Marker, Entry, SignalChange

\* gst_aja_video_src_init establishes the invariant.
LEMMA InitInv == Init => Inv
<1> SUFFICES ASSUME Init PROVE Inv
  OBVIOUS
<1>1. QueueOK /\ FramesOf(current_frames) = {} /\ Ordered(current_frames)
  BY EmptyFrames DEF Init, QueueOK
<1>2. CaptureOK /\ StartOK
  <2>1. skipLeft \in 0..SkipFrames /\ flushes \in 0..MaxCalls /\ restarts \in 0..MaxCalls
    BY VideoQueueAssumption DEF Init
  <2> QED
    BY <2>1 DEF Init, CaptureOK, StartOK, SignalState, SignalChange
<1>3. StreamOK
  BY NoEntryType DEF Init, StreamOK, SignalChange
<1>4. NumbersOK
  BY VideoQueueAssumption DEF Init, NumbersOK
<1>5. BufferHasOneOwner
  BY <1>1, NoEntryType DEF Init, BufferHasOneOwner, Holding
<1> QED
  BY <1>1, <1>2, <1>3, <1>4, <1>5 DEF Init, Inv, TypeOK, FramesInOrder, Ahead, Asleep

\* A new frame number is above all numbers in use.
LEMMA NumbersGrow ==
  ASSUME Inv, capFrame = 0, frameNumber' \in frameNumber..MaxFrames
  PROVE  /\ frameNumber \in Nat /\ frameNumber' \in 0..MaxFrames
         /\ \A m \in 0..frameNumber : m \in 0..frameNumber'
         /\ \A m \in FramesOf(current_frames) : /\ lastOut < m /\ m \in Nat
                                                 /\ m <= frameNumber /\ m <= frameNumber'
<1>1. /\ frameNumber \in Nat /\ frameNumber' \in Nat /\ frameNumber <= frameNumber'
      /\ frameNumber' <= MaxFrames
  BY VideoQueueAssumption DEF Inv, TypeOK, NumbersOK
<1>2. \A m \in FramesOf(current_frames) : lastOut < m /\ m <= frameNumber /\ m \in inUse
  BY DEF Inv, FramesInOrder, BufferHasOneOwner
<1>3. \A m \in inUse : m \in Nat
  BY <1>1 DEF Inv, TypeOK, NumbersOK
<1> QED
  BY <1>1, <1>2, <1>3, VideoQueueAssumption

\* Without a signal, and while the source is not enabled, no frame is changed and
\* nobody is woken; at most a number is used up.
LEMMA NoFrameStep == ASSUME Inv, GotNoSignal \/ CallbackDisabled PROVE Inv'
<1> USE DEF Inv, TypeOK, queueVars, startVars, strVars, lossVars
<1>0. capFrame = 0
  BY DEF GotNoSignal, CallbackDisabled, CaptureOK
<1>a. /\ frameNumber \in Nat /\ frameNumber' \in 0..MaxFrames
      /\ \A m \in 0..frameNumber : m \in 0..frameNumber'
      /\ \A m \in FramesOf(current_frames) : m <= frameNumber'
  <2> HIDE DEF Inv
  <2> QED
    BY <1>0, NumbersGrow DEF GotNoSignal, CallbackDisabled
<1>1. QueueOK' /\ StreamOK'
  BY DEF GotNoSignal, CallbackDisabled, QueueOK, StreamOK
<1>2. CaptureOK' /\ StartOK'
  BY DEF GotNoSignal, CallbackDisabled, CaptureOK, StartOK, SignalState, SignalChange
<1>b. /\ UNCHANGED <<current_frames, flushing, strPc, capFrame, lastOut, held, downstream,
                     inUse, waived>>
  BY DEF GotNoSignal, CallbackDisabled
<1>3. NumbersOK'
  BY <1>a, <1>b DEF NumbersOK
<1>4. BufferHasOneOwner' /\ Ahead' /\ Asleep'
  BY <1>b DEF BufferHasOneOwner, Ahead, Asleep
<1>5. FramesInOrder'
  BY <1>a, <1>b DEF FramesInOrder
<1> QED
  BY <1>1, <1>2, <1>3, <1>4, <1>5

\* The buffer that the worker acquired is new to the pool and newer than every
\* frame.
LEMMA GotFrameStep == ASSUME Inv, NEW d \in BOOLEAN, GotFrame(d) PROVE Inv'
<1> DEFINE n == frameNumber'
<1> USE DEF Inv, TypeOK, queueVars, strVars
<1>1. /\ n \in Nat \ {0} /\ n > frameNumber /\ n <= MaxFrames
      /\ capFrame = 0
      /\ frameNumber \in Nat
  BY VideoQueueAssumption DEF GotFrame, CaptureOK, NumbersOK
<1>2. /\ frameNumber' = n /\ capFrame' = n /\ inUse' = inUse \union {n}
      /\ UNCHANGED <<queueVars, strVars, video_enabled, skipLeft, restarts, flushes,
                     forgotten, waived>>
      /\ video_enabled
  BY DEF GotFrame
<1> HIDE DEF n
<1>3. QueueOK' /\ StreamOK'
  <2>1. unreported' \in BOOLEAN
    BY DEF GotFrame, StreamOK
  <2> QED
    BY <1>2, <2>1 DEF QueueOK, StreamOK
<1>4. CaptureOK' /\ StartOK'
  <2>1. /\ capPc' \in {"mark", "frame"}
        /\ capMarker' \in SignalChange
        /\ capPc' = "mark" <=> capMarker' # "NO_CHANGE"
    BY DEF GotFrame, CaptureOK, SignalChange, AppearsAs
  <2>2. /\ signal_state' \in SignalState /\ capFirst' \in BOOLEAN
        /\ capDropped' \in BOOLEAN
    BY DEF GotFrame, CaptureOK, SignalState
  <2> QED
    BY <1>1, <1>2, <2>1, <2>2 DEF CaptureOK, StartOK
<1>5. NumbersOK'
  BY <1>1, <1>2 DEF NumbersOK
<1>6. BufferHasOneOwner'
  <2>1. n \notin inUse
    BY <1>1 DEF NumbersOK
  <2> QED
    BY <1>1, <1>2, <2>1 DEF BufferHasOneOwner, Holding
<1>7. FramesInOrder' /\ Ahead'
  <2>1. \A m \in FramesOf(current_frames) : lastOut < m /\ m <= frameNumber /\ m \in inUse
    BY DEF FramesInOrder, BufferHasOneOwner
  <2>2. \A m \in FramesOf(current_frames) : m <= n /\ m < n
    <3> SUFFICES ASSUME NEW m \in FramesOf(current_frames)
                 PROVE  m <= n /\ m < n
      OBVIOUS
    <3>1. m \in inUse /\ m <= frameNumber
      BY <2>1
    <3>2. m \in Nat
      BY <1>1, <3>1 DEF NumbersOK
    <3> QED
      BY <3>1, <3>2, <1>1
  <2> QED
    BY <1>1, <1>2, <2>1, <2>2 DEF FramesInOrder, Ahead, NumbersOK
<1>8. Asleep'
  BY <1>2 DEF Asleep
<1> QED
  BY <1>3, <1>4, <1>5, <1>6, <1>7, <1>8

\* The unlocked push of a marker adds no frame, so a sleeper has missed none.
LEMMA PushMarkerStep == ASSUME Inv, PushMarker PROVE Inv'
<1> USE DEF Inv, TypeOK, strVars
<1> DEFINE m == Marker(capMarker)
<1>1. m \in Entry /\ m.frame = 0
  BY DEF CaptureOK, Marker, Entry
<1>2. current_frames' = Append(current_frames, m)
  BY DEF PushMarker
<1> HIDE DEF m
<1>3. /\ current_frames' \in Seq(Entry)
      /\ FramesOf(current_frames') = FramesOf(current_frames)
      /\ FramesInOrder => Ordered(current_frames')
  BY <1>1, <1>2, AppendFrames, OrderedAppend DEF QueueOK, Holding, FramesInOrder
<1>4. QueueOK' /\ StreamOK' /\ NumbersOK'
  BY <1>3 DEF PushMarker, QueueOK, StreamOK, NumbersOK
<1>5. CaptureOK' /\ StartOK'
  BY DEF PushMarker, CaptureOK, StartOK, startVars
<1>6. BufferHasOneOwner' /\ FramesInOrder' /\ Ahead' /\ Asleep'
  BY <1>3 DEF PushMarker, BufferHasOneOwner, FramesInOrder, Ahead, Asleep
<1> QED
  BY <1>4, <1>5, <1>6

\* The unlocked g_cond_signal only wakes.
LEMMA SignalMarkerStep == ASSUME Inv, SignalMarker PROVE Inv'
<1> USE DEF Inv, TypeOK, SignalMarker, CondSignal, queueVars, startVars, lossVars
<1>1. QueueOK' /\ NumbersOK'
  BY DEF QueueOK, NumbersOK
<1>2. CaptureOK' /\ StartOK' /\ StreamOK'
  BY DEF CaptureOK, StartOK, StreamOK, SignalChange
<1>3. BufferHasOneOwner' /\ FramesInOrder' /\ Ahead' /\ Asleep'
  BY DEF BufferHasOneOwner, FramesInOrder, Ahead, Asleep
<1> QED
  BY <1>1, <1>2, <1>3

\* A frame that is skipped after start_streams, or rejected while flushing, goes back
\* to the pool; one that is not skipped stays with the capture thread.
LEMMA GiveBackStep == ASSUME Inv, SkipFrame \/ RejectFrame PROVE Inv'
<1> USE DEF Inv, TypeOK, queueVars, strVars
<1>1. /\ capPc \in {"frame", "queue"} /\ capPc' = "idle" /\ capFrame' = 0
      /\ capFirst' = FALSE /\ capDropped' = FALSE /\ inUse' = inUse \ {capFrame}
      /\ skipLeft' \in 0..SkipFrames
      /\ waived' \subseteq 1..frameNumber
      /\ UNCHANGED <<queueVars, strVars, video_enabled, signal_state, restarts, capMarker,
                     frameNumber, flushes, unreported, forgotten>>
  <2>1. CASE SkipFrame
    <3>1. skipLeft \in 0..SkipFrames /\ skipLeft > 0 /\ skipLeft' \in 0..(skipLeft - 1)
      BY <2>1 DEF SkipFrame, StartOK
    <3>2. skipLeft' \in 0..SkipFrames
      BY <3>1, VideoQueueAssumption
    <3>3. waived' \subseteq 1..frameNumber
      <4>1. capFrame \in 0..frameNumber /\ waived \subseteq 1..frameNumber
        BY DEF NumbersOK
      <4>2. frameNumber \in Nat
        BY VideoQueueAssumption DEF NumbersOK
      <4>3. SincePushed \subseteq 1..frameNumber
        BY <4>1, <4>2 DEF SincePushed
      <4>4. waived' = waived \union SincePushed
        BY <2>1 DEF SkipFrame
      <4> QED
        BY <4>1, <4>3, <4>4
    <3> QED
      BY <2>1, <3>2, <3>3 DEF SkipFrame, DoneWithFrame
  <2>2. CASE RejectFrame
    <3>1. skipLeft' \in 0..SkipFrames /\ waived' \subseteq 1..frameNumber
      BY <2>2 DEF RejectFrame, startVars, lossVars, StartOK, NumbersOK
    <3> QED
      BY <2>2, <3>1 DEF RejectFrame, DoneWithFrame, startVars, lossVars
  <2> QED
    BY <2>1, <2>2
<1>2. QueueOK' /\ StreamOK'
  BY <1>1 DEF QueueOK, StreamOK
<1>3. CaptureOK' /\ StartOK'
  BY <1>1 DEF CaptureOK, StartOK
<1>4. NumbersOK'
  BY <1>1 DEF NumbersOK
<1>5. BufferHasOneOwner'
  BY <1>1 DEF BufferHasOneOwner, Holding, CaptureOK
<1>6. FramesInOrder' /\ Ahead' /\ Asleep'
  BY <1>1 DEF FramesInOrder, Ahead, Asleep
<1> QED
  BY <1>2, <1>3, <1>4, <1>5, <1>6

\* start, start_streams and the decision not to skip touch neither frames nor locks.
LEMMA StartSteps ==
  ASSUME Inv, PassFrame \/ Starting \/ StartStreams
  PROVE  Inv'
<1> USE DEF Inv, TypeOK, lossVars
<1>1. /\ UNCHANGED <<current_frames, flushing, capMarker, capFrame, capFirst, capDropped,
                     frameNumber, held, downstream, notified, lastOut, owed, inUse, flushes,
                     lossVars>>
      /\ skipped_last' \in Nat /\ skipped_overall' \in Nat
      /\ \/ UNCHANGED capPc
         \/ capPc = "frame" /\ capPc' = "queue"
      /\ \/ UNCHANGED strPc
         \/ strPc \in {"idle", "starting"} /\ strPc' \in {"starting", "entering"}
  <2>1. CASE PassFrame
    BY <2>1 DEF PassFrame, QueueOK, queueVars, strVars
  <2>2. CASE ResetSkipped
    BY <2>2 DEF ResetSkipped, capVars
  <2>3. ASSUME NEW b \in BOOLEAN, Start(b) PROVE <1>1!:
    BY <2>3 DEF Start, QueueOK, queueVars, capVars
  <2>4. CASE StartStreams
    BY <2>4 DEF StartStreams, QueueOK, queueVars, capVars, strVars
  <2> QED
    BY <2>1, <2>2, <2>3, <2>4 DEF Starting
<1>2. StartOK'
  <2>1. /\ SkipFrames \in 0..SkipFrames
        /\ flushes + restarts < MaxCalls => restarts + 1 \in 0..MaxCalls
    BY VideoQueueAssumption DEF StartOK
  <2>2. CASE PassFrame
    BY <2>2 DEF PassFrame, StartOK, startVars, strVars
  <2>3. CASE ResetSkipped
    BY <2>3 DEF ResetSkipped, StartOK, startVars, capVars
  <2>4. ASSUME NEW b \in BOOLEAN, Start(b) PROVE StartOK'
    BY <2>1, <2>4 DEF Start, StartOK
  <2>5. CASE StartStreams
    BY <2>1, <2>5 DEF StartStreams, StartOK, SignalState
  <2> QED
    BY <2>2, <2>3, <2>4, <2>5 DEF Starting
<1>3. QueueOK' /\ CaptureOK' /\ StreamOK' /\ NumbersOK'
  BY <1>1 DEF QueueOK, CaptureOK, StreamOK, NumbersOK
<1>4. BufferHasOneOwner' /\ FramesInOrder' /\ Ahead' /\ Asleep'
  BY <1>1 DEF BufferHasOneOwner, FramesInOrder, Ahead, Asleep
<1> QED
  BY <1>2, <1>3, <1>4

\* The frames dropped at once are finitely many, so their count is a number.
LEMMA FramesFinite ==
  ASSUME NEW S, S \subseteq 1..frameNumber, frameNumber \in Nat
  PROVE  IsFiniteSet(S) /\ Cardinality(S) \in Nat
<1>1. IsFiniteSet(1..frameNumber)
  BY FS_Interval
<1>2. IsFiniteSet(S)
  BY <1>1, FS_Subset
<1> QED
  BY <1>2, FS_CardinalityType

\* got_frame under src->lock: the dropped frames are back in the pool, the new
\* one is the newest in the queue, and the streaming thread is woken.
LEMMA EnqueueFrameStep == ASSUME Inv, EnqueueFrame PROVE Inv'
<1> USE DEF Inv, TypeOK
<1> DEFINE D == Dropped(current_frames)
<1> DEFINE K == Kept(current_frames)
<1> DEFINE lost == Cardinality(FramesOf(D))
<1> DEFINE endOfDrops == lost = 0 /\ skipped_last > 0
<1> DEFINE R == Rewritten(K, Remembered(D))
<1> DEFINE e == Captured(capFrame, capFirst, capDropped \/ endOfDrops)
<1>1. /\ current_frames \in Seq(Entry)
      /\ Ordered(current_frames)
      /\ capFrame \in Nat \ {0} /\ frameNumber \in Nat /\ capFrame <= frameNumber
      /\ capPc = "queue"
      /\ strPc \notin {"check", "sleep"}
      /\ ~flushing
  BY DEF EnqueueFrame, LockFree, QueueOK, CaptureOK, NumbersOK, FramesInOrder
<1>2. /\ current_frames' = Append(R, e)
      /\ inUse' = inUse \ FramesOf(D)
      /\ skipped_overall' = IF endOfDrops THEN skipped_overall + skipped_last
                                          ELSE skipped_overall
      /\ skipped_last' = IF endOfDrops THEN 0 ELSE skipped_last + lost
  BY DEF EnqueueFrame
<1>3. /\ capPc' = "idle" /\ capFrame' = 0 /\ capFirst' = FALSE /\ capDropped' = FALSE
      /\ strPc' = IF strPc = "waiting" THEN "entering" ELSE strPc
      /\ UNCHANGED <<capMarker, frameNumber, flushing, startVars, held, downstream,
                     notified, lastOut, owed, flushes, unreported, waived>>
      /\ forgotten' \in BOOLEAN
  <2> DEFINE c == Remembered(D) # "NO_CHANGE" /\ R = <<>>
  <2>1. forgotten' = (forgotten \/ c)
    BY DEF EnqueueFrame
  <2> HIDE DEF c
  <2>2. forgotten' \in BOOLEAN
    BY <2>1 DEF StreamOK
  <2> QED
    BY <2>2 DEF EnqueueFrame, DoneWithFrame, CondSignal
<1>4. /\ D \in Seq(Entry) /\ K \in Seq(Entry)
      /\ FramesOf(current_frames) = FramesOf(D) \union FramesOf(K)
      /\ FramesOf(D) \intersect FramesOf(K) = {}
      /\ Ordered(K)
  BY <1>1, Parts, KeptFrames
<1>5. /\ R \in Seq(Entry) /\ FramesOf(R) = FramesOf(K) /\ Ordered(R)
  <2> DEFINE c == Remembered(D)
  <2>1. c \in SignalChange
    BY DEF Remembered, SignalChange
  <2> HIDE DEF c, D, K
  <2>2. /\ Rewritten(K, c) \in Seq(Entry)
        /\ Len(Rewritten(K, c)) = Len(K)
        /\ \A i \in 1..Len(K) : Rewritten(K, c)[i].frame = K[i].frame
    BY <1>4, <2>1, RewrittenType
  <2> HIDE DEF R
  <2>3. /\ R \in Seq(Entry) /\ Len(K) = Len(R)
        /\ \A i \in 1..Len(K) : K[i].frame = R[i].frame
    BY <2>2 DEF R, c
  <2> QED
    BY <1>4, <2>3, SameFrames
<1>6. /\ e \in Entry /\ e.frame = capFrame
  <2> HIDE DEF endOfDrops
  <2>1. (capDropped \/ endOfDrops) \in BOOLEAN /\ capFirst \in BOOLEAN
    BY DEF CaptureOK
  <2> QED
    BY <1>1, <2>1 DEF Captured, Entry, SignalChange
<1>7. /\ FramesOf(current_frames) \subseteq inUse
      /\ inUse \subseteq 1..frameNumber
  BY DEF BufferHasOneOwner, NumbersOK
<1>8. lost \in Nat
  <2> HIDE DEF D, K
  <2>1. FramesOf(D) \subseteq 1..frameNumber
    BY <1>4, <1>7
  <2> QED
    BY <1>1, <2>1, FramesFinite
<1>9. \A n \in FramesOf(K) : lastOut < n /\ n <= frameNumber /\ n < capFrame
  BY <1>1, <1>4 DEF FramesInOrder
<1> HIDE DEF D, K, R, e
<1>10. /\ current_frames' \in Seq(Entry)
       /\ FramesOf(current_frames') = FramesOf(K) \union {capFrame}
       /\ Ordered(current_frames')
  <2>1. /\ Append(R, e) \in Seq(Entry)
        /\ FramesOf(Append(R, e)) = FramesOf(R) \union Holding(e.frame)
    BY <1>5, <1>6, AppendFrames
  <2>2. Ordered(Append(R, e))
    BY <1>5, <1>6, <1>9, OrderedAppend
  <2>3. Holding(e.frame) = {capFrame}
    BY <1>1, <1>6 DEF Holding
  <2> QED
    BY <1>2, <1>5, <2>1, <2>2, <2>3
<1>11. QueueOK'
  <2> HIDE DEF lost
  <2>1. skipped_last \in Nat /\ skipped_overall \in Nat /\ flushing \in BOOLEAN
    BY DEF QueueOK
  <2>2. skipped_last' \in Nat /\ skipped_overall' \in Nat
    BY <1>2, <1>8, <2>1
  <2> QED
    BY <1>3, <1>10, <2>1, <2>2 DEF QueueOK
<1>12. CaptureOK' /\ StartOK'
  BY <1>1, <1>3 DEF CaptureOK, StartOK, startVars
<1>13. StreamOK'
  BY <1>3 DEF StreamOK
<1>14. NumbersOK'
  <2>1. capFrame' \in 0..frameNumber
    BY <1>1, <1>3
  <2>2. inUse' \subseteq inUse
    BY <1>2
  <2>3. UNCHANGED <<frameNumber, lastOut, downstream, waived>>
    BY <1>3
  <2> QED
    BY <2>1, <2>2, <2>3 DEF NumbersOK
<1>15. BufferHasOneOwner'
  <2>1. capFrame \notin FramesOf(D)
    BY <1>1, <1>4 DEF BufferHasOneOwner, Holding
  <2>2. inUse' = FramesOf(K) \union {capFrame} \union Holding(held.frame) \union downstream
    BY <1>1, <1>2, <1>4, <2>1 DEF BufferHasOneOwner, Holding
  <2>3. Holding(capFrame') = {}
    BY <1>3 DEF Holding
  <2>4. Holding(capFrame) = {capFrame}
    BY <1>1 DEF Holding
  <2>5. held' = held /\ downstream' = downstream
    BY <1>3
  <2> QED
    BY <1>4, <1>10, <2>2, <2>3, <2>4, <2>5 DEF BufferHasOneOwner
<1>16. FramesInOrder'
  <2>1. \A n \in FramesOf(current_frames') : lastOut < n /\ n <= frameNumber
    BY <1>1, <1>9, <1>10 DEF Ahead
  <2> QED
    BY <1>3, <1>10, <2>1 DEF FramesInOrder
<1>17. Ahead' /\ Asleep'
  BY <1>1, <1>3 DEF Ahead, Asleep
<1> QED
  BY <1>11, <1>12, <1>13, <1>14, <1>15, <1>16, <1>17

\* create takes the oldest frame over from the queue.
LEMMA PopStep == ASSUME Inv, Pop PROVE Inv'
<1> USE DEF Inv, TypeOK
<1> DEFINE f == Head(current_frames)
<1> DEFINE T == Tail(current_frames)
<1>1. /\ current_frames \in Seq(Entry) /\ current_frames # <<>>
      /\ Ordered(current_frames) /\ strPc = "check"
      /\ held = NoEntry
  BY DEF Pop, QueueOK, FramesInOrder, StreamOK
<1>2. /\ f \in Entry /\ T \in Seq(Entry)
      /\ FramesOf(current_frames) = Holding(f.frame) \union FramesOf(T)
      /\ f.frame # 0 => \A n \in FramesOf(T) : f.frame < n
      /\ Ordered(T)
      /\ f.frame \in Nat /\ f.change \in SignalChange
  BY <1>1, TailFrames, EntryType
<1>3. /\ current_frames' = T
      /\ notified' = IF f.change = "NO_CHANGE" THEN notified ELSE f.change
      /\ UNCHANGED <<flushing, skipped_last, skipped_overall, startVars, capVars,
                     downstream, inUse, flushes, lossVars>>
      /\ f.frame = 0 => UNCHANGED <<strPc, held, lastOut, owed>>
      /\ f.frame # 0 => /\ strPc' = "have" /\ held' = f /\ lastOut' = f.frame
                        /\ owed' \in BOOLEAN
  BY DEF Pop, Popped
<1> HIDE DEF f, T
<1> USE DEF startVars, capVars, lossVars
<1>4. QueueOK' /\ CaptureOK' /\ StartOK'
  BY <1>1, <1>2, <1>3 DEF QueueOK, CaptureOK, StartOK
<1>5. StreamOK'
  <2>1. notified' \in SignalChange
    BY <1>2, <1>3 DEF StreamOK
  <2>2. CASE f.frame = 0
    BY <1>3, <2>1, <2>2 DEF StreamOK
  <2>3. CASE f.frame # 0
    BY <1>2, <1>3, <2>1, <2>3 DEF StreamOK
  <2> QED
    BY <2>2, <2>3
<1>6. f.frame # 0 => /\ f.frame \in FramesOf(current_frames)
                     /\ lastOut < f.frame /\ f.frame <= frameNumber
                     /\ f.frame \in 0..frameNumber
                     /\ (capFrame # 0 => f.frame < capFrame)
  BY <1>2 DEF Holding, FramesInOrder, NumbersOK
<1>7. NumbersOK'
  BY <1>3, <1>6 DEF NumbersOK
<1>8. BufferHasOneOwner'
  <2>1. Holding(held.frame) = {}
    BY <1>1, NoEntryType DEF Holding
  <2>2. CASE f.frame = 0
    BY <1>2, <1>3, <2>1, <2>2 DEF BufferHasOneOwner, Holding
  <2>3. CASE f.frame # 0
    <3>1. f.frame \notin FramesOf(T)
      BY <1>2, <2>3
    <3>2. Holding(held'.frame) = {f.frame} /\ Holding(f.frame) = {f.frame}
      BY <1>3, <2>3 DEF Holding
    <3>3. FramesOf(current_frames') = FramesOf(T) /\ capFrame' = capFrame
      BY <1>3
    <3>4. inUse' = inUse /\ downstream' = downstream
      BY <1>3
    <3> HIDE DEF Inv, TypeOK
    <3>5. BufferHasOneOwner
      BY DEF Inv
    <3> QED
      BY <1>2, <2>1, <3>1, <3>2, <3>3, <3>4, <3>5 DEF BufferHasOneOwner
  <2> QED
    BY <2>2, <2>3
<1>9. FramesInOrder'
  <2>1. \A n \in FramesOf(T) : n \in FramesOf(current_frames)
    BY <1>2
  <2>2. CASE f.frame = 0
    BY <1>2, <1>3, <2>1, <2>2 DEF FramesInOrder
  <2>3. CASE f.frame # 0
    BY <1>2, <1>3, <2>1, <2>3 DEF FramesInOrder
  <2> QED
    BY <2>2, <2>3
<1>10. Ahead'
  BY <1>3, <1>6 DEF Ahead
<1>11. Asleep'
  BY <1>1, <1>3 DEF Asleep
<1> QED
  BY <1>4, <1>5, <1>7, <1>8, <1>9, <1>10, <1>11

\* The frame that create returns belongs downstream.
LEMMA DeliverStep == ASSUME Inv, Deliver PROVE Inv'
<1> USE DEF Inv, TypeOK, Deliver, queueVars, startVars, capVars, lossVars
<1>1. QueueOK' /\ CaptureOK' /\ StartOK'
  BY DEF QueueOK, CaptureOK, StartOK
<1>2. StreamOK'
  BY NoEntryType DEF StreamOK
<1>3. held.frame # 0 /\ Holding(held.frame) = {held.frame} /\ Holding(held'.frame) = {}
  BY NoEntryType DEF StreamOK, Holding
<1>4. downstream' \subseteq inUse
  BY <1>3 DEF BufferHasOneOwner
<1>5. NumbersOK'
  BY <1>4 DEF NumbersOK
<1>6. BufferHasOneOwner'
  BY <1>3 DEF BufferHasOneOwner
<1>7. FramesInOrder' /\ Ahead' /\ Asleep'
  BY DEF FramesInOrder, Ahead, Asleep
<1> QED
  BY <1>1, <1>2, <1>5, <1>6, <1>7

\* The buffer that downstream releases has no other owner.
LEMMA ReleaseDownstreamStep == ASSUME Inv, NEW n, ReleaseDownstream(n) PROVE Inv'
<1> USE DEF Inv, TypeOK, ReleaseDownstream, queueVars, startVars, capVars, lossVars
<1>1. QueueOK' /\ CaptureOK' /\ StartOK' /\ StreamOK'
  BY DEF QueueOK, CaptureOK, StartOK, StreamOK
<1>2. NumbersOK'
  BY DEF NumbersOK
<1>3. BufferHasOneOwner'
  BY DEF BufferHasOneOwner
<1>4. FramesInOrder' /\ Ahead' /\ Asleep'
  BY DEF FramesInOrder, Ahead, Asleep
<1> QED
  BY <1>1, <1>2, <1>3, <1>4

\* create decides to wait only when no frame is queued and nothing flushes.
LEMMA WaitingSteps ==
  ASSUME Inv, EnterCreate \/ ReturnFlushing \/ DecideToWait \/ Wait \/ SpuriousWakeup
  PROVE  Inv'
<1> USE DEF Inv, TypeOK, queueVars, startVars, capVars, lossVars
<1>1. /\ strPc # "have" /\ strPc' # "have"
      /\ strPc' \in {"idle", "check", "sleep", "waiting", "entering", "paused"}
      /\ UNCHANGED <<queueVars, startVars, capVars, held, downstream, inUse, flushes,
                     notified, lastOut, owed, lossVars>>
      /\ video_enabled
  BY DEF EnterCreate, ReturnFlushing, DecideToWait, Wait, SpuriousWakeup, StartOK
<1>2. QueueOK' /\ CaptureOK' /\ StartOK' /\ NumbersOK'
  BY <1>1 DEF QueueOK, CaptureOK, StartOK, NumbersOK
<1>3. StreamOK'
  BY <1>1 DEF StreamOK
<1>4. BufferHasOneOwner' /\ FramesInOrder' /\ Ahead'
  BY <1>1 DEF BufferHasOneOwner, FramesInOrder, Ahead
<1>5. Asleep'
  <2>1. CASE DecideToWait
    <3>1. FramesOf(current_frames) = {}
      BY <2>1, EmptyFrames DEF DecideToWait
    <3> QED
      BY <2>1, <3>1 DEF DecideToWait, Asleep
  <2>2. CASE EnterCreate \/ ReturnFlushing \/ Wait \/ SpuriousWakeup
    BY <1>1, <2>2 DEF EnterCreate, ReturnFlushing, Wait, SpuriousWakeup, Asleep
  <2> QED
    BY <2>1, <2>2
<1> QED
  BY <1>2, <1>3, <1>4, <1>5

\* unlock cannot fall between the decision to wait and the wait: it needs
\* src->lock.
LEMMA UnlockStep == ASSUME Inv, Unlock PROVE Inv'
<1> USE DEF Inv, TypeOK, Unlock, CondSignal, startVars, capVars, lossVars
<1>1. QueueOK' /\ NumbersOK'
  BY DEF QueueOK, NumbersOK
<1>2. flushes' \in 0..MaxCalls
  BY VideoQueueAssumption DEF StartOK
<1>3. CaptureOK' /\ StartOK'
  BY <1>2 DEF CaptureOK, StartOK
<1>4. StreamOK'
  BY DEF StreamOK
<1>5. BufferHasOneOwner' /\ FramesInOrder' /\ Ahead'
  BY DEF BufferHasOneOwner, FramesInOrder, Ahead
<1>6. Asleep'
  BY DEF Asleep, LockFree
<1> QED
  BY <1>1, <1>3, <1>4, <1>5, <1>6

\* unlock_stop and stop give every queued frame back to the pool.
LEMMA DrainStep == ASSUME Inv, UnlockStop \/ Stop PROVE Inv'
<1> USE DEF Inv, TypeOK, capVars
<1>1. /\ strPc \in {"idle", "paused"} /\ strPc' \in {"idle", "paused"}
      /\ flushing' \in BOOLEAN
      /\ inUse' = inUse \ FramesOf(current_frames) /\ current_frames' = <<>>
      /\ lastOut' = 0 /\ owed' = FALSE /\ unreported' \in BOOLEAN
      /\ UNCHANGED <<skipped_last, skipped_overall, capVars, held, downstream, flushes,
                     notified, forgotten, waived>>
  BY DEF UnlockStop, Stop, StreamOK, QueueOK, lossVars
<1>2. /\ current_frames' \in Seq(Entry) /\ FramesOf(current_frames') = {}
      /\ Ordered(current_frames')
  BY <1>1, EmptyFrames
<1>3. QueueOK' /\ CaptureOK' /\ StreamOK'
  BY <1>1, <1>2 DEF QueueOK, CaptureOK, StreamOK
<1>4. StartOK'
  <2>1. CASE UnlockStop
    BY <1>1, <2>1 DEF UnlockStop, StartOK, startVars
  <2>2. CASE Stop
    <3>1. restarts' \in 0..MaxCalls
      BY <2>2, VideoQueueAssumption DEF Stop, StartOK
    <3> QED
      BY <1>1, <2>2, <3>1 DEF Stop, StartOK, SignalState
  <2> QED
    BY <2>1, <2>2
<1>5. NumbersOK'
  <2>1. lastOut' \in 0..frameNumber
    BY <1>1, VideoQueueAssumption DEF NumbersOK
  <2>2. inUse' \subseteq inUse
    BY <1>1
  <2>3. UNCHANGED <<frameNumber, capFrame, downstream, waived>>
    BY <1>1
  <2> QED
    BY <2>1, <2>2, <2>3 DEF NumbersOK
<1>6. BufferHasOneOwner'
  BY <1>1, <1>2 DEF BufferHasOneOwner
<1>7. FramesInOrder' /\ Asleep'
  BY <1>1, <1>2 DEF FramesInOrder, Asleep
<1>8. Ahead'
  BY <1>1 DEF Ahead, NumbersOK
<1> QED
  BY <1>3, <1>4, <1>5, <1>6, <1>7, <1>8

\* The invariant of the frame queue (got_frame, create, start, start_streams, stop,
\* unlock and unlock_stop).
THEOREM Invariance == Spec => []Inv
<1>1. Inv /\ [Next]_vars => Inv'
  <2> SUFFICES ASSUME Inv, [Next]_vars PROVE Inv'
    OBVIOUS
  <2>1. CASE CaptureInput
    BY <2>1, NoFrameStep, GotFrameStep DEF CaptureInput
  <2>2. CASE CaptureMarker
    BY <2>2, PushMarkerStep, SignalMarkerStep DEF CaptureMarker
  <2>3. CASE CaptureFrame
    BY <2>3, GiveBackStep, StartSteps, EnqueueFrameStep DEF CaptureFrame
  <2>4. CASE Streaming \/ SpuriousWakeup
    BY <2>4, WaitingSteps, PopStep, DeliverStep DEF Streaming
  <2>5. CASE \E n \in 1..MaxFrames : ReleaseDownstream(n)
    BY <2>5, ReleaseDownstreamStep
  <2>6. CASE Unlock \/ UnlockStop \/ Stop
    BY <2>6, UnlockStep, DrainStep
  <2>8. CASE Starting \/ StartStreams
    BY <2>8, StartSteps
  <2>7. CASE UNCHANGED vars
    BY <2>7 DEF vars, queueVars, startVars, capVars, strVars, lossVars, Inv, TypeOK,
                QueueOK, CaptureOK, StartOK, StreamOK, NumbersOK,
                BufferHasOneOwner, FramesInOrder, Ahead, Asleep
  <2> QED
    BY <2>1, <2>2, <2>3, <2>4, <2>5, <2>6, <2>7, <2>8 DEF Next
<1> QED
  BY <1>1, InitInv, PTL DEF Spec

\* The fields of GstAjaVideoSrc, and the entries of current_frames, keep to
\* their types.
THEOREM TypeCorrect == Spec => []TypeOK
<1>1. Inv => TypeOK
  BY DEF Inv
<1> QED
  BY <1>1, Invariance, PTL

\* No path of got_frame, create and unlock_stop leaks a buffer or releases one
\* twice.
THEOREM OneOwner == Spec => []BufferHasOneOwner
<1>1. Inv => BufferHasOneOwner
  BY DEF Inv
<1> QED
  BY <1>1, Invariance, PTL

\* create returns the frames in the order of their capture, whatever the queue
\* dropped or a flush discarded.
THEOREM InOrder == Spec => []FramesInOrder
<1>1. Inv => FramesInOrder
  BY DEF Inv
<1> QED
  BY <1>1, Invariance, PTL

\* The streaming thread never waits in create while a frame is queued or the
\* element is flushing.
THEOREM Awake == Spec => []NoMissedWakeup
<1>1. Inv => NoMissedWakeup
  BY DEF Inv, Asleep, NoMissedWakeup
<1> QED
  BY <1>1, Invariance, PTL
=============================================================================
