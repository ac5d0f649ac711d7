------------------------- MODULE VideoQueueDelivery -------------------------
(***************************************************************************)
(* What create delivers: the signal changes, the gaps and the frames.      *)
(*                                                                         *)
(* Signals: Tracked says of the newest change that is queued, or of the    *)
(* last notification if none is, that it reports the signal state.  The    *)
(* dropping loop keeps that because a change among the entries it pops is  *)
(* written into the oldest one left.  With room for one entry none is      *)
(* left, and forgotten notes it: that is the only way to lose a report.    *)
(*                                                                         *)
(* Gaps: Follows says of every queued frame that it is marked, or joined   *)
(* to one queued before it, or the oldest; Newest that the capture         *)
(* thread's next frame will be so too.  A gap can then only arise at the   *)
(* head, by dropping, which skipped_last remembers until it marks a frame. *)
(*                                                                         *)
(* Frames: seen through its frame numbers, the queue implements LossyFifo. *)
(* Every step of got_frame, create and unlock_stop puts the newest item,   *)
(* takes the oldest one, flushes, or leaves the items as they are; the     *)
(* invariant of VideoQueueProofs is what makes the entry at the head the   *)
(* oldest item, and the captured frame the newest.                         *)
(***************************************************************************)
EXTENDS VideoQueueProofs

-----------------------------------------------------------------------------
\* The last change of q, or else the change c, reports the state s.
Tracked(q, c, s) ==
  \/ /\ \A i \in 1..Len(q) : q[i].change = "NO_CHANGE"
     /\ Reports(c, s)
  \/ \E i \in 1..Len(q) :
       /\ q[i].change # "NO_CHANGE"
       /\ Reports(q[i].change, s)
       /\ \A j \in 1..Len(q) : i < j => q[j].change = "NO_CHANGE"

\* The marker that is about to be pushed reports the state that was set with it,
\* and a frame is held only while there is a signal, unless start_streams has made
\* the state unknown since.
MarkerReports ==
  /\ capPc = "mark" /\ signal_state # "UNKNOWN" => Reports(capMarker, signal_state)
  /\ capFrame # 0 => signal_state \in {"AVAILABLE", "UNKNOWN"}

SignalInv ==
  /\ MarkerReports
  /\ capPc # "mark" /\ signal_state # "UNKNOWN" /\ ~unreported /\ ~forgotten
       => Tracked(current_frames, notified, signal_state)
  /\ forgotten => QueueSize = 1

\* A change reported by Tracked is the one that LastChange chooses.
LEMMA TrackedIsLast ==
  ASSUME current_frames \in Seq(Entry),
         Tracked(current_frames, notified, signal_state)
  PROVE  Reports(LastChange, signal_state)
<1> DEFINE q == current_frames
<1> DEFINE changes == {i \in DOMAIN q : q[i].change # "NO_CHANGE"}
<1>0. DOMAIN q = 1..Len(q) /\ Len(q) \in Nat
  OBVIOUS
<1>1. CASE \A i \in 1..Len(q) : q[i].change = "NO_CHANGE"
  <2>1. changes = {} /\ Reports(notified, signal_state)
    BY <1>0, <1>1 DEF Tracked
  <2> QED
    BY <2>1 DEF LastChange
<1>2. ASSUME NEW i \in 1..Len(q), q[i].change # "NO_CHANGE",
             Reports(q[i].change, signal_state),
             \A j \in 1..Len(q) : i < j => q[j].change = "NO_CHANGE"
      PROVE  Reports(LastChange, signal_state)
  <2>1. i \in changes /\ \A j \in changes : j <= i
    BY <1>0, <1>2
  <2>2. \A k \in changes : (\A j \in changes : j <= k) => k = i
    BY <1>0, <2>1
  <2> HIDE DEF changes
  <2>3. (CHOOSE k \in changes : \A j \in changes : j <= k) = i
    BY <2>1, <2>2
  <2>4. LastChange = q[i].change
    BY <2>1, <2>3 DEF LastChange, changes
  <2> QED
    BY <1>2, <2>4
<1> QED
  BY <1>1, <1>2 DEF Tracked

\* A marker that is pushed becomes the last change.
LEMMA MarkerTracked ==
  ASSUME NEW q \in Seq(Entry), NEW e \in Entry, NEW c, NEW s,
         e.change # "NO_CHANGE", Reports(e.change, s)
  PROVE  Tracked(Append(q, e), c, s)
<1>1. /\ Len(Append(q, e)) = Len(q) + 1 /\ Len(q) \in Nat
      /\ Append(q, e)[Len(q) + 1] = e
  OBVIOUS
<1> QED
  BY <1>1 DEF Tracked

\* A frame that is pushed reports nothing and leaves the last change as it is.
LEMMA FrameTracked ==
  ASSUME NEW q \in Seq(Entry), NEW e \in Entry, NEW c, NEW s,
         e.change = "NO_CHANGE", Tracked(q, c, s)
  PROVE  Tracked(Append(q, e), c, s)
<1>1. /\ Len(Append(q, e)) = Len(q) + 1 /\ Len(q) \in Nat
      /\ Append(q, e)[Len(q) + 1] = e
      /\ \A i \in 1..Len(q) : Append(q, e)[i] = q[i]
  OBVIOUS
<1>2. CASE \A i \in 1..Len(q) : q[i].change = "NO_CHANGE"
  BY <1>1, <1>2 DEF Tracked
<1>3. CASE \E i \in 1..Len(q) : q[i].change # "NO_CHANGE"
  <2>1. PICK i \in 1..Len(q) :
          /\ q[i].change # "NO_CHANGE"
          /\ Reports(q[i].change, s)
          /\ \A j \in 1..Len(q) : i < j => q[j].change = "NO_CHANGE"
    BY <1>3 DEF Tracked
  <2> DEFINE r == Append(q, e)
  <2>2. i \in 1..Len(r) /\ r[i] = q[i]
    BY <1>1
  <2>3. \A j \in 1..Len(r) : i < j => r[j].change = "NO_CHANGE"
    BY <1>1, <2>1
  <2> HIDE DEF r
  <2>4. Tracked(r, c, s)
    BY <2>1, <2>2, <2>3 DEF Tracked
  <2> QED
    BY <2>4 DEF r
<1> QED
  BY <1>2, <1>3

\* create notifies the change of the entry that it pops.
LEMMA PopTracked ==
  ASSUME NEW q \in Seq(Entry), q # <<>>, NEW c, NEW s, Tracked(q, c, s)
  PROVE  Tracked(Tail(q),
                 IF Head(q).change = "NO_CHANGE" THEN c ELSE Head(q).change, s)
<1> DEFINE T == Tail(q)
<1>1. /\ Len(T) = Len(q) - 1 /\ Len(q) \in Nat \ {0}
      /\ \A i \in 1..(Len(q) - 1) : T[i] = q[i + 1]
      /\ Head(q) = q[1]
  OBVIOUS
<1> HIDE DEF T
<1>2. CASE \A i \in 1..Len(q) : q[i].change = "NO_CHANGE"
  BY <1>1, <1>2 DEF Tracked, T
<1>3. ASSUME NEW i \in 1..Len(q), q[i].change # "NO_CHANGE", Reports(q[i].change, s),
             \A j \in 1..Len(q) : i < j => q[j].change = "NO_CHANGE"
      PROVE  Tracked(T, IF Head(q).change = "NO_CHANGE" THEN c ELSE Head(q).change, s)
  <2>1. CASE i = 1
    <3>1. \A j \in 1..Len(T) : T[j].change = "NO_CHANGE"
      BY <1>1, <1>3, <2>1
    <3> QED
      BY <1>1, <1>3, <2>1, <3>1 DEF Tracked
  <2>2. CASE i # 1
    <3>1. i - 1 \in 1..Len(T) /\ T[i - 1] = q[i]
      BY <1>1, <2>2
    <3>2. \A j \in 1..Len(T) : i - 1 < j => T[j].change = "NO_CHANGE"
      BY <1>1, <1>3
    <3> QED
      BY <1>3, <3>1, <3>2 DEF Tracked
  <2> QED
    BY <2>1, <2>2
<1> QED
  BY <1>2, <1>3 DEF Tracked, T

\* A remembered change finds no entry to go to only if there is room for one alone.
LEMMA ForgottenAtOne ==
  ASSUME NEW q \in Seq(Entry), Remembered(Dropped(q)) # "NO_CHANGE",
         Rewritten(Kept(q), Remembered(Dropped(q))) = <<>>
  PROVE  QueueSize = 1
<1>1. /\ Excess(q) \in 0..Len(q) /\ Len(q) \in Nat
      /\ Dropped(q) \in Seq(Entry) /\ Kept(q) \in Seq(Entry)
      /\ Len(Dropped(q)) = Excess(q) /\ Len(Kept(q)) = Len(q) - Excess(q)
  BY ExcessType, Parts
<1>2. Remembered(Dropped(q)) \in SignalChange
  BY DEF Remembered, SignalChange
<1>3. Len(Rewritten(Kept(q), Remembered(Dropped(q)))) = Len(Kept(q))
  <2> DEFINE c == Remembered(Dropped(q))
  <2> HIDE DEF c
  <2>1. Len(Rewritten(Kept(q), c)) = Len(Kept(q))
    BY <1>1, <1>2, RewrittenType DEF c
  <2> QED
    BY <2>1 DEF c
<1>4. Len(<<>>) = 0
  OBVIOUS
<1>5. Len(Kept(q)) = 0
  BY <1>3, <1>4
<1>6. Excess(q) # 0
  <2> SUFFICES ASSUME Excess(q) = 0 PROVE FALSE
    OBVIOUS
  <2>1. DOMAIN Dropped(q) = {}
    BY <1>1
  <2> QED
    BY <2>1 DEF Remembered
<1> QED
  BY <1>1, <1>5, <1>6, VideoQueueAssumption DEF Excess

\* The dropping loop while there is a signal: a change that it pops is written into
\* an entry that is left, if there is one.
LEMMA DropTracked ==
  ASSUME NEW q \in Seq(Entry), NEW c, Tracked(q, c, "AVAILABLE"),
         ~(/\ Remembered(Dropped(q)) # "NO_CHANGE"
           /\ Rewritten(Kept(q), Remembered(Dropped(q))) = <<>>)
  PROVE  Tracked(Rewritten(Kept(q), Remembered(Dropped(q))), c, "AVAILABLE")
<1> DEFINE D == Dropped(q)
<1> DEFINE K == Kept(q)
<1> DEFINE x == Excess(q)
<1> DEFINE r == Remembered(D)
<1> DEFINE R == Rewritten(K, r)
<1>1. /\ x \in 0..Len(q) /\ Len(q) \in Nat
      /\ D \in Seq(Entry) /\ K \in Seq(Entry)
      /\ Len(D) = x /\ Len(K) = Len(q) - x
      /\ \A i \in 1..x : D[i] = q[i]
      /\ \A i \in 1..(Len(q) - x) : K[i] = q[i + x]
  <2>1. x \in 0..Len(q) /\ Len(q) \in Nat
    BY ExcessType
  <2> QED
    BY <2>1, Parts
<1>3. r \in {"NO_CHANGE", "GOT_SIGNAL", "RECOVERED_SIGNAL"}
  BY DEF Remembered
<1>4. r = "NO_CHANGE"
        <=> \A i \in 1..x : D[i].change \notin {"GOT_SIGNAL", "RECOVERED_SIGNAL"}
  <2>1. DOMAIN D = 1..x
    BY <1>1
  <2> HIDE DEF D, x
  <2> QED
    BY <2>1 DEF Remembered
<1>5. /\ Len(R) = Len(K)
      /\ \A i \in 1..Len(K) : i # 1 => R[i] = K[i]
      /\ Len(K) > 0 => R[1].change = IF r = "NO_CHANGE" THEN K[1].change ELSE r
  <2> HIDE DEF D, K, x, r
  <2>1. CASE r # "NO_CHANGE" /\ K # <<>>
    <3>1. R = [K EXCEPT ![1] = WithChange(K[1], r)] /\ 1 \in 1..Len(K)
      BY <1>1, <2>1 DEF Rewritten
    <3>2. K[1] \in Entry
      BY <1>1, <3>1
    <3>3. WithChange(K[1], r).change = r
      BY <3>2 DEF WithChange, Entry
    <3> QED
      BY <1>1, <2>1, <3>1, <3>3
  <2>2. CASE ~(r # "NO_CHANGE" /\ K # <<>>)
    BY <1>1, <2>2 DEF Rewritten
  <2> QED
    BY <2>1, <2>2
<1>2. R \in Seq(Entry)
  <2>1. r \in SignalChange
    BY <1>3 DEF SignalChange
  <2> HIDE DEF D, K, x, r
  <2> QED
    BY <1>1, <2>1, RewrittenType
<1> HIDE DEF D, K, x, r, R
<1>9. r # "NO_CHANGE" => Len(R) > 0
  <2>1. ~(r # "NO_CHANGE" /\ R = <<>>)
    BY DEF D, K, r, R
  <2> QED
    BY <1>2, <2>1
<1>6. \A ch : Reports(ch, "AVAILABLE") <=> ch \in {"GOT_SIGNAL", "RECOVERED_SIGNAL"}
  BY DEF Reports
<1>7. CASE \A i \in 1..Len(q) : q[i].change = "NO_CHANGE"
  <2>1. r = "NO_CHANGE"
    <3>1. \A i \in 1..x : i \in 1..Len(q)
      BY <1>1
    <3>2. \A i \in 1..x : D[i].change = "NO_CHANGE"
      BY <1>1, <1>7, <3>1
    <3> QED
      BY <1>4, <3>2
  <2>2. \A i \in 1..Len(K) : K[i].change = "NO_CHANGE"
    <3>1. \A i \in 1..Len(K) : i + x \in 1..Len(q)
      BY <1>1
    <3> QED
      BY <1>1, <1>7, <3>1
  <2>3. \A i \in 1..Len(R) : R[i].change = "NO_CHANGE"
    BY <1>1, <1>5, <2>1, <2>2
  <2> QED
    BY <1>7, <2>3 DEF Tracked, R, r, K, D
<1>8. ASSUME NEW i \in 1..Len(q), q[i].change # "NO_CHANGE",
             Reports(q[i].change, "AVAILABLE"),
             \A j \in 1..Len(q) : i < j => q[j].change = "NO_CHANGE"
      PROVE  Tracked(R, c, "AVAILABLE")
  <2>1. CASE i <= x
    <3>1. r # "NO_CHANGE" /\ Reports(r, "AVAILABLE")
      BY <1>1, <1>3, <1>4, <1>6, <1>8, <2>1
    <3>2. 1 \in 1..Len(R) /\ R[1].change = r
      BY <1>1, <1>5, <1>9, <2>1, <3>1
    <3>3. ASSUME NEW j \in 1..Len(R), 1 < j PROVE R[j].change = "NO_CHANGE"
      <4>1. j + x \in 1..Len(q) /\ i < j + x
        BY <1>1, <1>5, <2>1, <3>3
      <4>2. R[j] = K[j]
        BY <1>5, <3>3
      <4>3. K[j] = q[j + x]
        BY <1>1, <1>5, <3>3
      <4> QED
        BY <1>8, <4>1, <4>2, <4>3
    <3> QED
      BY <3>1, <3>2, <3>3 DEF Tracked
  <2>2. CASE i > x
    <3>1. i - x \in 1..Len(R) /\ K[i - x] = q[i]
      BY <1>1, <1>5, <2>2
    <3>2. R[i - x].change # "NO_CHANGE" /\ Reports(R[i - x].change, "AVAILABLE")
      BY <1>1, <1>3, <1>5, <1>6, <1>8, <3>1
    <3>3. ASSUME NEW j \in 1..Len(R), i - x < j PROVE R[j].change = "NO_CHANGE"
      <4>1. j + x \in 1..Len(q) /\ i < j + x /\ j # 1
        BY <1>1, <1>5, <2>2, <3>3
      <4>2. R[j] = q[j + x]
        BY <1>1, <1>5, <4>1
      <4> QED
        BY <1>8, <4>1, <4>2
    <3> QED
      BY <3>1, <3>2, <3>3 DEF Tracked
  <2> QED
    BY <1>1, <2>1, <2>2
<1> QED
  BY <1>7, <1>8 DEF Tracked, R, r, K, D

\* Nothing is reported and nothing has to be at first.
LEMMA SignalInit == Init => SignalInv
  BY DEF Init, SignalInv, MarkerReports

\* got_frame reports a change with a marker, or a flush takes the report with it.
LEMMA SignalMarkerSteps ==
  ASSUME Inv, SignalInv,
         \/ GotNoSignal \/ (\E d \in BOOLEAN : GotFrame(d)) \/ PushMarker \/ SignalMarker
         \/ SkipFrame \/ PassFrame \/ RejectFrame
  PROVE  SignalInv'
<1>1. CASE GotNoSignal
  BY <1>1 DEF GotNoSignal, queueVars, strVars, SignalInv, MarkerReports, Reports,
              Inv, TypeOK, CaptureOK
<1>2. ASSUME NEW d \in BOOLEAN, GotFrame(d) PROVE SignalInv'
  BY <1>2 DEF GotFrame, queueVars, strVars, SignalInv, MarkerReports, Reports, AppearsAs
<1>3. CASE PushMarker
  <2> DEFINE m == Marker(capMarker)
  <2>1. /\ current_frames' = Append(current_frames, m) /\ capPc = "mark"
        /\ UNCHANGED <<signal_state, capFrame, notified>> /\ capPc' = "signal"
        /\ forgotten' = FALSE
    BY <1>3 DEF PushMarker, startVars, strVars
  <2>2. /\ m \in Entry /\ m.change # "NO_CHANGE"
        /\ signal_state # "UNKNOWN" => Reports(m.change, signal_state)
    BY <2>1 DEF Inv, TypeOK, CaptureOK, Marker, Entry, SignalInv, MarkerReports
  <2>3. current_frames \in Seq(Entry)
    BY DEF Inv, TypeOK, QueueOK
  <2> HIDE DEF m
  <2>4. signal_state # "UNKNOWN" => Tracked(current_frames', notified', signal_state')
    BY <2>1, <2>2, <2>3, MarkerTracked
  <2> QED
    BY <2>1, <2>4 DEF SignalInv, MarkerReports
<1>4. CASE SignalMarker
  BY <1>4 DEF SignalMarker, queueVars, startVars, lossVars, SignalInv, MarkerReports
<1>5. CASE SkipFrame \/ RejectFrame
  BY <1>5 DEF SkipFrame, RejectFrame, DoneWithFrame, queueVars, startVars, strVars,
              lossVars, SignalInv, MarkerReports
<1>6. CASE PassFrame
  BY <1>6 DEF PassFrame, queueVars, startVars, strVars, lossVars, SignalInv,
              MarkerReports
<1> QED
  BY <1>1, <1>2, <1>3, <1>4, <1>5, <1>6

\* The signal state is tracked over a push that drops, over a pop that notifies
\* and over a flush that discards.
LEMMA SignalQueueSteps ==
  ASSUME Inv, SignalInv, EnqueueFrame \/ Pop \/ UnlockStop
  PROVE  SignalInv'
<1>0. current_frames \in Seq(Entry)
  BY DEF Inv, TypeOK, QueueOK
<1>1. CASE EnqueueFrame
  <2> DEFINE R == Rewritten(Kept(current_frames), Remembered(Dropped(current_frames)))
  <2> DEFINE end == /\ Cardinality(FramesOf(Dropped(current_frames))) = 0
                    /\ skipped_last > 0
  <2> DEFINE e == Captured(capFrame, capFirst, capDropped \/ end)
  <2> DEFINE lost == Remembered(Dropped(current_frames)) # "NO_CHANGE" /\ R = <<>>
  <2>1. /\ current_frames' = Append(R, e) /\ capPc = "queue" /\ capPc' = "idle"
        /\ capFrame' = 0 /\ capFrame # 0
        /\ forgotten' = (forgotten \/ lost)
        /\ UNCHANGED <<signal_state, notified, unreported>>
    BY <1>1 DEF EnqueueFrame, DoneWithFrame, startVars, Inv, TypeOK, CaptureOK
  <2>2. signal_state \in {"AVAILABLE", "UNKNOWN"}
    BY <2>1 DEF SignalInv, MarkerReports
  <2>6. forgotten' => QueueSize = 1
    BY <1>0, <2>1, ForgottenAtOne DEF SignalInv
  <2>3. R \in Seq(Entry) /\ e \in Entry /\ e.change = "NO_CHANGE"
    <3> DEFINE c == Remembered(Dropped(current_frames))
    <3>1. c \in SignalChange
      BY DEF Remembered, SignalChange
    <3>2. Kept(current_frames) \in Seq(Entry)
      BY <1>0, Parts
    <3> HIDE DEF c
    <3>3. Rewritten(Kept(current_frames), c) \in Seq(Entry)
      BY <3>1, <3>2, RewrittenType
    <3>4. capFrame \in Nat /\ capFirst \in BOOLEAN /\ (capDropped \/ end) \in BOOLEAN
      <4> HIDE DEF end
      <4> QED
        BY DEF Inv, TypeOK, CaptureOK, NumbersOK
    <3> HIDE DEF end
    <3>5. e \in Entry /\ e.change = "NO_CHANGE"
      BY <3>4 DEF Captured, Entry, SignalChange
    <3> QED
      BY <3>3, <3>5 DEF c
  <2>4. signal_state = "AVAILABLE" /\ ~unreported /\ ~forgotten'
          => Tracked(R, notified, "AVAILABLE")
    BY <1>0, <2>1, DropTracked DEF SignalInv
  <2> HIDE DEF R, e, lost
  <2>5. signal_state = "AVAILABLE" /\ ~unreported /\ ~forgotten'
          => Tracked(current_frames', notified, "AVAILABLE")
    BY <2>1, <2>3, <2>4, FrameTracked
  <2> QED
    BY <2>1, <2>2, <2>5, <2>6 DEF SignalInv, MarkerReports
<1>2. CASE Pop
  <2>1. /\ current_frames' = Tail(current_frames) /\ current_frames # <<>>
        /\ notified' = IF Head(current_frames).change = "NO_CHANGE"
                         THEN notified ELSE Head(current_frames).change
        /\ UNCHANGED <<signal_state, capPc, capMarker, capFrame, unreported, forgotten>>
    BY <1>2 DEF Pop, Popped, startVars, capVars, lossVars
  <2>2. Tracked(current_frames, notified, signal_state)
          => Tracked(current_frames', notified', signal_state)
    BY <1>0, <2>1, PopTracked
  <2> QED
    BY <2>1, <2>2 DEF SignalInv, MarkerReports
<1>3. CASE UnlockStop
  <2>1. /\ current_frames' = <<>>
        /\ unreported' = (unreported \/ \E i \in DOMAIN current_frames :
                                          current_frames[i].change # "NO_CHANGE")
        /\ UNCHANGED <<signal_state, notified, capPc, capMarker, capFrame, forgotten>>
    BY <1>3 DEF UnlockStop, startVars, capVars
  <2>2. Len(<<>>) = 0 /\ DOMAIN current_frames = 1..Len(current_frames)
    BY <1>0
  <2>3. Tracked(current_frames, notified, signal_state) /\ ~unreported'
          => Reports(notified, signal_state)
    BY <2>1, <2>2 DEF Tracked
  <2>4. Reports(notified, signal_state) => Tracked(<<>>, notified, signal_state)
    BY <2>2 DEF Tracked
  <2>5. MarkerReports'
    BY <2>1 DEF SignalInv, MarkerReports
  <2>6. ~unreported' => ~unreported
    BY <2>1
  <2>7. capPc' = capPc
    BY <2>1
  <2>8. capPc' # "mark" /\ signal_state' # "UNKNOWN" /\ ~unreported' /\ ~forgotten'
          => Tracked(current_frames', notified', signal_state')
    BY <2>1, <2>3, <2>4, <2>6, <2>7 DEF SignalInv
  <2> QED
    BY <2>1, <2>5, <2>8 DEF SignalInv
<1> QED
  BY <1>1, <1>2, <1>3

\* Once start_streams or stop has made the signal state unknown there is nothing to
\* report; no other step touches the state or its reports.
LEMMA SignalOtherSteps ==
  ASSUME SignalInv,
         \/ StartStreams \/ Stop
         \/ CallbackDisabled \/ Starting
         \/ EnterCreate \/ ReturnFlushing \/ DecideToWait \/ Wait \/ SpuriousWakeup
         \/ Deliver \/ (\E n \in 1..MaxFrames : ReleaseDownstream(n))
         \/ Unlock \/ UNCHANGED vars
  PROVE  SignalInv'
<1>1. CASE StartStreams \/ Stop
  BY <1>1 DEF StartStreams, Stop, capVars, lossVars, SignalInv, MarkerReports
<1>2. CASE ~(StartStreams \/ Stop)
  <2>1. UNCHANGED <<current_frames, notified, signal_state, capPc, capMarker, capFrame,
                    unreported, forgotten>>
    BY <1>2 DEF CallbackDisabled, Starting, Start, ResetSkipped, EnterCreate,
                ReturnFlushing, DecideToWait, Wait, SpuriousWakeup, Deliver,
                ReleaseDownstream, Unlock, vars, queueVars, startVars, capVars, strVars,
                lossVars
  <2> QED
    BY <2>1 DEF SignalInv, MarkerReports
<1> QED
  BY <1>1, <1>2

\* Once the queue is drained the application knows the signal state, whatever was
\* dropped, for every queue length and interleaving of the threads, unless a flush
\* discarded the report (the comments in got_frame).  The one exception is a queue of
\* one entry in which the remembered change found none to be written into.
THEOREM SignalsTracked == Spec => [](SignalTracked \/ (forgotten /\ QueueSize = 1))
<1>1. Inv /\ SignalInv /\ [Next]_vars => SignalInv'
  BY SignalMarkerSteps, SignalQueueSteps, SignalOtherSteps
     DEF Next, CaptureInput, CaptureMarker, CaptureFrame, Streaming
<1>2. Inv /\ SignalInv => SignalTracked \/ (forgotten /\ QueueSize = 1)
  BY TrackedIsLast DEF SignalInv, SignalTracked, Inv, TypeOK, QueueOK
<1> QED
  BY <1>1, <1>2, SignalInit, Invariance, PTL DEF Spec

-----------------------------------------------------------------------------
\* Every nonempty set of numbers has a least one.  The numbers below each member
\* form a finite set, and some such set has no smaller one.
LEMMA Least ==
  ASSUME NEW T \in SUBSET Nat, T # {}
  PROVE  \E m \in T : \A k \in T : m <= k
<1>0. \A k \in T : k \in Nat
  OBVIOUS
<1> DEFINE Below(k) == {j \in T : j < k}
<1> DEFINE family == {Below(k) : k \in T}
<1>1. family \subseteq FiniteSubsetsOf(Nat)
  <2> SUFFICES ASSUME NEW k \in T PROVE Below(k) \in FiniteSubsetsOf(Nat)
    OBVIOUS
  <2>1. k \in Nat /\ Below(k) \subseteq 0..k
    <3>1. ASSUME NEW j \in Below(k) PROVE j \in 0..k
      <4>1. j \in Nat /\ k \in Nat /\ j < k
        BY <1>0
      <4> QED
        BY <4>1
    <3> QED
      BY <1>0, <3>1
  <2>2. IsFiniteSet(0..k)
    BY <2>1, FS_Interval
  <2>3. IsFiniteSet(Below(k))
    BY <2>1, <2>2, FS_Subset
  <2>4. Below(k) \in SUBSET Nat
    OBVIOUS
  <2> QED
    BY <2>3, <2>4 DEF FiniteSubsetsOf
<1>2. family # {}
  OBVIOUS
<1> HIDE DEF family
<1>3. \E s \in family : \A t \in family : <<t, s>> \notin StrictSubsetOrdering(Nat)
  BY <1>1, <1>2, FS_StrictSubsetOrderingWellFounded, WFMin
<1> USE DEF family
<1>4. PICK m \in T : \A k \in T : <<Below(k), Below(m)>> \notin StrictSubsetOrdering(Nat)
  BY <1>3
<1>5. ASSUME NEW k \in T, ~(m <= k) PROVE FALSE
  <2>1. k \in Below(m) /\ k \notin Below(k)
    BY <1>5
  <2>2. Below(k) \subseteq Below(m)
    <3>1. ASSUME NEW j \in Below(k) PROVE j \in Below(m)
      <4>1. j \in T /\ j \in Nat /\ k \in Nat /\ m \in Nat /\ j < k
        BY <1>0
      <4> QED
        BY <1>5, <4>1
    <3> QED
      BY <3>1
  <2>3. Below(k) \in SUBSET Nat /\ Below(m) \in SUBSET Nat
    OBVIOUS
  <2> HIDE DEF Below
  <2>4. <<Below(k), Below(m)>> \in StrictSubsetOrdering(Nat)
    BY <2>1, <2>2, <2>3 DEF StrictSubsetOrdering
  <2> QED
    BY <1>4, <2>4
<1> QED
  BY <1>5

\* And a greatest one, if the set has a bound.
LEMMA Greatest ==
  ASSUME NEW b \in Nat, NEW T \in SUBSET (0..b), T # {}
  PROVE  \E m \in T : \A k \in T : k <= m
<1> DEFINE U == {b - k : k \in T}
<1>1. U \in SUBSET Nat /\ U # {}
  <2>1. \A k \in T : b - k \in Nat
    OBVIOUS
  <2> QED
    BY <2>1
<1> HIDE DEF U
<1>2. PICK u \in U : \A v \in U : u <= v
  BY <1>1, Least
<1> USE DEF U
<1>3. PICK m \in T : u = b - m
  OBVIOUS
<1>4. ASSUME NEW k \in T PROVE k <= m
  <2>1. b - k \in U
    OBVIOUS
  <2>2. b - m <= b - k
    BY <1>2, <1>3, <2>1
  <2>3. k \in Int /\ m \in Int
    OBVIOUS
  <2> QED
    BY <2>2, <2>3
<1> QED
  BY <1>4

\* The frames in q that create will return with DISCONT.
Marks(e) == e.first \/ e.dropped
Marked(q) == {q[i].frame : i \in {k \in DOMAIN q : Marks(q[k])}} \ {0}

\* Every queued frame is marked, or joined to one queued before it, or the oldest.
Follows(q) ==
  \A m \in FramesOf(q) :
    \/ m \in Marked(q)
    \/ \E k \in FramesOf(q) : Joined(k, m)
    \/ \A k \in FramesOf(q) : m <= k

Empty == lastOut = 0 /\ FramesOf(current_frames) = {}

\* Frame n is joined to one that is queued, or to the one that just left.
Before(n) == \E k \in FramesOf(current_frames) \union {lastOut} : Joined(k, n)

\* The frame that got_frame holds becomes DISCONT.
CapMarks == capFirst \/ capDropped

\* The frame that got_frame holds, or else the next one, becomes DISCONT or is joined
\* to one that is queued or just left, unless there is none.  Without a signal
\* numbers are used up, but then the next frame is the first of a new signal.
Newest ==
  /\ ~flushing => \/ Empty
                  \/ capFrame = 0 /\ (signal_state # "AVAILABLE" \/ Before(frameNumber + 1))
                  \/ capFrame # 0 /\ (CapMarks \/ Before(capFrame))
  /\ capFrame # 0 => capFrame = frameNumber

\* Nothing has left the queue when start resets skipped_last.
Fresh == ~video_enabled \/ strPc = "starting" => lastOut = 0 /\ ~owed

\* GapAnnounced in terms of sets of frames.
GapAtHead ==
  /\ lastOut # 0
  /\ FramesOf(current_frames) # {}
  /\ \A n \in FramesOf(current_frames) : ~Joined(lastOut, n)

Announced == (owed \/ GapAtHead) => skipped_last > 0 \/ Marked(current_frames) # {}

GapInv == Follows(current_frames) /\ Newest /\ Fresh /\ Announced

\* Joined is about the waived numbers in between: those of a part of the interval
\* are among those of the whole.
LEMMA JoinedWithin ==
  ASSUME NEW a \in Nat, NEW b \in Nat, NEW c \in Nat, a < b, b < c, Joined(a, c)
  PROVE  Joined(a, b) /\ Joined(b, c)
<1>1. \A n \in (a + 1)..(b - 1) : n \in (a + 1)..(c - 1)
  OBVIOUS
<1>2. \A n \in (b + 1)..(c - 1) : n \in (a + 1)..(c - 1)
  OBVIOUS
<1> QED
  BY <1>1, <1>2 DEF Joined

\* The same in terms of entries.
LEMMA AnnouncedIsGapAnnounced ==
  ASSUME Inv, Announced PROVE GapAnnounced
<1>1. Marked(current_frames) # {}
        => \E i \in DOMAIN current_frames :
             /\ current_frames[i].frame # 0
             /\ current_frames[i].first \/ current_frames[i].dropped
  BY DEF Marked, Marks
<1> QED
  BY <1>1 DEF Announced, GapAtHead, GapAnnounced

\* Frames are numbers, and the marked ones are frames.
LEMMA FrameNumbers ==
  ASSUME NEW q \in Seq(Entry)
  PROVE  FramesOf(q) \in SUBSET (Nat \ {0}) /\ Marked(q) \subseteq FramesOf(q)
<1>1. \A i \in DOMAIN q : q[i].frame \in Nat
  BY EntryType
<1> QED
  BY <1>1 DEF FramesOf, Marked

\* push_tail keeps the marks and adds the one of its entry.
LEMMA AppendMarked ==
  ASSUME NEW q \in Seq(Entry), NEW e \in Entry
  PROVE  /\ Marked(q) \subseteq Marked(Append(q, e))
         /\ e.frame # 0 /\ Marks(e) => e.frame \in Marked(Append(q, e))
         /\ Marked(Append(q, e)) \subseteq Marked(q) \union Holding(e.frame)
<1>1. /\ DOMAIN Append(q, e) = 1..(Len(q) + 1) /\ DOMAIN q = 1..Len(q)
      /\ Len(q) \in Nat
      /\ Append(q, e)[Len(q) + 1] = e
      /\ \A i \in 1..Len(q) : Append(q, e)[i] = q[i]
  OBVIOUS
<1> QED
  BY <1>1 DEF Marked, Holding

\* A marked frame is dropped, or stays marked.
LEMMA KeptMarked ==
  ASSUME NEW q \in Seq(Entry)
  PROVE  \A m \in Marked(q) : m \in FramesOf(Dropped(q)) \/ m \in Marked(Kept(q))
<1> DEFINE D == Dropped(q)
<1> DEFINE K == Kept(q)
<1> DEFINE x == Excess(q)
<1>1. /\ x \in 0..Len(q) /\ Len(q) \in Nat
      /\ D \in Seq(Entry) /\ K \in Seq(Entry)
      /\ Len(D) = x /\ Len(K) = Len(q) - x
      /\ \A i \in 1..x : D[i] = q[i]
      /\ \A i \in 1..(Len(q) - x) : K[i] = q[i + x]
  <2>1. x \in 0..Len(q) /\ Len(q) \in Nat
    BY ExcessType
  <2> QED
    BY <2>1, Parts
<1>2. DOMAIN q = 1..Len(q) /\ DOMAIN K = 1..(Len(q) - x)
  BY <1>1
<1> HIDE DEF D, K, x
<1>3. ASSUME NEW i \in 1..Len(q), Marks(q[i]), q[i].frame # 0
      PROVE  q[i].frame \in FramesOf(D) \/ q[i].frame \in Marked(K)
  <2>1. CASE i <= x
    <3>1. i \in 1..Len(D) /\ D[i] = q[i]
      BY <1>1, <2>1
    <3> QED
      BY <1>1, <1>3, <3>1, InFramesOf
  <2>2. CASE i > x
    <3>1. i - x \in DOMAIN K /\ K[i - x] = q[i]
      BY <1>1, <1>2, <2>2
    <3> QED
      BY <1>3, <3>1 DEF Marked
  <2> QED
    BY <1>1, <2>1, <2>2
<1> QED
  BY <1>2, <1>3 DEF Marked, D, K

\* Writing a signal change into an entry leaves the marks alone.
LEMMA RewrittenMarked ==
  ASSUME NEW q \in Seq(Entry), NEW c \in SignalChange
  PROVE  Marked(Rewritten(q, c)) = Marked(q)
<1> DEFINE R == Rewritten(q, c)
<1>1. CASE c # "NO_CHANGE" /\ q # <<>>
  <2>1. 1 \in 1..Len(q) /\ DOMAIN q = 1..Len(q) /\ q[1] \in Entry
    BY <1>1
  <2>2. R = [q EXCEPT ![1] = WithChange(q[1], c)]
    BY <1>1, <2>1 DEF Rewritten
  <2>3. /\ WithChange(q[1], c).frame = q[1].frame
        /\ WithChange(q[1], c).first = q[1].first
        /\ WithChange(q[1], c).dropped = q[1].dropped
    BY <2>1 DEF WithChange, Entry
  <2> HIDE DEF R
  <2>4. /\ DOMAIN R = DOMAIN q
        /\ \A i \in DOMAIN q : R[i].frame = q[i].frame /\ (Marks(R[i]) <=> Marks(q[i]))
    BY <2>1, <2>2, <2>3 DEF Marks
  <2> QED
    BY <2>4 DEF Marked, R
<1>2. CASE ~(c # "NO_CHANGE" /\ q # <<>>)
  BY <1>2 DEF Rewritten
<1> QED
  BY <1>1, <1>2

\* pop_head takes one mark at most.
LEMMA TailMarked ==
  ASSUME NEW q \in Seq(Entry), q # <<>>
  PROVE  \A m \in Marked(q) : \/ m \in Marked(Tail(q))
                              \/ m = Head(q).frame /\ m # 0 /\ Marks(Head(q))
<1>1. /\ Len(q) \in Nat \ {0} /\ DOMAIN q = 1..Len(q)
      /\ DOMAIN Tail(q) = 1..(Len(q) - 1)
      /\ \A i \in 1..(Len(q) - 1) : Tail(q)[i] = q[i + 1]
      /\ Head(q) = q[1]
  OBVIOUS
<1>2. ASSUME NEW i \in 1..Len(q), Marks(q[i]), q[i].frame # 0
      PROVE  q[i].frame \in Marked(Tail(q)) \/ (q[i].frame = Head(q).frame /\ Marks(Head(q)))
  <2>1. CASE i = 1
    BY <1>1, <1>2, <2>1
  <2>2. CASE i # 1
    <3>1. i - 1 \in DOMAIN Tail(q) /\ Tail(q)[i - 1] = q[i]
      BY <1>1, <2>2
    <3> QED
      BY <1>2, <3>1 DEF Marked
  <2> QED
    BY <2>1, <2>2
<1> QED
  BY <1>1, <1>2 DEF Marked

\* No frames, no gaps.
LEMMA GapInit == Init => GapInv
  BY EmptyFrames DEF Init, GapInv, Follows, Newest, Empty, Fresh, Announced, GapAtHead

\* A later number is the next one, or leaves a gap.
LEMMA NextOrLater ==
  \A a, b \in Int : b >= a + 1 => b > a + 1 \/ b = a + 1
  OBVIOUS

\* The steps that leave the queue, the last frame and the waived numbers alone, and at
\* most start to flush.
Still ==
  /\ UNCHANGED <<current_frames, lastOut, owed, waived>>
  /\ ~flushing' => ~flushing

LEMMA StillFacts ==
  ASSUME Still
  PROVE  /\ Follows(current_frames) => Follows(current_frames)'
         /\ UNCHANGED skipped_last => (Announced => Announced')
         /\ Empty' <=> Empty
         /\ \A n : Before(n)' <=> Before(n)
<1>1. \A a, b : Joined(a, b)' <=> Joined(a, b)
  BY DEF Still, Joined
<1>2. current_frames' = current_frames /\ lastOut' = lastOut /\ owed' = owed
  BY DEF Still
<1>3. UNCHANGED <<FramesOf(current_frames), Marked(current_frames)>>
  BY <1>2
<1> QED
  BY <1>1, <1>2, <1>3 DEF Follows, Announced, GapAtHead, Empty, Before

\* got_frame takes the next frame, or one after a gap that is marked, or the first
\* one of a new signal.
LEMMA GotFrameGaps == ASSUME Inv, GapInv, NEW d \in BOOLEAN, GotFrame(d) PROVE GapInv'
<1>1. /\ capPc = "idle" /\ capFrame = 0 /\ frameNumber \in Nat
      /\ frameNumber' \in (frameNumber + 1)..MaxFrames
      /\ frameNumber' > frameNumber + 1 => d
      /\ capFrame' = frameNumber' /\ capDropped' = d
      /\ capFirst' = (signal_state # "AVAILABLE")
      /\ UNCHANGED <<skipped_last, flushing, video_enabled, strPc, lastOut, owed>>
      /\ Still
  BY VideoQueueAssumption
     DEF GotFrame, queueVars, strVars, Inv, TypeOK, CaptureOK, NumbersOK, Still
<1>2. Follows(current_frames)' /\ Announced' /\ Fresh'
  BY <1>1, StillFacts DEF GapInv, Fresh
<1>3. /\ capFrame' # 0
      /\ ~d => capFrame' = frameNumber + 1
  <2>1. /\ frameNumber' \in Int /\ frameNumber \in Int /\ frameNumber' >= frameNumber + 1
        /\ capFrame' = frameNumber' /\ frameNumber' # 0
    BY <1>1, VideoQueueAssumption
  <2>2. frameNumber' > frameNumber + 1 \/ frameNumber' = frameNumber + 1
    BY <2>1, NextOrLater
  <2> QED
    BY Zenon, <1>1, <2>1, <2>2
<1>4. ~flushing => \/ Empty'
                   \/ signal_state # "AVAILABLE"
                   \/ Before(frameNumber + 1)
  BY <1>1, StillFacts DEF GapInv, Newest
<1>5. ~d /\ Before(frameNumber + 1) => Before(capFrame)'
  <2>1. ~d => (Before(frameNumber + 1) <=> Before(capFrame'))
    BY Zenon, <1>3
  <2>2. Before(capFrame') <=> Before(capFrame)'
    BY <1>1 DEF Still, Before, Joined
  <2> QED
    BY Zenon, <2>1, <2>2
<1>6. Newest'
  BY <1>1, <1>3, <1>4, <1>5 DEF Newest, CapMarks
<1> QED
  BY <1>2, <1>6 DEF GapInv

\* Whatever numbers pass without a signal, after start_streams or while the source is
\* not enabled, the next frame will be the first.
LEMMA NoSignalGaps ==
  ASSUME Inv, GapInv, GotNoSignal \/ CallbackDisabled \/ StartStreams
  PROVE  GapInv'
<1>1. /\ UNCHANGED <<skipped_last, flushing, video_enabled, strPc, lastOut, owed>>
      /\ Still
      /\ signal_state' # "AVAILABLE"
      /\ \/ capFrame' = 0
         \/ UNCHANGED <<capFrame, capFirst, capDropped, frameNumber>>
  BY DEF GotNoSignal, CallbackDisabled, StartStreams, queueVars, startVars, capVars,
         strVars, lossVars, Inv, TypeOK, CaptureOK, StartOK, Still
<1>2. Follows(current_frames)' /\ Announced' /\ Fresh'
  BY <1>1, StillFacts DEF GapInv, Fresh
<1>3. UNCHANGED <<capFrame, frameNumber>> => (Before(capFrame)' <=> Before(capFrame))
  BY <1>1 DEF Still, Before, Joined
<1>4. Newest'
  BY <1>1, <1>3, StillFacts DEF GapInv, Newest, CapMarks
<1> QED
  BY <1>2, <1>4 DEF GapInv

\* A frame that is rejected is lost to a flush.
LEMMA RejectGaps == ASSUME Inv, GapInv, RejectFrame PROVE GapInv'
<1>1. /\ UNCHANGED <<skipped_last, flushing, video_enabled, strPc, lastOut, owed>>
      /\ Still /\ flushing /\ capFrame' = 0
  BY DEF RejectFrame, DoneWithFrame, queueVars, startVars, strVars, lossVars, Still
<1>2. Follows(current_frames)' /\ Announced' /\ Fresh'
  BY <1>1, StillFacts DEF GapInv, Fresh
<1>3. Newest'
  BY <1>1 DEF Newest
<1> QED
  BY <1>2, <1>3 DEF GapInv

\* With a frame within skip_first_time all numbers since the newest frame in the queue
\* are waived, so the next frame will be joined to that one.
LEMMA SkipGaps == ASSUME Inv, GapInv, SkipFrame PROVE GapInv'
<1> DEFINE S == FramesOf(current_frames) \union {lastOut}
<1>1. /\ UNCHANGED <<current_frames, flushing, skipped_last, lastOut, owed, frameNumber,
                     video_enabled, strPc>>
      /\ waived' = waived \union SincePushed
      /\ capFrame' = 0 /\ capFrame # 0
  BY DEF SkipFrame, DoneWithFrame, queueVars, strVars, Inv, TypeOK, CaptureOK
<1>2. /\ capFrame = frameNumber /\ frameNumber \in Nat
      /\ S \in SUBSET (0..frameNumber) /\ S # {}
      /\ \A k \in S : k < capFrame
  <2>1. capFrame = frameNumber
    BY <1>1 DEF GapInv, Newest
  <2>2. frameNumber \in Nat /\ lastOut \in 0..frameNumber
    BY VideoQueueAssumption DEF Inv, TypeOK, NumbersOK
  <2>3. FramesOf(current_frames) \subseteq 1..frameNumber
    BY DEF Inv, BufferHasOneOwner, TypeOK, NumbersOK
  <2>4. \A k \in S : k < capFrame
    BY <1>1 DEF Inv, FramesInOrder, Ahead
  <2> QED
    BY <2>1, <2>2, <2>3, <2>4
<1>3. \A a, b : Joined(a, b) => Joined(a, b)'
  BY <1>1 DEF Joined
<1>4. UNCHANGED <<FramesOf(current_frames), Marked(current_frames)>>
  BY <1>1
<1>5. Follows(current_frames)' /\ Announced' /\ Fresh'
  BY <1>1, <1>3, <1>4 DEF GapInv, Follows, Announced, GapAtHead, Fresh
<1>6. Before(frameNumber + 1)'
  <2> HIDE DEF S
  <2>1. PICK k \in S : \A j \in S : j <= k
    BY <1>2, Greatest
  <2>2. k \in Nat /\ k < capFrame /\ capFrame \in Nat
    BY <1>2
  <2>3. ASSUME NEW n \in (k + 1)..((capFrame + 1) - 1) PROVE n \in waived'
    <3>1. n \in 1..capFrame /\ k < n
      BY <2>2, <2>3
    <3>2. \A j \in S : j < n
      <4>1. \A j \in S : j \in Nat /\ j <= k
        BY <1>2, <2>1
      <4> QED
        BY <2>2, <3>1, <4>1
    <3>3. n \in SincePushed
      BY <3>1, <3>2 DEF SincePushed, S
    <3> QED
      BY <1>1, <3>3
  <2>4. k < capFrame + 1
    BY <2>2
  <2>5. Joined(k, frameNumber + 1)'
    <3>1. k < capFrame + 1 /\ \A n \in (k + 1)..((capFrame + 1) - 1) : n \in waived'
      BY <2>3, <2>4
    <3>2. k < frameNumber + 1
          /\ \A n \in (k + 1)..((frameNumber + 1) - 1) : n \in waived'
      BY <1>2, <3>1
    <3> QED
      BY <1>1, <3>2 DEF Joined
  <2> QED
    BY <1>1, <1>2, <1>4, <2>1, <2>5 DEF Before, S
<1>7. Newest'
  BY <1>1, <1>6 DEF Newest
<1> QED
  BY <1>5, <1>7 DEF GapInv

\* A marker is no frame.
LEMMA MarkerGaps == ASSUME Inv, GapInv, PushMarker PROVE GapInv'
<1> DEFINE m == Marker(capMarker)
<1> DEFINE q == current_frames
<1>1. m \in Entry /\ m.frame = 0
  BY DEF Inv, TypeOK, CaptureOK, Marker, Entry
<1>2. /\ q' = Append(q, m)
      /\ UNCHANGED <<flushing, signal_state, capFrame, capFirst, capDropped, frameNumber,
                     skipped_last, lastOut, owed, waived, video_enabled, strPc>>
  BY DEF PushMarker, startVars, strVars
<1>3. q \in Seq(Entry)
  BY DEF Inv, TypeOK, QueueOK
<1> HIDE DEF m, q
<1>4. FramesOf(q') = FramesOf(q) /\ Marked(q') = Marked(q)
  BY <1>1, <1>2, <1>3, AppendFrames, AppendMarked DEF Holding
<1>5. UNCHANGED <<FramesOf(current_frames), Marked(current_frames)>>
  BY <1>4 DEF q
<1>6. \A a, b : Joined(a, b)' <=> Joined(a, b)
  BY <1>2 DEF Joined
<1>7. Follows(current_frames)' /\ Announced' /\ Fresh'
  BY <1>2, <1>5, <1>6 DEF GapInv, Follows, Announced, GapAtHead, Fresh
<1>8. /\ Before(frameNumber + 1)' <=> Before(frameNumber + 1)
      /\ Before(capFrame)' <=> Before(capFrame)
  BY <1>2, <1>5, <1>6 DEF Before, Joined
<1>9. Newest'
  BY <1>2, <1>5, <1>8 DEF GapInv, Newest, CapMarks, Empty
<1> QED
  BY <1>7, <1>9 DEF GapInv

\* got_frame pushes a frame.  If that drops frames, skipped_last remembers it;
\* the push that ends the dropping is marked.
LEMMA EnqueueGaps == ASSUME Inv, GapInv, EnqueueFrame PROVE GapInv'
<1> DEFINE D == Dropped(current_frames)
<1> DEFINE K == Kept(current_frames)
<1> DEFINE lost == Cardinality(FramesOf(D))
<1> DEFINE endOfDrops == lost = 0 /\ skipped_last > 0
<1> DEFINE R == Rewritten(K, Remembered(D))
<1> DEFINE e == Captured(capFrame, capFirst, capDropped \/ endOfDrops)
<1> DEFINE F == FramesOf(current_frames)
<1> DEFINE FK == FramesOf(K)
<1> DEFINE FD == FramesOf(D)
<1> DEFINE MK == Marked(K)
<1>1. /\ current_frames \in Seq(Entry) /\ Ordered(current_frames)
      /\ capFrame \in Nat \ {0} /\ frameNumber \in Nat /\ lastOut \in Nat
      /\ capFirst \in BOOLEAN /\ capDropped \in BOOLEAN
      /\ skipped_last \in Nat
      /\ ~flushing
  BY DEF EnqueueFrame, Inv, TypeOK, QueueOK, CaptureOK, NumbersOK, FramesInOrder
<1>2. /\ current_frames' = Append(R, e)
      /\ skipped_last' = IF endOfDrops THEN 0 ELSE skipped_last + lost
      /\ capFrame' = 0
      /\ UNCHANGED <<flushing, frameNumber, lastOut, owed, waived, video_enabled>>
      /\ strPc' = "starting" <=> strPc = "starting"
  BY DEF EnqueueFrame, DoneWithFrame, startVars, CondSignal
<1>3. /\ K \in Seq(Entry) /\ D \in Seq(Entry)
      /\ F = FD \union FK
      /\ \A n \in FD, m \in FK : n < m
  BY <1>1, Parts, KeptFrames
<1>4. \A m \in Marked(current_frames) : m \in FD \/ m \in MK
  BY <1>1, KeptMarked
<1>5. /\ R \in Seq(Entry) /\ FramesOf(R) = FK /\ Marked(R) = MK
  <2> DEFINE c == Remembered(D)
  <2>1. c \in SignalChange
    BY DEF Remembered, SignalChange
  <2> HIDE DEF c, D, K, FK, MK
  <2>2. /\ Rewritten(K, c) \in Seq(Entry)
        /\ Len(Rewritten(K, c)) = Len(K)
        /\ \A i \in 1..Len(K) : Rewritten(K, c)[i].frame = K[i].frame
    BY <1>3, <2>1, RewrittenType
  <2>3. Marked(Rewritten(K, c)) = Marked(K)
    BY <1>3, <2>1, RewrittenMarked
  <2> HIDE DEF R
  <2>4. /\ R \in Seq(Entry) /\ Len(K) = Len(R) /\ Marked(R) = Marked(K)
        /\ \A i \in 1..Len(K) : K[i].frame = R[i].frame
    BY <2>2, <2>3 DEF R, c
  <2>5. FramesOf(K) = FramesOf(R)
    BY <1>3, <2>4, SameFrames
  <2> QED
    BY <2>4, <2>5 DEF FK, MK
<1>6. /\ e \in Entry /\ e.frame = capFrame
      /\ CapMarks \/ endOfDrops => Marks(e)
  <2> HIDE DEF endOfDrops
  <2>1. (capDropped \/ endOfDrops) \in BOOLEAN
    BY <1>1
  <2> QED
    BY <1>1, <2>1 DEF Captured, Entry, SignalChange, Marks, CapMarks
<1>7. /\ FD \in SUBSET Nat /\ FK \in SUBSET (Nat \ {0}) /\ MK \subseteq FK
  BY <1>3, FrameNumbers
<1>8. \A m \in F : lastOut < m /\ m < capFrame
  BY <1>1 DEF Inv, FramesInOrder
<1>9. IsFiniteSet(FD) /\ lost \in Nat
  <2>1. FD \subseteq 1..frameNumber
    BY <1>3, <1>1 DEF Inv, BufferHasOneOwner, TypeOK, NumbersOK
  <2> HIDE DEF FD
  <2> QED
    BY <1>1, <2>1, FramesFinite DEF FD
<1>10. lost = 0 => FD = {}
  <2> HIDE DEF FD
  <2> QED
    BY <1>9, FS_EmptySet DEF FD
<1> HIDE DEF D, K, R, e, F, FK, FD, MK, lost
<1>11. /\ FramesOf(current_frames') = FK \union {capFrame}
       /\ MK \subseteq Marked(current_frames')
       /\ CapMarks \/ endOfDrops => capFrame \in Marked(current_frames')
  <2>1. Holding(capFrame) = {capFrame}
    BY <1>1 DEF Holding
  <2>2. FramesOf(Append(R, e)) = FK \union {capFrame}
    BY <1>5, <1>6, <2>1, AppendFrames
  <2>3. /\ MK \subseteq Marked(Append(R, e))
        /\ CapMarks \/ endOfDrops => capFrame \in Marked(Append(R, e))
    BY <1>1, <1>5, <1>6, AppendMarked
  <2> QED
    BY <1>2, <2>2, <2>3
<1>12. \/ lastOut = 0 /\ F = {}
       \/ CapMarks
       \/ \E k \in F \union {lastOut} : Joined(k, capFrame)
  BY <1>1 DEF GapInv, Newest, Empty, Before, F
<1>20. \A m, k : Joined(m, k)' <=> Joined(m, k)
  BY <1>2 DEF Joined
<1>13. Follows(current_frames)'
  <2> DEFINE G == FK \union {capFrame}
  <2>1. ASSUME NEW m \in G, NEW k \in FD \union {lastOut}, Joined(k, m)
        PROVE  \/ \E j \in G : Joined(j, m)
               \/ \A j \in G : m <= j
    <3> SUFFICES ASSUME NEW j \in G, ~(m <= j) PROVE Joined(j, m)
      OBVIOUS
    <3>1. m \in Nat /\ j \in Nat /\ k \in Nat /\ j < m
      BY <1>1, <1>7
    <3>2. k < j
      <4>1. j \in FK
        BY <1>1, <1>3, <1>8, <3>1
      <4> QED
        BY <1>3, <1>8, <4>1
    <3> QED
      BY <2>1, <3>1, <3>2, JoinedWithin
  <2>2. ASSUME NEW m \in FK
        PROVE  \/ m \in MK
               \/ \E k \in G : Joined(k, m)
               \/ \A k \in G : m <= k
    <3>1. m \in F /\ m < capFrame /\ m \in Nat
      BY <1>3, <1>7, <1>8
    <3>2. \/ m \in Marked(current_frames)
          \/ \E k \in F : Joined(k, m)
          \/ \A k \in F : m <= k
      BY <3>1 DEF GapInv, Follows, F
    <3>3. CASE m \in Marked(current_frames)
      <4>1. m \notin FD
        BY <1>3, <3>1
      <4> QED
        BY <1>4, <3>3, <4>1
    <3>4. CASE \E k \in F : Joined(k, m)
      BY <1>3, <2>1, <3>4
    <3>5. CASE \A k \in F : m <= k
      <4>1. \A k \in FK : m <= k
        BY <1>3, <3>5
      <4> QED
        BY <1>1, <3>1, <4>1
    <3> QED
      BY <3>2, <3>3, <3>4, <3>5
  <2>3. \/ capFrame \in Marked(current_frames')
        \/ \E k \in G : Joined(k, capFrame)
        \/ \A k \in G : capFrame <= k
    <3>1. CASE CapMarks
      BY <1>11, <3>1
    <3>2. CASE F = {}
      BY <1>1, <1>3, <3>2
    <3>3. CASE \E k \in F \union {lastOut} : Joined(k, capFrame)
      BY <1>3, <2>1, <3>3
    <3> QED
      BY <1>12, <3>1, <3>2, <3>3
  <2> HIDE DEF G
  <2>4. \A m \in G : \/ m \in Marked(current_frames')
                     \/ \E k \in G : Joined(k, m)
                     \/ \A k \in G : m <= k
    BY <1>11, <2>2, <2>3 DEF G
  <2>5. FramesOf(current_frames') = G
    BY <1>11 DEF G
  <2>6. /\ FramesOf(current_frames)' = G
        /\ Marked(current_frames)' = Marked(current_frames')
    BY <2>5
  <2> QED
    BY <1>20, <2>4, <2>6 DEF Follows
<1>14. Newest'
  <2>1. capFrame = frameNumber /\ frameNumber' = frameNumber
    BY <1>1, <1>2 DEF GapInv, Newest
  <2>2. Joined(capFrame, capFrame + 1)
    BY <1>1 DEF Joined
  <2>3. Before(frameNumber + 1)'
    <3>1. capFrame \in FramesOf(current_frames)'
      BY <1>11
    <3>2. Joined(capFrame, frameNumber' + 1)
      BY <2>1, <2>2
    <3>3. Joined(frameNumber, frameNumber + 1)'
      BY <1>2, <2>1, <3>2 DEF Joined
    <3>4. frameNumber' \in FramesOf(current_frames)'
      BY <2>1, <3>1
    <3> QED
      BY <3>3, <3>4 DEF Before
  <2> QED
    BY <1>2, <2>3 DEF Newest
<1>15. Announced'
  <2>1. CASE lost # 0
    <3>1. skipped_last' > 0
      BY <1>1, <1>2, <1>9, <2>1
    <3> QED
      BY <3>1 DEF Announced
  <2>2. CASE endOfDrops
    BY <1>11, <2>2 DEF Announced
  <2>3. CASE lost = 0 /\ ~(skipped_last > 0)
    <3>1. FD = {} /\ F = FK
      BY <1>3, <1>10, <2>3
    <3>2. CASE owed \/ GapAtHead
      <4>1. Marked(current_frames) # {}
        BY <2>3, <3>2 DEF GapInv, Announced
      <4> QED
        BY <1>4, <1>11, <3>1, <4>1 DEF Announced
    <3>3. CASE ~owed /\ ~GapAtHead
      <4>1. CASE CapMarks
        BY <1>11, <4>1 DEF Announced
      <4>2. CASE lastOut = 0
        BY <1>2, <3>3, <4>2 DEF Announced, GapAtHead
      <4>3. CASE lastOut # 0 /\ F # {}
        <5>1. PICK n \in F : Joined(lastOut, n)
          BY <3>3, <4>3 DEF GapAtHead, F
        <5>2. n \in FramesOf(current_frames')
          BY <1>11, <3>1
        <5> QED
          BY <1>2, <1>20, <3>3, <5>1, <5>2 DEF Announced, GapAtHead
      <4>4. CASE lastOut # 0 /\ F = {} /\ ~CapMarks
        <5>1. Joined(lastOut, capFrame)
          BY <1>12, <4>4
        <5>2. capFrame \in FramesOf(current_frames')
          BY <1>11
        <5> QED
          BY <1>2, <1>20, <3>3, <5>1, <5>2 DEF Announced, GapAtHead
      <4> QED
        BY <4>1, <4>2, <4>3, <4>4
    <3> QED
      BY <3>2, <3>3
  <2> QED
    BY <2>1, <2>2, <2>3
<1>16. Fresh'
  BY <1>2 DEF GapInv, Fresh
<1> QED
  BY <1>13, <1>14, <1>15, <1>16 DEF GapInv

\* create returns the oldest frame.  What is then the oldest follows it, or is
\* marked.
LEMMA PopGaps == ASSUME Inv, GapInv, Pop PROVE GapInv'
<1> DEFINE f == Head(current_frames)
<1> DEFINE T == Tail(current_frames)
<1> DEFINE F == FramesOf(current_frames)
<1> DEFINE G == FramesOf(T)
<1> DEFINE M == Marked(current_frames)
<1> DEFINE N == Marked(T)
<1>1. /\ current_frames \in Seq(Entry) /\ current_frames # <<>>
      /\ Ordered(current_frames) /\ ~flushing
      /\ lastOut \in Nat /\ frameNumber \in Nat /\ capFrame \in Nat
  BY DEF Pop, Inv, TypeOK, QueueOK, FramesInOrder, NumbersOK
<1>2. /\ f \in Entry /\ T \in Seq(Entry)
      /\ F = Holding(f.frame) \union G
      /\ f.frame # 0 => \A n \in G : f.frame < n
      /\ f.frame \in Nat
  BY <1>1, TailFrames, EntryType
<1>3. \A m \in M : m \in N \/ (m = f.frame /\ m # 0 /\ Marks(f))
  BY <1>1, TailMarked
<1>4. /\ F \in SUBSET (Nat \ {0}) /\ G \in SUBSET (Nat \ {0}) /\ N \subseteq G
  BY <1>1, <1>2, FrameNumbers
<1>5. /\ current_frames' = T
      /\ UNCHANGED <<flushing, skipped_last, signal_state, capFrame, capFirst, capDropped,
                     frameNumber, waived, video_enabled>>
      /\ video_enabled /\ strPc' # "starting"
      /\ f.frame = 0 => UNCHANGED <<lastOut, owed>>
      /\ f.frame # 0 =>
           /\ lastOut' = f.frame
           /\ owed' = (~Marks(f) /\ (owed \/ (lastOut # 0 /\ ~Joined(lastOut, f.frame))))
  BY DEF Pop, Popped, startVars, capVars, lossVars, Marks, Inv, TypeOK, StartOK
<1>6. \A m \in F : /\ lastOut < m /\ m <= frameNumber
                   /\ capFrame # 0 => m < capFrame
  BY <1>1 DEF Inv, FramesInOrder
<1>7. \A m \in F : m \in M \/ (\E k \in F : Joined(k, m)) \/ \A k \in F : m <= k
  BY DEF GapInv, Follows
<1>8. (owed \/ (lastOut # 0 /\ F # {} /\ \A n \in F : ~Joined(lastOut, n)))
        => skipped_last > 0 \/ M # {}
  BY DEF GapInv, Announced, GapAtHead
<1>9. /\ \/ Empty
         \/ capFrame = 0 /\ (signal_state # "AVAILABLE" \/ Before(frameNumber + 1))
         \/ capFrame # 0 /\ (CapMarks \/ Before(capFrame))
      /\ capFrame # 0 => capFrame = frameNumber
  BY <1>1 DEF GapInv, Newest
<1>10. /\ Empty <=> lastOut = 0 /\ F = {}
       /\ \A n : Before(n) <=> \E k \in F \union {lastOut} : Joined(k, n)
  BY DEF Empty, Before
<1> HIDE DEF f, T, F, G, M, N
<1>11. FramesOf(current_frames)' = G /\ Marked(current_frames)' = N
  BY <1>5 DEF G, N
<1>20. \A a, b : Joined(a, b)' <=> Joined(a, b)
  BY <1>5 DEF Joined
<1>21. Fresh'
  BY <1>5 DEF Fresh
<1>12. CASE f.frame = 0
  <2>1. F = G /\ M \subseteq N
    BY <1>2, <1>3, <1>12 DEF Holding
  <2>2. Follows(current_frames)'
    <3>1. \A m \in G : m \in N \/ (\E k \in G : Joined(k, m)) \/ \A k \in G : m <= k
      BY <1>7, <2>1
    <3> QED
      BY <1>11, <1>20, <3>1 DEF Follows
  <2>3. Newest'
    <3>1. lastOut' = lastOut
      BY <1>5, <1>12
    <3>2. Empty' <=> Empty
      BY <1>10, <1>11, <2>1, <3>1 DEF Empty
    <3>3. /\ Before(frameNumber + 1)' <=> Before(frameNumber + 1)
          /\ Before(capFrame)' <=> Before(capFrame)
      <4>1. FramesOf(current_frames)' = FramesOf(current_frames)
        BY <1>11, <2>1 DEF F
      <4> QED
        BY <1>5, <1>20, <3>1, <4>1 DEF Before, Joined
    <3> QED
      BY <1>5, <1>9, <3>2, <3>3 DEF Newest, CapMarks
  <2>4. Announced'
    BY <1>5, <1>8, <1>11, <1>12, <1>20, <2>1 DEF Announced, GapAtHead
  <2> QED
    BY <1>21, <2>2, <2>3, <2>4 DEF GapInv
<1>13. CASE f.frame # 0
  <2>1. F = {f.frame} \union G /\ \A n \in G : f.frame < n /\ n \in Nat
    BY <1>2, <1>4, <1>13 DEF Holding
  <2>2. \A m \in G : m \in N \/ (\E k \in G : Joined(k, m)) \/ \A k \in G : m <= k
    <3> SUFFICES ASSUME NEW m \in G, m \notin N, NEW j \in G, ~(m <= j)
                 PROVE  \E k \in G : Joined(k, m)
      OBVIOUS
    <3>1. m \notin M /\ m \in F /\ j \in F
      BY <1>3, <2>1
    <3>2. PICK k \in F : Joined(k, m)
      BY <1>7, <3>1
    <3>3. CASE k \in G
      BY <3>2, <3>3
    <3>4. CASE k = f.frame
      <4>1. k \in Nat /\ j \in Nat /\ m \in Nat /\ k < j /\ j < m
        BY <1>2, <2>1, <3>4
      <4> QED
        BY <3>2, <4>1, JoinedWithin
    <3> QED
      BY <2>1, <3>2, <3>3, <3>4
  <2>3. Follows(current_frames)'
    BY <1>11, <1>20, <2>2 DEF Follows
  <2>4. lastOut < f.frame /\ f.frame <= frameNumber /\ (capFrame # 0 => f.frame < capFrame)
    BY <1>6, <2>1
  <2>5. Newest'
    <3>1. ~Empty
      BY <1>10, <2>1
    <3>2. ASSUME NEW n \in Nat, f.frame < n, Before(n)
          PROVE  \E k \in G \union {f.frame} : Joined(k, n)
      <4>1. PICK k \in F \union {lastOut} : Joined(k, n)
        BY <1>10, <3>2
      <4>2. CASE k \in F
        BY <2>1, <4>1, <4>2
      <4>3. CASE k = lastOut
        BY <1>1, <1>2, <2>4, <3>2, <4>1, <4>3, JoinedWithin
      <4> QED
        BY <4>1, <4>2, <4>3
    <3>3. lastOut' = f.frame
      BY <1>5, <1>13
    <3>4. Before(frameNumber + 1) => Before(frameNumber + 1)'
      <4>1. frameNumber + 1 \in Nat /\ f.frame < frameNumber + 1
        BY <1>1, <1>2, <2>4
      <4>2. Before(frameNumber + 1) => \E k \in G \union {f.frame} : Joined(k, frameNumber + 1)
        BY <3>2, <4>1
      <4> QED
        BY <1>5, <1>11, <3>3, <4>2 DEF Before, Joined
    <3>5. capFrame # 0 /\ Before(capFrame) => Before(capFrame)'
      <4>1. capFrame # 0 /\ Before(capFrame)
              => \E k \in G \union {f.frame} : Joined(k, capFrame)
        BY <1>1, <2>4, <3>2
      <4> QED
        BY <1>5, <1>11, <3>3, <4>1 DEF Before, Joined
    <3> QED
      BY <1>5, <1>9, <3>1, <3>4, <3>5 DEF Newest, CapMarks
  <2>6. G # {} /\ (\A n \in G : ~Joined(f.frame, n)) => N # {}
    <3> SUFFICES ASSUME G # {}, \A n \in G : ~Joined(f.frame, n) PROVE N # {}
      OBVIOUS
    <3>1. PICK m \in G : \A k \in G : m <= k
      <4>1. G \in SUBSET Nat
        BY <1>4
      <4> QED
        BY <4>1, Least
    <3>2. m \in F /\ m \in Nat /\ f.frame < m
      BY <2>1
    <3>3. ASSUME NEW k \in F, Joined(k, m) PROVE FALSE
      <4>1. k < m
        BY <3>3 DEF Joined
      <4>2. CASE k \in G
        BY <2>1, <3>1, <3>2, <4>1, <4>2
      <4>3. CASE k = f.frame
        BY <3>1, <3>3, <4>3
      <4> QED
        BY <2>1, <4>2, <4>3
    <3>4. ~\A k \in F : m <= k
      BY <1>2, <2>1, <3>2
    <3>5. m \in M /\ m # f.frame
      BY <1>2, <1>7, <3>2, <3>3, <3>4
    <3> QED
      BY <1>3, <3>5
  <2>7. ~Marks(f) /\ (owed \/ (lastOut # 0 /\ ~Joined(lastOut, f.frame)))
          => skipped_last > 0 \/ N # {}
    <3> SUFFICES ASSUME ~Marks(f), owed \/ (lastOut # 0 /\ ~Joined(lastOut, f.frame))
                 PROVE  skipped_last > 0 \/ N # {}
      OBVIOUS
    <3>1. M \subseteq N
      BY <1>3
    <3>2. ASSUME NEW n \in F, Joined(lastOut, n), n # f.frame PROVE Joined(lastOut, f.frame)
      <4>1. n \in Nat /\ f.frame < n
        BY <2>1, <3>2
      <4> QED
        BY <1>1, <1>2, <2>4, <3>2, <4>1, JoinedWithin
    <3>3. F # {}
      BY <2>1
    <3> QED
      BY <1>8, <3>1, <3>2, <3>3
  <2>8. Announced'
    BY <1>5, <1>11, <1>13, <1>20, <2>6, <2>7 DEF Announced, GapAtHead
  <2> QED
    BY <1>21, <2>3, <2>5, <2>8 DEF GapInv
<1> QED
  BY <1>12, <1>13

\* After unlock_stop or stop there is no frame that another one could follow.
LEMMA DrainGaps == ASSUME Inv, GapInv, UnlockStop \/ Stop PROVE GapInv'
<1>1. /\ current_frames' = <<>> /\ lastOut' = 0 /\ owed' = FALSE
      /\ UNCHANGED capVars
  BY DEF UnlockStop, Stop
<1>2. FramesOf(current_frames)' = {}
  BY <1>1, EmptyFrames
<1>3. Follows(current_frames)' /\ Announced' /\ Fresh'
  BY <1>1, <1>2 DEF Follows, Announced, GapAtHead, Fresh
<1>4. Newest'
  BY <1>1, <1>2 DEF capVars, GapInv, Newest, Empty
<1> QED
  BY <1>3, <1>4 DEF GapInv

\* When start resets skipped_last there is nothing to announce yet; no other step
\* touches the frames.
LEMMA GapOtherSteps ==
  ASSUME Inv, GapInv,
         \/ SignalMarker \/ PassFrame \/ Starting
         \/ EnterCreate \/ ReturnFlushing \/ DecideToWait \/ Wait \/ SpuriousWakeup
         \/ Deliver \/ (\E n \in 1..MaxFrames : ReleaseDownstream(n))
         \/ Unlock \/ UNCHANGED vars
  PROVE  GapInv'
<1>1. /\ UNCHANGED <<signal_state, capFrame, capFirst, capDropped, frameNumber, lastOut,
                     owed>>
      /\ Still
  BY DEF SignalMarker, PassFrame, Starting, Start, ResetSkipped, EnterCreate,
         ReturnFlushing, DecideToWait, Wait, SpuriousWakeup, Deliver, ReleaseDownstream,
         Unlock, vars, queueVars, startVars, capVars, strVars, lossVars, Still
<1>2. /\ UNCHANGED skipped_last \/ strPc = "starting"
      /\ ~video_enabled' \/ strPc' = "starting" => ~video_enabled \/ strPc = "starting"
  BY DEF SignalMarker, PassFrame, Starting, Start, ResetSkipped, EnterCreate,
         ReturnFlushing, DecideToWait, Wait, SpuriousWakeup, Deliver, ReleaseDownstream,
         Unlock, CondSignal, vars, queueVars, startVars, capVars, strVars
<1>3. Follows(current_frames)' /\ Fresh'
  BY <1>1, <1>2, StillFacts DEF GapInv, Fresh
<1>4. Announced'
  <2>1. CASE strPc = "starting"
    BY <1>1, <2>1 DEF GapInv, Fresh, Announced, GapAtHead
  <2> QED
    BY <1>1, <1>2, <2>1, StillFacts DEF GapInv
<1>5. /\ Before(frameNumber + 1)' <=> Before(frameNumber + 1)
      /\ Before(capFrame)' <=> Before(capFrame)
  BY <1>1 DEF Still, Before, Joined
<1>6. Newest'
  BY <1>1, <1>5, StillFacts DEF GapInv, Newest, CapMarks, Still
<1> QED
  BY <1>3, <1>4, <1>6 DEF GapInv

\* A gap in the frame numbers that create returns is never silent: until it is
\* announced by DISCONT, a frame is queued that will announce it, or got_frame
\* still has drops to announce.
THEOREM GapsAnnounced == Spec => []GapAnnounced
<1>1. Inv /\ GapInv /\ [Next]_vars => GapInv'
  BY GotFrameGaps, NoSignalGaps, SkipGaps, RejectGaps, MarkerGaps, EnqueueGaps, PopGaps,
     DrainGaps, GapOtherSteps
     DEF Next, CaptureInput, CaptureMarker, CaptureFrame, Streaming
<1>2. Inv /\ GapInv => GapAnnounced
  BY AnnouncedIsGapAnnounced DEF GapInv
<1> QED
  BY <1>1, <1>2, GapInit, Invariance, PTL DEF Spec

-----------------------------------------------------------------------------
\* A queue has no more frames than entries.
LEMMA FramesBound ==
  ASSUME NEW q \in Seq(Entry)
  PROVE  IsFiniteSet(FramesOf(q)) /\ Cardinality(FramesOf(q)) \in 0..Len(q)
<1> DEFINE n == Len(q)
<1> DEFINE all == {q[i].frame : i \in 1..n}
<1> DEFINE f == [i \in 1..n |-> q[i].frame]
<1>1. n \in Nat
  OBVIOUS
<1>2. f \in Surjection(1..n, all)
  <2>1. f \in [1..n -> all]
    OBVIOUS
  <2>2. \A t \in all : \E i \in 1..n : f[i] = t
    OBVIOUS
  <2> HIDE DEF f, all
  <2> QED
    BY <2>1, <2>2 DEF Surjection
<1> HIDE DEF f, n
<1>3. IsFiniteSet(1..n) /\ Cardinality(1..n) = n
  <2>1. 1 \in Int /\ n \in Int
    BY <1>1
  <2>2. /\ IsFiniteSet(1..n)
        /\ Cardinality(1..n) = IF 1 > n THEN 0 ELSE n - 1 + 1
    BY Zenon, <2>1, FS_Interval
  <2> QED
    BY <1>1, <2>2
<1>4. IsFiniteSet(all) /\ Cardinality(all) <= n
  BY <1>2, <1>3, FS_Surjection
<1>5. FramesOf(q) \in SUBSET all
  BY DEF FramesOf, n
<1> HIDE DEF all
<1>6. IsFiniteSet(FramesOf(q)) /\ Cardinality(FramesOf(q)) <= Cardinality(all)
  BY <1>4, <1>5, FS_Subset
<1>7. Cardinality(FramesOf(q)) \in Nat /\ Cardinality(all) \in Nat
  BY <1>4, <1>6, FS_CardinalityType
<1> QED
  BY <1>1, <1>4, <1>6, <1>7 DEF n

\* The dropping loop leaves room for one more entry.
LEMMA Room ==
  ASSUME NEW q \in Seq(Entry)
  PROVE  Len(Kept(q)) < QueueSize
<1>1. Len(Kept(q)) = Len(q) - Excess(q)
  BY Parts
<1> QED
  BY <1>1, VideoQueueAssumption DEF Excess

\* LossyFifo counts as FiniteSets does.
LEMMA SameCardinality == ASSUME NEW S PROVE Fifo!Cardinality(S) = Cardinality(S)
  BY DEF Fifo!Cardinality, Cardinality

\* Nothing queued and nothing taken at first.
LEMMA FifoInit == Init => Fifo!Init
  BY EmptyFrames DEF Init, Fifo!Init

\* got_frame puts the frame that the capture thread holds, which is the newest,
\* and gives up the oldest ones.
LEMMA EnqueuePuts == ASSUME Inv, EnqueueFrame PROVE Fifo!Put(capFrame)
<1> DEFINE D == Dropped(current_frames)
<1> DEFINE K == Kept(current_frames)
<1> DEFINE R == Rewritten(K, Remembered(D))
<1> DEFINE endOfDrops == Cardinality(FramesOf(D)) = 0 /\ skipped_last > 0
<1> DEFINE e == Captured(capFrame, capFirst, capDropped \/ endOfDrops)
<1>1. /\ current_frames \in Seq(Entry) /\ Ordered(current_frames)
      /\ capFrame \in Nat \ {0}
      /\ capFirst \in BOOLEAN /\ capDropped \in BOOLEAN
  BY DEF EnqueueFrame, Inv, TypeOK, QueueOK, CaptureOK, NumbersOK, FramesInOrder
<1>2. current_frames' = Append(R, e) /\ lastOut' = lastOut
  BY DEF EnqueueFrame
<1>3. \A x \in FramesOf(current_frames) \union {lastOut} : x < capFrame
  BY <1>1 DEF Inv, FramesInOrder, Ahead
<1>4. /\ D \in Seq(Entry) /\ K \in Seq(Entry)
      /\ FramesOf(current_frames) = FramesOf(D) \union FramesOf(K)
      /\ \A x \in FramesOf(D), y \in FramesOf(K) : x < y
  BY <1>1, Parts, KeptFrames
<1>5. Cardinality(FramesOf(K)) < QueueSize
  <2>1. Len(K) < QueueSize
    BY <1>1, Room
  <2> HIDE DEF K
  <2>2. Cardinality(FramesOf(K)) \in 0..Len(K) /\ Len(K) \in Nat
    BY <1>4, FramesBound
  <2> QED
    BY <2>1, <2>2, VideoQueueAssumption
<1>6. R \in Seq(Entry) /\ FramesOf(R) = FramesOf(K)
  <2> DEFINE c == Remembered(D)
  <2>1. c \in SignalChange
    BY DEF Remembered, SignalChange
  <2> HIDE DEF c, D, K
  <2>2. /\ Rewritten(K, c) \in Seq(Entry)
        /\ Len(Rewritten(K, c)) = Len(K)
        /\ \A i \in 1..Len(K) : Rewritten(K, c)[i].frame = K[i].frame
    BY <1>4, <2>1, RewrittenType
  <2> HIDE DEF R
  <2>3. /\ R \in Seq(Entry) /\ Len(K) = Len(R)
        /\ \A i \in 1..Len(K) : K[i].frame = R[i].frame
    BY <2>2 DEF R, c
  <2> QED
    BY <1>4, <2>3, SameFrames
<1>7. e \in Entry /\ e.frame = capFrame
  <2> HIDE DEF endOfDrops
  <2>1. (capDropped \/ endOfDrops) \in BOOLEAN
    BY <1>1
  <2> QED
    BY <1>1, <2>1 DEF Captured, Entry, SignalChange
<1> HIDE DEF D, K, R, e
<1>8. FramesOf(current_frames') = FramesOf(K) \union {capFrame}
  <2>1. Holding(e.frame) = {capFrame}
    BY <1>1, <1>7 DEF Holding
  <2> QED
    BY <1>2, <1>6, <1>7, <2>1, AppendFrames
<1>9. \E kept \in SUBSET FramesOf(current_frames) :
        /\ \A x \in FramesOf(current_frames) \ kept, y \in kept : x < y
        /\ Cardinality(kept) < QueueSize
        /\ FramesOf(current_frames') = kept \union {capFrame}
  <2>1. FramesOf(K) \in SUBSET FramesOf(current_frames)
    BY <1>4
  <2>2. \A x \in FramesOf(current_frames) \ FramesOf(K), y \in FramesOf(K) : x < y
    BY <1>4
  <2> QED
    BY <1>5, <1>8, <2>1, <2>2
<1>10. lastOut' = lastOut
  BY <1>2
<1> QED
  BY <1>3, <1>9, <1>10, SameCardinality DEF Fifo!Put

\* create takes the oldest frame, or notifies a marker and takes none.
LEMMA PopTakes ==
  ASSUME Inv, Pop
  PROVE  Fifo!Take \/ UNCHANGED <<FramesOf(current_frames), lastOut>>
<1> DEFINE f == Head(current_frames)
<1> DEFINE T == Tail(current_frames)
<1>1. /\ current_frames \in Seq(Entry) /\ current_frames # <<>>
      /\ Ordered(current_frames)
  BY DEF Pop, Inv, TypeOK, QueueOK, FramesInOrder
<1>2. /\ f \in Entry /\ T \in Seq(Entry)
      /\ FramesOf(current_frames) = Holding(f.frame) \union FramesOf(T)
      /\ f.frame # 0 => \A n \in FramesOf(T) : f.frame < n
      /\ f.frame \in Nat
  BY <1>1, TailFrames, EntryType
<1>3. /\ current_frames' = T
      /\ lastOut' = IF f.frame = 0 THEN lastOut ELSE f.frame
  BY DEF Pop, Popped
<1> HIDE DEF f, T
<1>4. CASE f.frame = 0
  BY <1>2, <1>3, <1>4 DEF Holding
<1>5. CASE f.frame # 0
  <2> DEFINE S == FramesOf(current_frames)
  <2>1. S = {f.frame} \union FramesOf(T) /\ f.frame \notin FramesOf(T)
    BY <1>2, <1>5 DEF Holding
  <2>2. \A n \in FramesOf(T) : n \in Nat
    BY <1>2, EntryType DEF FramesOf
  <2>3. \A y \in S : f.frame <= y /\ y \in Nat
    BY <1>2, <1>5, <2>1, <2>2
  <2>4. Fifo!Oldest(S) = f.frame
    <3> HIDE DEF S
    <3>1. \A x \in S : (\A y \in S : x <= y) => x = f.frame
      BY <1>2, <2>1, <2>3
    <3>2. f.frame \in S /\ \A y \in S : f.frame <= y
      BY <2>1, <2>3
    <3>3. (CHOOSE x \in S : \A y \in S : x <= y) = f.frame
      BY <3>1, <3>2
    <3> QED
      BY <3>3 DEF Fifo!Oldest
  <2>5. FramesOf(current_frames') = S \ {f.frame}
    BY <1>3, <2>1
  <2> HIDE DEF S
  <2>6. S # {}
    BY <2>1
  <2> QED
    BY <1>3, <1>5, <2>4, <2>5, <2>6 DEF Fifo!Take, S
<1> QED
  BY <1>4, <1>5

\* unlock_stop and stop discard every frame.
LEMMA DrainFlushes == ASSUME UnlockStop \/ Stop PROVE Fifo!Flush
  BY EmptyFrames DEF UnlockStop, Stop, Fifo!Flush

\* A marker adds no frame.
LEMMA MarkerAddsNoFrame ==
  ASSUME Inv, PushMarker
  PROVE  UNCHANGED <<FramesOf(current_frames), lastOut>>
<1> DEFINE m == Marker(capMarker)
<1>1. m \in Entry /\ m.frame = 0
  BY DEF Inv, TypeOK, CaptureOK, Marker, Entry
<1>2. current_frames' = Append(current_frames, m) /\ lastOut' = lastOut
  BY DEF PushMarker, strVars
<1>3. current_frames \in Seq(Entry)
  BY DEF Inv, TypeOK, QueueOK
<1> HIDE DEF m
<1> QED
  BY <1>1, <1>2, <1>3, AppendFrames DEF Holding

\* No other step touches the queue or the last frame.
LEMMA OtherSteps ==
  ASSUME \/ CallbackDisabled \/ GotNoSignal \/ (\E d \in BOOLEAN : GotFrame(d))
         \/ SignalMarker \/ SkipFrame \/ PassFrame \/ RejectFrame
         \/ Starting \/ StartStreams
         \/ EnterCreate \/ ReturnFlushing \/ DecideToWait \/ Wait \/ SpuriousWakeup
         \/ Deliver \/ (\E n \in 1..MaxFrames : ReleaseDownstream(n))
         \/ Unlock \/ UNCHANGED vars
  PROVE  UNCHANGED <<FramesOf(current_frames), lastOut>>
<1>1. UNCHANGED <<current_frames, lastOut>>
  BY DEF CallbackDisabled, GotNoSignal, GotFrame, SignalMarker, SkipFrame, PassFrame,
         RejectFrame, Starting, Start, ResetSkipped, StartStreams, EnterCreate,
         ReturnFlushing, DecideToWait, Wait, SpuriousWakeup, Deliver,
         ReleaseDownstream, Unlock, vars, queueVars, strVars
<1> QED
  BY <1>1

\* Whatever the queue length, the number of frames and the interleaving of the
\* three threads, what got_frame, create and unlock_stop do to the frames is
\* what LossyFifo allows: only the oldest are lost, and the oldest is returned.
THEOREM Implements == Spec => FifoSpec
<1>1. Inv /\ [Next]_vars => [Fifo!Next]_(Fifo!vars)
  <2> SUFFICES ASSUME Inv, [Next]_vars
               PROVE  Fifo!Next \/ UNCHANGED <<FramesOf(current_frames), lastOut>>
    BY DEF Fifo!vars
  <2>1. CASE EnqueueFrame
    <3>1. capFrame \in 1..MaxFrames
      BY <2>1, VideoQueueAssumption DEF EnqueueFrame, Inv, TypeOK, CaptureOK, NumbersOK
    <3>2. Fifo!Put(capFrame)
      BY <2>1, EnqueuePuts
    <3> QED
      BY <3>1, <3>2 DEF Fifo!Next
  <2>2. CASE Pop
    BY <2>2, PopTakes DEF Fifo!Next
  <2>3. CASE UnlockStop \/ Stop
    BY <2>3, DrainFlushes DEF Fifo!Next
  <2>4. CASE PushMarker
    BY <2>4, MarkerAddsNoFrame
  <2>5. CASE ~(EnqueueFrame \/ Pop \/ UnlockStop \/ Stop \/ PushMarker)
    BY <2>5, OtherSteps
       DEF Next, CaptureInput, CaptureMarker, CaptureFrame, Streaming
  <2> QED
    BY <2>1, <2>2, <2>3, <2>4, <2>5
<1> QED
  BY <1>1, FifoInit, Invariance, PTL DEF Spec, FifoSpec, Fifo!Spec
=============================================================================
