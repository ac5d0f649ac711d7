# A TLA+ model of the AJA NTV2 GStreamer plugin

This directory specifies the capture side of the plugin in `gst-plugin/aja`: the
video and audio sources, the capture thread they share, the timestamps it gives to both,
the pools and the memory allocator behind their buffers, and what several sources share
of a card.  TLC checks the modules on small instances; TLAPS proves the safety properties
of all of them for all values of their constants.

Line numbers are of the files in `gst-plugin/aja`.  `PROJECT.json` lists the runs, maps
every definition to the lines it models, and lists the hazards and the findings.

## The system

One *input* of a card (`GstAjaInput`, gstaja.h:307) is shared by a video source, an
audio source and one object of class `NTV2GstAV`, which owns the capture thread.

    application thread          capture thread (ACInputWorker)     streaming threads
    change_state  ---Run/Quit-->  polls the card, acquires
       |                          buffers, transfers, numbers,
       |                          then calls
       |                            video callback = got_frame  --> current_frames  --> create (video)
       |                            audio callback = got_packet --> current_packets --> create (audio)
       +--- input->lock ------------------^ (got_packet)                                 |
                                                                 start() -> start_streams -> Run

| part | state | operations | what is hard | module |
|---|---|---|---|---|
| video queue (gstajavideosrc.cpp) | `current_frames`, `flushing`, `signal_state`, `skipped_*`, `video_enabled` | `got_frame`, `create`, `start`, `start_streams`, `unlock`, `unlock_stop`, `stop` | signal markers are queued without the lock; drops must keep signal changes and announce gaps; every buffer is released on one of seven paths | `VideoQueue` |
| audio queue (gstajaaudiosrc.cpp) | `current_packets`, `next_offset`, `discont_time` | `got_packet`, `create`, ... | the same queue without markers; sample alignment with unsigned times and rounding | `AudioSource` |
| time mapping (gstajavideosrc.cpp:893-1115) | window of samples, current and next mapping, `discont_time`, `first_time` | `got_frame`, `update_time_mapping`, `got_packet`, `start_streams` | no lock: the capture thread maps, another thread resets, and the audio source reads the video source's fields | `TimeMapping` |
| capture thread (gstntv2.cpp) | `mLastFrame*`, `mGlobalQuit`, counters, pools | `Run`, `Quit`, `ACInputWorker` | flags without a lock, a wait with a timeout, a drop counter that wraps | `CaptureThread` |
| shared input (all) | element states, slots, callbacks, `*_enabled` | state changes, `start`, `start_streams`, `stop`, `close` | three kinds of threads start and stop one object, `Quit` waits under `input->lock` | `AjaInput` |
| buffer pool (gstaja.cpp:746-1035) | queue of buffers, tags, qdata | acquire, reset, release, activation | buffers come back cut, shared or stripped; some come back after the pool was closed | `BufferPool` |
| allocator (gstaja.cpp) | `free_list`, `num_allocated` | alloc, share, free, finalize | count and allocation are not one step; sub-memories; the card object may be gone | `Allocator` |
| routing (gstntv2.cpp) | the card's routing, a named semaphore | `Init`/`SetupVideo`, `Quit`, `Close` | read-modify-write by several processes, hand-written tables of connectors, leftovers of crashed or closed sources | `Routing` |
| frame ranges and audio systems (gstntv2.cpp:993-1219) | frames of each running channel, inputs of each audio system | `SetupAutoCirculate`, `SetupAudio` | shared by processes without any lock, kept apart by arithmetic on channel numbers | `Routing` |
| sinks, device provider, mode tables, clock, captions, timecode, VPID, NVMM | none that matters | | not modelled, see below | |

What makes them correct: buffers have one owner, and the card writes into memory that
nobody else reads; frames come out in order, and a gap or a signal change is never silent; a
packet has the time of its frame, and that time finds the clock; nobody sleeps on work;
`Quit` returns and nothing runs after it; the streams start when, and only when, both
sources are ready; every open source receives its own inputs whatever others do; all memory
is given back.

## Modules

`VideoQueue` — `got_frame` of the capture thread, `create` of the streaming thread with `start`
as its first part, and `unlock`, `unlock_stop`, `start_streams` and `stop` of the application.  An
entry is an `AjaCaptureVideoFrame`: a marker (frame 0) or a numbered frame with the flags that
become DISCONT.  Steps are the code's lock regions; the
two marker pushes, which take no lock, are two steps (`PushMarker`, `SignalMarker`), and
waiting at the condition is three (`DecideToWait`, `Wait`, wakeup), so that a push may come
between test and wait.  `CondSignal` wakes the waiting thread only.  `StartStreams` comes in
mid-stream too: it makes the signal state unknown and lets `skip_first_time` begin anew
(gstajavideosrc.cpp:792, 795), so that frames are skipped between others (`SkipFrame`).  `Stop`
comes once `Quit` has ended the worker; a frame that comes while the source is not enabled is
ignored (`CallbackDisabled`, 1511).  History variables hold
what was notified and returned.  `GstQueueArray` operations are taken as atomic, which the
code does not ensure for the unlocked pushes.  There is one capture thread; that there may
be two is the matter of `AjaInput`.

`LossyFifo` — what the two queues promise: a bounded set of numbered items, of which the oldest
is given out and the oldest are given up.  `VideoQueue` (`FifoSpec`: an `INSTANCE` with
markers left out) and `AudioSource` implement it; this is checked and proved.

`FrameStream` — what the capture thread promises the two sources: captures with growing numbers,
each given to the video callback as a frame and then to the audio callback as a packet with
the same number and marks, and a mark on the frame after a number that is left out.  `CaptureThread`
implements it (`StreamSpec`), and `VideoQueue` and `AudioSource` take from the capture thread any frames it
allows: a capture without signal may be numbered and marked too, and its mark goes with it
(gstajavideosrc.cpp:1039).

`CaptureThread` — `Run`, the five phases of `Quit`, and one iteration of `ACInputWorker`
split wherever a flag shared with `Quit` is read or written.  After the video callback
`lastFrame` is read from a buffer that was given away (1807): if it was freed by then, what is
read is any value.  The card is external: it has
a frame or not, a signal or not, and drops frames, with a counter modulo `CounterMod`.

`Allocator` — each block is on the free list, in use, or being freed by some thread; the
critical sections of `_aja_memory_new_block` and `gst_aja_allocator_free` and the work after
them are separate steps.  `LockedOr` lets `DMABufferLock` fail.  `device` is the card object,
to which the allocator keeps a pointer and no reference: a call after its deletion (`UnlockOn`)
unlocks or does not, and is remembered.  `AJAMemory::AllocateAligned` is taken to find memory.

`BufferPool` — `GstAjaBufferPool` from `SetupHostBuffers` to the deletion of the card
object.  It composes `Allocator`: a buffer is named by the block it was allocated with, and
every step is one of the allocator's or leaves it alone (theorem `UsesAllocator`), so the
run of the pool is the run of the allocator too.  `GstBufferPool` (queue, outstanding
count, what it refuses to keep) is external and taken as the subclass relies on it.
Downstream, external as well, shares memory, cuts shared buffers and removes qdata.
`FreeHostBuffers`, the release of the last reference and the end of `~NTV2GstAV` are
separate steps of the owner, and buffers may be outstanding at each.

`TimeMapping` — what `got_frame` and `update_time_mapping` compute, and what `got_packet` reads
of it, in steps of a read or a write of the fields they share: the base, the stream time,
`first_time`, the test of `skip_first_time`, sample, window, regression, approach and timestamp of
the frame, then assertion, stream time, test and timestamp of the packet.  `StartStreams` may come
at every step, as the code lets it.  What is computed from a field that it reset in between is
any value; a `first_time` computed without a base is `Astray`.  Times are relative: a sample is
the offset of its capture time from its stream time, a mapping its offset at the frame in hand
and how fast that changes.  `gst_calculate_linear_regression` is external: the common offset
where all samples agree, any line otherwise, and it may fail (`NoNextMapping`), though not for
ever.  Each sample and mapping carries where it came from (`from`), which no code reads.

`AjaInput` — the state changes of both elements, one at a time by the application; their
streaming threads, which call `start` when they are let go; the capture threads, one for
every `Run`; and `input->lock`, held across the steps of `Quit`.  Failed opens keep their
slots as in the code, and an audio source that comes into the video slot (gstaja.cpp:86) is in
the model there too.  The two sources are shut down in any order.  A call through a device
pointer that is NULL is remembered in `nullUse`, and the model goes on.

`AudioSource` — the audio queue and the whole alignment of `create`, with packets skipped at the
start and, after the video source's `start_streams`, in mid-stream.  Rates and clock units
are small numbers (`Rate`, `Second`); `TimeMod` stands for 2^64.  The timestamp of a packet
is its number's time plus any of `Offsets`: `TimeMapping` says which they are.  Its number and
mark are any that `FrameStream` allows.  That times
stay below `TimeMod` is the assumption `TimesFit`.  The path of `got_packet` for an input without
video source (gstajaaudiosrc.cpp:713-716) is left out, because no packet takes it: `AjaInput`'s
`InputInPlace`, checked and proved, has the video source in its slot wherever a capture thread
runs that was not left behind (`AjaInputLeak` is about those).

`Routing` — a routing is a function from connectors to signals.  `Routed` is what
`SetupVideo` makes of the routing it read: disconnects, then connects, later connections
replacing earlier ones.  Processes take the semaphore, read, apply, post; they may be killed
at any step, with the semaphore as it is.  `heard` is what `InitAudio` sets, outside the
semaphore: where the audio system of a source gets its samples.  `circulating` is the range
of card frames `SetupAutoCirculate` gives to a channel, from `Run` to `Quit` or the death of
the process.  Assumed: `AddConnection` replaces, `ApplySignalRoute(.., true)` writes
everything, `sem_open` succeeds and `sem_wait` is not interrupted (the mutant
`SemWait_Interrupted` shows what follows otherwise), and users do not open two sources for
the same channel or for a channel that passthrough drives, and only use channels their card
has.  `card` is fixed at the start: one with bidirectional connectors, or one with fixed
ones, which also puts each input out again end to end.  Quad links are of SDI, or are the four
quadrants of an HDMI input (`RoutingAssumption`).  A quad link whose passthrough would drive one of
its own inputs, as it could on a card with four connectors, is left out: passthrough is documented as
"halfing the number of input channels" (gstajavideosrc.cpp:191).

`MC...` modules extend these for TLC: symmetry, and for `Routing` the configurations.
Definitions called `X_...` next to a definition `X` are its *mutants*: the change of the code
that a property is there to notice.

## Runs

| run | checks | bounds | states |
|---|---|---|---|
| VideoQueueSafety | types, one owner per buffer, no missed wakeup, signal changes kept, gaps announced; it is a `LossyFifo`; queued frames leave, unlock unblocks | queue 2, 1 skipped, 4 frames, 1 unlock, stop or `start_streams` in mid-stream | 254,700 |
| CaptureThreadSafety | types, drop accounting, pools and thread within `Run` and `Quit`; the callbacks give a `FrameStream`; Quit returns, stalls are reported | counter modulo 3, loss limit 2, 3 frames, 5 drops, 2 runs | 752,315 |
| BufferPoolSafety | types, one place per block, count, the card writes alone, close frees all, buffers are reused; the last release frees the rest | 3 blocks, 1 thread, 1 preallocated, 1 kept, 2 sub-memories each | 495,118 |
| TimeMappingSafety | types, audio and video agree, old samples do not show; the mapping finds the clock | window 2, a sample in at most 3 frames, `MaxDiff` 2, `Far` 4, 1 skipped, offsets to 2, slopes to 1, 3 jumps, losses, failed regressions and restarts | 724,770 |
| AjaInputSafety | types, device and video source in place, the streams and the audio callback follow both elements' states; Quit returns unless a capture thread waits for its lock | 15 state changes, 2 runs, 2 failed opens, any order of shutdown | 235,927 |
| AudioSourceSafety | types, buffers, gaps, contiguity, drift; it is a `LossyFifo` | queue 2, 1 skipped, 6 packets, 2 offsets, 1 flush, 1 restart | 1,447,826 |
| RoutingSafety | types, own inputs, card frames shared only where they must be, inputs not driven, outputs shown | 2 sources, 14 configurations, 1 crash, cards with 8 or 4 bidirectional and with 4 fixed connectors | 1,351,616 |

Why the bounds are enough.  A queue of two, the default policy with the least room for it,
has a head and a tail that differ; four frames fill it, drop, and end the dropping again,
next to markers, which are not counted.  Whatever more than one unlock, stop and restart could
do together, the invariants and the refinement are proved for.  A queue of one is the disagreement `VideoQueueOneEntry`, and covered by the theorem `SignalsTracked`.  A counter modulo 3 wraps under five drops.  Three
blocks are one that is preallocated, one kept and one that has to be freed, each of which may
be with the pool, the card or downstream; two sub-memories are a cut buffer that is shared
as well.  A window of two samples is the smallest of which they can differ; with three jumps it
is filled by old samples, restarted and filled anew, and offsets to 2 make the distances 0, 1, 2,
3 and 4 that are adopted, approached, and again adopted.  Times saturate at the bound
instead of leaving it.  Fifteen state changes take both elements up, down to READY, up again
and down to NULL, in any order of the two.  A second source is what the routing's read-modify-write needs to go wrong,
and configurations were chosen so that each branch of `SetupVideo` is taken next to one that
shares connectors with it, and that ranges of 15 and of 7 card frames lie next to each other.

Counts and bounds of histories (`MaxFrames`, `MaxDrops`, `MaxRuns`, `MaxFlushes`,
`MaxCalls`, `MaxChanges`, `MaxFailures`, `MaxCrashes`, `MaxPackets`, `MaxJumps`, `MaxRestarts`) end behaviours, which is
why deadlock is not checked there: after them the system stops.  Blocks (`Blocks`) and
sub-memories (`MaxSubs`) bound what downstream may hold at once.  Waiting for ever is looked
for by the liveness properties instead.

Fairness: `WF` of each thread's own steps, as the operating system schedules runnable
threads, sleeps end and callbacks return; of `TimeMapping`'s `Capture`, a capture thread
with a signal; of `BufferPool`'s `Ends`, a free or a close that is under way.  For `VideoQueue` that
is a playing element: while it is paused the base class does not call `create`.  The
application need never change a state, push a button or flush; downstream need never release
a buffer; the card need never deliver (`LastFreesAll` and `Locks` are about behaviours where
they do).  Nothing is assumed of the order of threads that want one lock.

### Disagreements the runs show

Each of these runs checks one statement of the code's own comments or assertions and ends in
a counterexample.  Other faults are stated exactly by properties that hold, see below.

* `VideoQueueLostWakeup` — the marker of a lost signal is pushed without `src->lock` between
  the consumer's test and its wait (1057, 1304-1305): the application is not told until
  frames come back.
* `VideoQueueOneEntry` — with `queue-size=1` the loop drops the marker of a signal for the frame
  that follows, and leaves no entry to write the remembered change into (1165).
* `AjaInputLeak` — PAUSED→PLAYING and `start` both start the streams; Quit ends the second
  thread only, and the first is left with a deleted object (gstajavideosrc.cpp:524, 875).
* `AjaInputDeadlock` — `stop` waits for the capture thread under `input->lock`, which that
  thread wants (gstajavideosrc.cpp:762, gstajaaudiosrc.cpp:680).
* `TimeMappingAbort` — a `start_streams` between the two callbacks of a frame resets
  `first_time`, and the assertion of the audio source fails (gstajaaudiosrc.cpp:687).

### Faults the properties describe

These the models contain too.  A property that holds says when they happen and that they happen
in no other case, so none is hidden by an assumption.

* Nothing orders the two sources' shutdown.  After the video source's close the audio source's
  `stop` and READY→PAUSED call a device that is gone (gstajaaudiosrc.cpp:570, 610).  `InputInPlace`
  says that neither the video source nor a capture thread with its device ever does.
* An audio source that was paused but never started leaves its callback behind at
  `stop` (gstajaaudiosrc.cpp:567), and after close that reads an input that is gone
  (938).  `StreamsFollowStates` says that a source that was started never does.
* A buffer that is held downstream over the close keeps the allocator alive, which then unlocks its
  blocks through the destroyed card object (gstaja.cpp:1038, 1059; gstajavideosrc.cpp:738).
  `CloseFreesAll` says that nobody calls the object when nothing was lent, and `LastFreesAll`
  that the memory is freed even if the call does not unlock it.
* A 12G source, or UHD from HDMI on channel 3 or 4, and a smaller one on a near channel share
  frames of the card's memory (gstntv2.cpp:1203-1210).  `CardFramesApart` says which sources do,
  for all configurations.

### What the properties had to leave out

Read off the code or met while modelling, and not kept as runs, because the repository says
nothing to the contrary:

* Frames can follow the one with `lastFrame` (gstntv2.cpp:1637).
* An 8K source on channel 5 overwrites its first input (gstntv2.cpp:847, 858): the connector of
  its second link is that of the first frame buffer (`SecondFrameBuffer`).  The run's
  configurations leave it out, and so does the condition `Sensible` of the theorems.
* A `start_streams` in the middle of `update_time_mapping` leaves samples or a pending mapping of
  the old streams, which show for as long as the window
  holds them: hence `raced` in `FreshMapping` and `StaysOnClock`, which hold again after a `start_streams`
  between two callbacks.  One between the callbacks of a frame can also skip the frame and not
  the packet, or give the two different times; `AudioMatchesVideo` says that the stream times start
  over then.  `AjaInput` steps over the assertion.
* After a `start_streams` in mid-stream `skip_first_time` skips frames and packets again, and with a
  skipped frame go its mark of a gap and its mark as the first after a lost signal
  (gstajavideosrc.cpp:1096-1104, gstajaaudiosrc.cpp:693-702): the gap is announced by nothing.
  `GapAnnounced`, in both queues, is about gaps other than these (`waived`).
* A video source that is closed and opened again while the audio source plays has a new device, with
  which no audio callback is registered: the audio source stays silent until it is restarted.
* When the signal comes back the stream times start over, but window and mapping are kept: until
  the window has been refilled times are those of the old base (`Locks` says that it ends).
* `gst_aja_buffer_pool_reset_buffer` never grows a buffer: the pool's size is the allocation's
  maximum.  Had it used `<=`, cut buffers that share memory would go back to the queue (the
  mutant `Grown_AlsoToMaximum`).  Downstream code that grows such a buffer back itself is
  excluded.
* UHD from HDMI goes through the multiplexers and frame buffers of channels 1 and 2 whatever the
  source's channel is (gstntv2.cpp:829-843): `RoutingSafety` and the theorems about `OwnInputs` and
  `OutputsShown` have it on channel 1.  On channels 3 and 4 its frames 30 to 59 are those
  of small sources on channels 5 to 8, as `CardFramesApart` says for all configurations.
* A process that is killed inside `Init` leaves the semaphore taken, and all later opens wait for
  ever (gstntv2.cpp:162-168): the model has it, and no property states that they go on.
* HDMI sources above channel 4 and analog ones on any channel but 1 share input and colour converter 1
  with other sources.
* A skipped packet keeps a reference to the video source (gstajaaudiosrc.cpp:682, 702).
* The frame number of an audio buffer has 32 bits, that of a video buffer 64.
* A single link leaves the DS2 connectors of an 8K source connected (gstntv2.cpp:743-766),
  which no property counts as a fault while nobody owns them.
* `DropsCounted` states what is true of the drop count: it is short by one for each wrap of the
  32-bit counter (gstntv2.cpp:1530).

## Proofs

Eight modules hold the proofs, for all values of the constants, from the modules' named
assumptions only: queue sizes at least one, bounds natural numbers, finite sets of blocks,
and in `AudioSource` that times fit.  No induction over data is used.  In each module the
inductive invariant is first checked by TLC.

* **VideoQueueProofs**: `TypeCorrect`, `OneOwner`, `InOrder`, `Awake`.  The inductive invariant
  `Inv` adds to the properties that the frame the capture thread holds is newer than any that left
  (`Ahead`), without which order is not preserved by a push, and that the streaming thread on
  its way to sleep has seen an empty queue and no flush (`Asleep`), which frames and flushes
  cannot change because they need the lock it holds.  The markers can: hence the lemma speaks
  of frames, and `LossIsNotified` fails.  Lemmas about `Kept`, `Rewritten`, `Append` and `Tail` say
  what each does to the set and the order of queued frames.
* **VideoQueueDelivery**: `SignalsTracked`, `GapsAnnounced`, `Implements`.
  A signal change is tracked because the last entry, or the remembered change when there is
  none, always tells the current state, and a drop that removes the last teller rewrites an
  entry that stays.  In a queue of one entry none may stay; `SignalsTracked` is for every queue size and
  says that this is the only way a change is lost (`forgotten`).  For gaps the invariant is that every queued frame is
  marked, or was queued right after its predecessor, or is the oldest (`Follows`), and the like of the
  frame the capture thread will queue next (`Newest`), which is marked as the first if the signal was
  gone: that is what makes up for a mark that went with a capture without signal.  `Implements` shows each step of the queue to be
  a `Put` (which may give up the oldest), `Take` or `Flush` of `LossyFifo`, or nothing: markers are not
  seen there.
* **CaptureThreadProofs**: `TypeCorrect`, `ThreadLife`, `DropCount`, `GapsFlagged`, `Streams`,
  `QuitIsBounded`.  `Control`
  says what the flags and the pools are in each phase of `Quit`; `Numbers` that the next frame's
  number follows the last one's unless new drops are noted, and that they are noted whenever
  the count grew.  `Streams` maps every step of the thread to a `Frame`, `Packet` or `Restart` of
  `FrameStream`, or to none.  `QuitIsBounded` is the safety half of `QuitReturns`: from the global
  quit on, each step of the thread brings it nearer to its end, wherever it was.
* **BufferPoolProofs**, of the allocator: `CountExact`, `Limits`, `NothingLeft`.  The count is related
  to the cardinality of the free list, the used blocks and the threads between counting and allocating;
  `Limits` needs the count, since whether a block is kept is decided by it.
* **BufferPoolProofs**, of the pool: `UsesAllocator`, `PoolCountExact`, `WritesAlone`, `CloseFrees`,
  `Reused`, `PoolTypes`.  A pool is a use of the allocator, so the allocator's theorems hold of it.  What a
  buffer was put through is told by its tag (`SubsTagged`): a buffer with a sub-memory is small
  and tagged, and neither stays in the queue.  `CloseClean` follows a closing with nothing lent
  through its steps.
* **TimeMappingProofs**: `TypesInvariance`, `Matches`, `Freshness`, `OnClock`.  `Together` says at each read of
  `got_packet` what the video source's fields are, or that the base was reset since: from a
  `start_streams` on there is none until a frame sets it, however the two callbacks go on.  `Fresh`
  says which part of the window the filling so far has made new: everything a regression reads
  was written since the last restart, provided that came between callbacks.  `OnClock` is the
  safety half of `Locks`: times that are right stay right.
* **AjaInputProofs**: `TypeCorrect`, `StreamsFollow`, `InputThere`.  `Phases`
  says in which states of the elements a streaming thread lives and `Quit` runs, so that a
  start never meets an element that was stopped; `Present` that the device is there from READY
  on, so that a start that finds both sources ready does run, and that an audio source that was started
  stays enabled until its `stop`, which therefore takes its callback away.
* **AudioSourceProofs**: `PacketTypes`, `NoneLeaked`, `GapsFollowed`, `DriftEnds`, `Gapless`,
  `Implements`.  The
  drift is the arithmetic of the alignment: a sample count that is further than the
  threshold from a timestamp is, through the roundings of both conversions, further than the
  bound in time as well (`Rounded`, `Apart`), and such a difference either lasts less than
  `DiscontWait` or is resynchronised.  `TimesFit` keeps the unsigned differences from wrapping.  `Implements` is the
  refinement of `LossyFifo`: what is left after drops is a suffix of the queue (`Kept`), whose numbers are
  newer than all that went (`GotPacketPuts`), and fewer than the capacity (`FramesBound`).

* **RoutingProofs**: `TypeCorrect`, `InputsFree`, `Serialised`; `FramesApart`, which says exactly which
  sources share card frames; these for all configurations.
  `OwnInputsKept` and `OutputsKept`, for configurations whose inputs are the channel's own
  (`Sensible`).  All are for any number of sources and of killed processes.  The argument is one of
  ownership.  `Owners` gives each connector and each signal to channels; whatever `SetupVideo` connects
  belongs wholly to channels its source claims (`WiringOwn`), whatever it removes belongs to
  one of them at least (`Touched`), and claims are disjoint (`Apart`).  So the wiring of an open source
  survives the setup of another (`Survives`), provided that wrote back the routing it had read, which is
  what the semaphore is for (`Locked`, which gives `Serialised` as well).  That the wiring leads each signal to a frame buffer is shown per
  kind of link (`Receives`).

Five properties are proved and in no run, because another one of the same run tells more or finds the
same mistakes: `FramesInOrder` (`FifoSpec`), `GapFlagged` (`StreamSpec`), `QuitBounded`
(`QuitReturns`), `StaysOnClock` (`Locks`) and `SetupsOneAfterAnother` (`OwnInputs`).

Every invariant and every action property that a passing run checks has its theorem, `OwnInputs` and
`OutputsShown` under the condition named above, and `SignalTracked` as the weaker statement for every
queue size.  Only model-checked: every liveness property (`FramesLeave`, `UnlockUnblocks`,
`QuitReturns`, `StallReported`, `QuitKeptByLockOnly`, `Locks`, `LastFreesAll`), which are out of
the prover's reach, as are ENABLED and what recursive definitions compute.

## Not modelled

* NVMM: thin calls of a vendor library, in an optional build.
* Mode tables and caps, captions, timecode and VPID: functions of data, no state.
* Clock: no element uses it.  Device provider: lists the cards once.  Sinks: their operations
  are empty.  Properties and registration: wiring to GObject.
* Of the modelled parts: caps negotiation in `create` and the statistics of the QoS messages; in
  `TimeMapping` the property `output-stream-time`, which is off by default, reads of a half-written
  mapping, and that the frame rate is 0 before caps are set; in `Routing` the frame formats, VANC
  and reference registers, which nobody reads back, and an `InitAudio` that fails after it set the
  inputs; in the queues the inside of `GstQueueArray`.

The GStreamer base classes, GLib, the NTV2 driver and the card are external: what is used of
them is as documented.

## Plan

In the order of importance; the list is done.

1. `VideoQueue`, with `LossyFifo`: runs, then proofs, those of signals, gaps and refinement last.
2. `CaptureThread`: runs, then proofs.
3. `Allocator`, then `BufferPool` over it: runs, then proofs.
4. `AjaInput`: runs, then proofs.
5. `AudioSource`: runs, then proofs.
6. `TimeMapping`: runs, then proofs.
7. `Routing`, with frame ranges and audio systems: runs, then proofs.

What is left, in this order: a composition of `FrameStream` with both queues, for what the two
outputs have in common; the semaphore of `Routing` as it is after a killed process, with what a
user can do about it; the references to
the video source that `got_packet` takes (gstajaaudiosrc.cpp:682-702).
