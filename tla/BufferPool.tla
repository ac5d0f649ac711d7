----------------------------- MODULE BufferPool -----------------------------
(***************************************************************************)
(* GstAjaBufferPool (gstaja.cpp) over the allocator, from SetupHostBuffers *)
(* to the deletion of the card object (gstntv2.cpp): the capture thread    *)
(* acquires buffers and fills them, whoever holds one last releases it.    *)
(*                                                                         *)
(* A buffer is named by the block it was allocated with.  What the base    *)
(* class GstBufferPool does (queue, outstanding buffers, stop) is external *)
(* and taken as the subclass relies on it.  Every step is one step of the  *)
(* allocator or leaves it alone.                                           *)
(***************************************************************************)
EXTENDS Allocator

VARIABLES
  place,     \* of each buffer: "none", "pooled", "capture" or "downstream"
  small,     \* buffers whose size is less than the pool's
  sub,       \* buffers that hold a sub-memory of their block in its place
  tagged,    \* buffers with GST_BUFFER_FLAG_TAG_MEMORY
  qdata,     \* buffers with their AjaVideoBuff or AjaAudioBuff
  pool,      \* "starting", "active", "flushing" or "stopped"
  closing,   \* the owner: "open", "stopping", "finalizing" or "unreffed"
  stopped,   \* blocks of the buffers that set_active (FALSE) frees
  lent       \* something of the pool was in other hands when the owner freed it

buffers == <<place, small, sub, tagged, qdata>>
life == <<pool, closing, stopped, lent>>
poolVars == <<vars, buffers, life>>

Pooled == {b \in Blocks : place[b] = "pooled"}
Outstanding == {b \in Blocks : place[b] \in {"capture", "downstream"}}

Moved(b, to) == place' = [place EXCEPT ![b] = to]

\* Mutant: the qdata is left when the buffer goes.
Forgotten_ButQdata(bs) ==
  /\ small' = small \ bs
  /\ sub' = sub \ bs
  /\ tagged' = tagged \ bs
  /\ qdata' = qdata

\* What belongs to a buffer goes with it, its qdata by aja_video_buff_free or
\* aja_audio_buff_free.
Forgotten(bs) ==
  /\ small' = small \ bs
  /\ sub' = sub \ bs
  /\ tagged' = tagged \ bs
  /\ qdata' = qdata \ bs

\* SetupHostBuffers: a new allocator and a new pool.
PoolInit ==
  /\ Init
  /\ place = [b \in Blocks |-> "none"]
  /\ small = {} /\ sub = {} /\ tagged = {} /\ qdata = {}
  /\ pool = "starting"
  /\ closing = "open"
  /\ stopped = {}
  /\ lent = FALSE

-----------------------------------------------------------------------------
\* gst_aja_buffer_pool_alloc_buffer: the new buffer of block b gets its qdata.
AllocBuffer(b, to) ==
  /\ Moved(b, to)
  /\ qdata' = qdata \union {b}
  /\ UNCHANGED <<small, sub, tagged>>

\* set_active (TRUE) allocates the minimum of buffers, which is the number of
\* preallocated blocks.
Preallocate(b) ==
  /\ pool = "starting"
  /\ NewFromFreeList(b)
  /\ AllocBuffer(b, "pooled")
  /\ UNCHANGED life

Activate ==
  /\ pool = "starting"
  /\ Cardinality(Pooled) = NumPrealloc
  /\ pool' = "active"
  /\ UNCHANGED <<vars, buffers, closing, stopped, lent>>

\* AcquireVideoBuffer, AcquireAudioBuffer: a buffer of the queue ...
Acquire(b) ==
  /\ pool = "active"
  /\ place[b] = "pooled"
  /\ Moved(b, "capture")
  /\ UNCHANGED <<vars, small, sub, tagged, qdata, life>>

\* ... or, the queue being empty, a new one, on a free block or on one that has
\* to be allocated.
AcquireNew(b) ==
  /\ pool = "active"
  /\ Pooled = {}
  /\ NewFromFreeList(b)
  /\ AllocBuffer(b, "capture")
  /\ UNCHANGED life

AcquireCounted(t) ==
  /\ pool = "active"
  /\ Pooled = {}
  /\ NewCounted(t)
  /\ UNCHANGED <<buffers, life>>

AcquireAllocated(t, b) ==
  /\ NewAllocated(t, b)
  /\ AllocBuffer(b, "capture")
  /\ UNCHANGED life

\* ACInputWorker: the card writes into the buffer, which is cut to the data that
\* was transferred, and handed over.
Fill(b) ==
  /\ place[b] = "capture"
  /\ small' \in {small, small \union {b}}
  /\ Moved(b, "downstream")
  /\ UNCHANGED <<vars, sub, tagged, qdata, life>>

-----------------------------------------------------------------------------
\* Downstream, external: memory is shared and given back, buffers are cut.

Held(b) == place[b] = "downstream" \/ subs[b] > 0

DownstreamShares(b) ==
  /\ Held(b)
  /\ Share(b)
  /\ UNCHANGED <<buffers, life>>

DownstreamUnshares(b) ==
  /\ subs[b] > (IF b \in sub THEN 1 ELSE 0)
  /\ FreeShared(b)
  /\ UNCHANGED <<buffers, life>>

\* gst_buffer_resize, to less, of a buffer whose memory is shared: it gets a
\* sub-memory, and is tagged.  (Unshared memory is cut in place, as in Fill.)
DownstreamCutsShared(b) ==
  /\ place[b] = "downstream"
  /\ b \notin sub /\ subs[b] > 0
  /\ Share(b)
  /\ small' = small \union {b}
  /\ sub' = sub \union {b}
  /\ tagged' = tagged \union {b}
  /\ UNCHANGED <<place, qdata, life>>

\* "something removed our qdata".
QdataRemoved(b) ==
  /\ place[b] = "downstream"
  /\ qdata' = qdata \ {b}
  /\ UNCHANGED <<vars, place, small, sub, tagged, life>>

-----------------------------------------------------------------------------
\* Sizes in units of the allocator's alloc_size, which is the pool's size.
PoolSize == 1
MaxSize == 1

\* Mutant: a buffer of the maximum size is grown too.
Grown_AlsoToMaximum(b) == b \in small /\ PoolSize <= MaxSize

\* gst_aja_buffer_pool_reset_buffer: does it make the buffer larger?
Grown(b) == b \in small /\ PoolSize < MaxSize

\* It clears the tag of a buffer of full size; the base class gives an untagged
\* one its full size, so a buffer that stays small stays tagged.
TagKept(b) == b \in tagged /\ b \in small /\ ~Grown(b)

\* Mutant: either kind of qdata missing is taken for both.
QdataMissing_Either(b) == TRUE

\* gst_aja_buffer_pool_release_buffer: neither kind of qdata is there.
QdataMissing(b) == b \notin qdata

\* The base class keeps a buffer that is untagged, and whose memory nobody else
\* holds.
Reusable(b) == ~TagKept(b) /\ ~QdataMissing(b) /\ (b \in sub \/ subs[b] = 0)

\* The last buffer of a flushing pool stops it.
StopsPool(b) == pool = "flushing" /\ Outstanding = {b}

\* gst_buffer_unref of the last reference: the buffer goes back to the queue ...
Requeue(b) ==
  /\ place[b] = "downstream"
  /\ ~StopsPool(b) /\ Reusable(b)
  /\ Moved(b, "pooled")
  /\ small' = small \ {b}
  /\ tagged' = tagged \ {b}
  /\ UNCHANGED <<vars, sub, qdata, life>>

\* ... or is freed, with its sub-memory; its block follows when nobody shares it.
Discard(b) ==
  /\ place[b] = "downstream"
  /\ StopsPool(b) \/ ~Reusable(b)
  /\ LET gone == IF StopsPool(b) THEN Pooled \union {b} ELSE {b}
     IN  /\ place' = [c \in Blocks |-> IF c \in gone THEN "none" ELSE place[c]]
         /\ Forgotten(gone)
  /\ pool' = IF StopsPool(b) THEN "stopped" ELSE pool
  /\ IF b \in sub THEN FreeShared(b) ELSE UNCHANGED vars
  /\ UNCHANGED <<closing, stopped, lent>>

FreeBlock(b) ==
  /\ place[b] = "none"
  /\ FreeToList(b) \/ FreeCounted(b)
  /\ UNCHANGED <<buffers, life>>

FreedBlock(b) ==
  /\ Freed(b)
  /\ UNCHANGED <<buffers, life>>

-----------------------------------------------------------------------------
\* Mutant: the pool is only unreffed, its buffers are not freed.
Deactivated_Not == {}

\* set_active (FALSE): the buffers of the queue are freed if none is outstanding.
Deactivated == IF Outstanding = {} THEN Pooled ELSE {}

\* FreeHostBuffers, after the capture thread has ended.
FreeHostBuffers ==
  /\ pool = "active"
  /\ allocating = {}
  /\ \A b \in Blocks : place[b] # "capture"
  /\ pool' = IF Outstanding = {} THEN "stopped" ELSE "flushing"
  /\ place' = [b \in Blocks |-> IF b \in Deactivated THEN "none" ELSE place[b]]
  /\ Forgotten(Deactivated)
  /\ stopped' = Deactivated
  /\ closing' = "stopping"
  /\ lent' = (used \union freeing # Pooled)
  /\ UNCHANGED vars

\* The owner's reference goes; with the last one the pool lets go of the
\* allocator, and with no block in use that is finalized by the same thread.
OwnerUnref ==
  /\ closing = "stopping"
  /\ stopped \intersect (used \union freeing) = {}
  /\ IF Outstanding = {}
     THEN Unref /\ closing' = IF used \union freeing = {} THEN "finalizing" ELSE "unreffed"
     ELSE UNCHANGED vars /\ closing' = "unreffed"
  /\ UNCHANGED <<buffers, pool, stopped, lent>>

\* The last reference was that of a released buffer.
LastBufferUnref ==
  /\ closing = "unreffed"
  /\ Outstanding = {}
  /\ Unref
  /\ UNCHANGED <<buffers, life>>

FinalizeAllocator ==
  /\ Finalize
  /\ closing' = IF closing = "finalizing" THEN "unreffed" ELSE closing
  /\ UNCHANGED <<buffers, pool, stopped, lent>>

\* ~NTV2GstAV ends: mDevice is destroyed.
DeleteDevice ==
  /\ closing = "unreffed"
  /\ Delete
  /\ UNCHANGED <<buffers, life>>

\* The end of the calls of one thread or another that are under way.
Ends ==
  \/ OwnerUnref \/ LastBufferUnref \/ FinalizeAllocator \/ DeleteDevice
  \/ \E b \in Blocks : FreeBlock(b) \/ FreedBlock(b)

PoolNext ==
  \/ \E b \in Blocks :
       \/ Preallocate(b) \/ Acquire(b) \/ AcquireNew(b) \/ Fill(b)
       \/ DownstreamShares(b) \/ DownstreamUnshares(b)
       \/ DownstreamCutsShared(b) \/ QdataRemoved(b)
       \/ Requeue(b) \/ Discard(b)
  \/ \E t \in Threads : AcquireCounted(t) \/ \E b \in Blocks : AcquireAllocated(t, b)
  \/ Activate
  \/ FreeHostBuffers
  \/ Ends

PoolSpec == PoolInit /\ [][PoolNext]_poolVars

\* A thread in the middle of a free or of the owner's close goes on.
FairPoolSpec == PoolSpec /\ WF_poolVars(Ends)

-----------------------------------------------------------------------------
\* Properties.

\* Type invariant, that of the allocator included; a buffer has its block in use,
\* and sizes, tags and qdata belong to buffers that exist.
PoolTypeOK ==
  /\ TypeOK
  /\ place \in [Blocks -> {"none", "pooled", "capture", "downstream"}]
  /\ \A b \in Blocks : place[b] # "none" => b \in used
  /\ small \union sub \union tagged \union qdata \subseteq
       {b \in Blocks : place[b] # "none"}
  /\ pool \in {"starting", "active", "flushing", "stopped"}
  /\ closing \in {"open", "stopping", "finalizing", "unreffed"}
  /\ stopped \subseteq Blocks
  /\ lent \in BOOLEAN

\* The card never writes into memory that somebody downstream still reads, nor
\* into a buffer that was cut or lost its qdata, which AcquireVideoBuffer returns
\* and the capture thread uses untested: whatever was done to a buffer before it
\* was released, in the queue and with the capture thread it is whole again.
CaptureWritesAlone ==
  \A b \in Blocks :
    place[b] \in {"pooled", "capture"} =>
      /\ subs[b] = 0
      /\ b \notin small \union sub \union tagged
      /\ b \in qdata

\* A buffer that comes back unshared and with its qdata is used again, although
\* the capture thread cuts every buffer to its data: a running capture does not
\* allocate memory and lock it to the card frame by frame.
CleanReturns ==
  [][\A b \in Blocks :
       pool = "active" /\ place[b] = "downstream" /\ place'[b] = "none" =>
         b \in sub \/ subs[b] > 0 \/ b \notin qdata]_poolVars

\* If nothing was lent when the owner freed the pool, nothing is left allocated
\* or locked once the card object is gone, and nobody calls it any more: only for
\* what was lent is DMABufferUnlock called through the pointer to a deleted object.
CloseFreesAll ==
  device # "there" /\ ~lent => allocated = {} /\ locked = {} /\ device # "called"

\* What was lent, in buffers or in parts of them, is freed with the rest when the
\* last of it is given back, whoever does it: every block is freed and the allocator
\* finalized, and nothing stays locked to the card, unless a block was unlocked
\* through the card object after its deletion, which nobody can answer for.
LastFreesAll ==
  <>[](closing # "open" /\ Outstanding = {} /\ \A b \in Blocks : subs[b] = 0) =>
    <>(state = "finalized" /\ allocated = {} /\ (locked = {} \/ device = "called"))
=============================================================================
