------------------------------ MODULE Allocator ------------------------------
(***************************************************************************)
(* GstAjaAllocator (gstaja.cpp): blocks of one size, page-locked for DMA,  *)
(* kept on a free list when they come back.                                *)
(*                                                                         *)
(* free_list and num_allocated change under the object lock; memory is     *)
(* allocated, locked, unlocked and freed after the lock was let go, so     *)
(* these are steps of their own.  A block's sub-memories (share) hold a    *)
(* reference to the memory of the whole block, and every memory holds one  *)
(* to the allocator: that much of GstMemory is taken as its documentation  *)
(* has it.                                                                 *)
(*                                                                         *)
(* The allocator keeps a pointer to the card object, and no reference.     *)
(***************************************************************************)
EXTENDS Integers, FiniteSets

CONSTANTS
  Blocks,       \* addresses the system may hand out
  Threads,      \* threads that allocate and free
  NumPrealloc,  \* num_prealloc: 60 for video, 180 for audio
  KeepFree,     \* length of free_list from which surplus blocks are freed: 8
  MaxSubs       \* bound: sub-memories of a block at a time

ASSUME AllocatorAssumption ==
  /\ IsFiniteSet(Blocks)
  /\ IsFiniteSet(Threads)
  /\ NumPrealloc \in Nat
  /\ KeepFree \in Nat
  /\ MaxSubs \in Nat

VARIABLES
  free_list,      \* blocks on the free list; their order is left out
  num_allocated,
  allocated,      \* addresses handed out by AllocateAligned and not freed
  locked,         \* addresses locked for DMA
  used,           \* blocks with a live memory
  subs,           \* sub-memories of each block
  allocating,     \* threads past num_allocated++, before the allocation
  freeing,        \* blocks taken out of the count, not unlocked and freed yet
  state,          \* "owned", "unowned" after the pool's unref, or "finalized"
  device          \* the card object: "there", "deleted", or "called" after that

vars == <<free_list, num_allocated, allocated, locked, used, subs, allocating, freeing,
          state, device>>

\* DMABufferLock may fail, which is only logged.
LockedOr(bs) == {locked, locked \union bs}

\* gst_aja_allocator_new.
Init ==
  /\ free_list \in SUBSET Blocks
  /\ Cardinality(free_list) = NumPrealloc
  /\ num_allocated = NumPrealloc
  /\ allocated = free_list
  /\ locked \in SUBSET free_list
  /\ used = {}
  /\ subs = [b \in Blocks |-> 0]
  /\ allocating = {}
  /\ freeing = {}
  /\ state = "owned"
  /\ device = "there"

-----------------------------------------------------------------------------
\* Mutant: a block taken from the free list stays on it.
Popped_Stays(b) == free_list

Popped(b) == free_list \ {b}

\* _aja_memory_new_block finds a free block.
NewFromFreeList(b) ==
  /\ state = "owned"
  /\ b \in free_list
  /\ free_list' = Popped(b)
  /\ used' = used \union {b}
  /\ UNCHANGED <<num_allocated, allocated, locked, subs, allocating, freeing, state,
                 device>>

\* Mutant: the new block is not counted.
Count_Not == num_allocated

Count == num_allocated + 1

\* There is none: the block is counted, under the lock ...
NewCounted(t) ==
  /\ state = "owned"
  /\ t \notin allocating
  /\ free_list = {}
  /\ num_allocated' = Count
  /\ allocating' = allocating \union {t}
  /\ UNCHANGED <<free_list, allocated, locked, used, subs, freeing, state, device>>

\* ... and allocated and locked afterwards.  That the system has the memory is
\* assumed: a NULL would be taken for a block.
NewAllocated(t, b) ==
  /\ t \in allocating
  /\ b \in Blocks \ allocated
  /\ allocated' = allocated \union {b}
  /\ locked' \in LockedOr({b})
  /\ used' = used \union {b}
  /\ allocating' = allocating \ {t}
  /\ UNCHANGED <<free_list, num_allocated, subs, freeing, state, device>>

\* _aja_memory_share; also of a sub-memory, whose parent it takes.
Share(b) ==
  /\ b \in used
  /\ subs[b] < MaxSubs
  /\ subs' = [subs EXCEPT ![b] = @ + 1]
  /\ UNCHANGED <<free_list, num_allocated, allocated, locked, used, allocating, freeing,
                 state, device>>

\* gst_aja_allocator_free of a memory that has a parent.
FreeShared(b) ==
  /\ subs[b] > 0
  /\ subs' = [subs EXCEPT ![b] = @ - 1]
  /\ UNCHANGED <<free_list, num_allocated, allocated, locked, used, allocating, freeing,
                 state, device>>

\* Enough blocks are free, and more than the preallocated ones exist.
Surplus == Cardinality(free_list) >= KeepFree /\ NumPrealloc < num_allocated

\* gst_aja_allocator_free of a whole block: onto the free list ...
FreeToList(b) ==
  /\ b \in used
  /\ subs[b] = 0
  /\ ~Surplus
  /\ free_list' = free_list \union {b}
  /\ used' = used \ {b}
  /\ UNCHANGED <<num_allocated, allocated, locked, subs, allocating, freeing, state,
                 device>>

\* ... or out of the count, under the lock ...
FreeCounted(b) ==
  /\ b \in used
  /\ subs[b] = 0
  /\ Surplus
  /\ num_allocated' = num_allocated - 1
  /\ used' = used \ {b}
  /\ freeing' = freeing \union {b}
  /\ UNCHANGED <<free_list, allocated, locked, subs, allocating, state, device>>

\* Mutant: the blocks are freed without being unlocked.
Unlocked_Not(bs) == locked

Unlocked(bs) == locked \ bs

\* DMABufferUnlock of blocks, by the pointer to the card object.  After that was
\* deleted the call is undefined: it may unlock them or not.  (It may also end
\* the program.)
UnlockOn(bs) ==
  \/ device = "there" /\ locked' = Unlocked(bs) /\ UNCHANGED device
  \/ device # "there" /\ bs # {} /\ locked' \in {locked, Unlocked(bs)} /\ device' = "called"
  \/ device # "there" /\ bs = {} /\ UNCHANGED <<locked, device>>

\* ... and unlocked and freed afterwards.
Freed(b) ==
  /\ b \in freeing
  /\ UnlockOn({b})
  /\ allocated' = allocated \ {b}
  /\ freeing' = freeing \ {b}
  /\ UNCHANGED <<free_list, num_allocated, used, subs, allocating, state>>

\* The pool lets go of the allocator; it allocates no more.
Unref ==
  /\ state = "owned"
  /\ allocating = {}
  /\ state' = "unowned"
  /\ UNCHANGED <<free_list, num_allocated, allocated, locked, used, subs, allocating,
                 freeing, device>>

\* The owner of the card object deletes it.
Delete ==
  /\ device = "there"
  /\ device' = "deleted"
  /\ UNCHANGED <<free_list, num_allocated, allocated, locked, used, subs, allocating,
                 freeing, state>>

\* gst_aja_allocator_finalize, when the last memory is gone.
Finalize ==
  /\ state = "unowned"
  /\ used = {} /\ freeing = {}
  /\ UnlockOn(free_list)
  /\ allocated' = allocated \ free_list
  /\ free_list' = {}
  /\ state' = "finalized"
  /\ UNCHANGED <<num_allocated, used, subs, allocating, freeing>>

Next ==
  \/ \E b \in Blocks :
       NewFromFreeList(b) \/ Share(b) \/ FreeShared(b) \/ FreeToList(b)
         \/ FreeCounted(b) \/ Freed(b)
  \/ \E t \in Threads : NewCounted(t) \/ \E b \in Blocks : NewAllocated(t, b)
  \/ Unref
  \/ Delete
  \/ Finalize

Spec == Init /\ [][Next]_vars

-----------------------------------------------------------------------------
\* Properties.

\* Type invariant.
TypeOK ==
  /\ free_list \subseteq Blocks
  /\ num_allocated \in Nat
  /\ allocated \subseteq Blocks
  /\ locked \subseteq Blocks
  /\ used \subseteq Blocks
  /\ subs \in [Blocks -> 0..MaxSubs]
  /\ allocating \subseteq Threads
  /\ freeing \subseteq Blocks
  /\ state \in {"owned", "unowned", "finalized"}
  /\ device \in {"there", "deleted", "called"}

\* Every block the system handed out is on the free list, in use or about to be
\* freed, and only one of these; a block with sub-memories is in use; only such
\* blocks are locked, as long as the card object is not called after its deletion.
BlocksHaveOnePlace ==
  /\ allocated = free_list \union used \union freeing
  /\ free_list \intersect used = {}
  /\ free_list \intersect freeing = {}
  /\ used \intersect freeing = {}
  /\ device # "called" => locked \subseteq allocated
  /\ \A b \in Blocks : subs[b] > 0 => b \in used

\* num_allocated, which decides what is freed, counts the blocks of the free
\* list, those in use and those on their way there, although it changes before
\* and not with the allocation.
CountIsExact ==
  state # "finalized" =>
    num_allocated = Cardinality(free_list) + Cardinality(used) + Cardinality(allocating)

\* The preallocated number of blocks is never undercut: the capture thread does
\* not allocate for as long as it needs no more than that.
PreallocKept == num_allocated >= NumPrealloc

\* A burst of buffers is given back: the free list holds the preallocated
\* blocks or KeepFree, whichever is more.
FreeListBounded ==
  Cardinality(free_list) <= (IF NumPrealloc > KeepFree THEN NumPrealloc ELSE KeepFree)

\* Nothing stays allocated behind a finalized allocator, nor locked if the card
\* object was there to unlock it.
NothingLeftBehind ==
  state = "finalized" => allocated = {} /\ (device # "called" => locked = {})
=============================================================================
