-------------------------- MODULE BufferPoolProofs --------------------------
(***************************************************************************)
(* Theorems about the allocator and about the buffer pool over it, for any *)
(* number of blocks and threads and any limits.                            *)
(*                                                                         *)
(* Of the allocator, Inv is inductive: the exact count (CountIsExact)      *)
(* needs the disjointness of BlocksHaveOnePlace, the bound of the free     *)
(* list needs the exact count, and what is left after Finalize needs       *)
(* Ending.  Every step of the pool is a step of the allocator or none      *)
(* (UsesAllocator), so all this holds under the pool.                      *)
(*                                                                         *)
(* Of the pool, CaptureWritesAlone is inductive with SubsTagged (a buffer  *)
(* whose memory was replaced is tagged, small and not writable) and        *)
(* CloseFreesAll with CloseClean, which follows the owner's thread through *)
(* its close, and DeletedLast: only for what was lent is the card object   *)
(* called after its deletion.                                              *)
(***************************************************************************)
EXTENDS BufferPool, FiniteSetTheorems, TLAPS

----------------------------------------------------------------------------
(* The allocator.                                                          *)

\* An allocator without an owner allocates no more, and a finalized one has no
\* blocks.
Ending ==
  /\ state # "owned" => allocating = {}
  /\ state = "finalized" => free_list = {} /\ used = {} /\ freeing = {}

Inv ==
  /\ TypeOK
  /\ BlocksHaveOnePlace
  /\ Ending
  /\ CountIsExact
  /\ PreallocKept
  /\ FreeListBounded

\* The sets that are counted are finite.
LEMMA FiniteParts ==
  ASSUME TypeOK
  PROVE  /\ IsFiniteSet(free_list) /\ Cardinality(free_list) \in Nat
         /\ IsFiniteSet(used) /\ Cardinality(used) \in Nat
         /\ IsFiniteSet(allocating) /\ Cardinality(allocating) \in Nat
  BY FS_Subset, FS_CardinalityType, AllocatorAssumption DEF TypeOK

\* A new allocator satisfies the invariant.
LEMMA InitInv == Init => Inv
<1> SUFFICES ASSUME Init PROVE Inv
  OBVIOUS
<1>1. TypeOK /\ BlocksHaveOnePlace /\ Ending
  BY AllocatorAssumption DEF Init, TypeOK, BlocksHaveOnePlace, Ending
<1>2. CountIsExact /\ PreallocKept /\ FreeListBounded
  BY FS_EmptySet, AllocatorAssumption
  DEF Init, CountIsExact, PreallocKept, FreeListBounded
<1> QED
  BY <1>1, <1>2 DEF Inv

\* Every step preserves the types, the places of the blocks and Ending.
LEMMA PlacesStep ==
  ASSUME TypeOK, BlocksHaveOnePlace, Ending, PreallocKept, Next
  PROVE  TypeOK' /\ BlocksHaveOnePlace' /\ Ending'
<1> USE AllocatorAssumption
<1> USE DEF TypeOK, BlocksHaveOnePlace, Ending, PreallocKept
<1>1. ASSUME NEW b \in Blocks, NewFromFreeList(b)
      PROVE  TypeOK' /\ BlocksHaveOnePlace' /\ Ending'
  BY <1>1 DEF NewFromFreeList, Popped
<1>2. ASSUME NEW b \in Blocks, Share(b)
      PROVE  TypeOK' /\ BlocksHaveOnePlace' /\ Ending'
  BY <1>2 DEF Share
<1>3. ASSUME NEW b \in Blocks, FreeShared(b)
      PROVE  TypeOK' /\ BlocksHaveOnePlace' /\ Ending'
  BY <1>3 DEF FreeShared
<1>4. ASSUME NEW b \in Blocks, FreeToList(b)
      PROVE  TypeOK' /\ BlocksHaveOnePlace' /\ Ending'
  BY <1>4 DEF FreeToList
<1>5. ASSUME NEW b \in Blocks, FreeCounted(b)
      PROVE  TypeOK' /\ BlocksHaveOnePlace' /\ Ending'
  BY <1>5 DEF FreeCounted, Surplus
<1>6. ASSUME NEW b \in Blocks, Freed(b)
      PROVE  TypeOK' /\ BlocksHaveOnePlace' /\ Ending'
  BY <1>6 DEF Freed, UnlockOn, Unlocked
<1>7. ASSUME NEW t \in Threads, NewCounted(t)
      PROVE  TypeOK' /\ BlocksHaveOnePlace' /\ Ending'
  BY <1>7 DEF NewCounted, Count
<1>8. ASSUME NEW t \in Threads, NEW b \in Blocks, NewAllocated(t, b)
      PROVE  TypeOK' /\ BlocksHaveOnePlace' /\ Ending'
  BY <1>8 DEF NewAllocated, LockedOr
<1>9. CASE Unref
  BY <1>9 DEF Unref
<1>10. CASE Finalize
  BY <1>10 DEF Finalize, UnlockOn, Unlocked
<1>11. CASE Delete
  BY <1>11 DEF Delete
<1> QED
  BY <1>1, <1>2, <1>3, <1>4, <1>5, <1>6, <1>7, <1>8, <1>9, <1>10, <1>11 DEF Next

\* Every step preserves the count and what follows from it.
LEMMA CountStep ==
  ASSUME Inv, Next
  PROVE  CountIsExact' /\ PreallocKept' /\ FreeListBounded'
<1> USE AllocatorAssumption
<1>a. TypeOK /\ BlocksHaveOnePlace /\ Ending /\ CountIsExact /\ PreallocKept
        /\ FreeListBounded
  BY DEF Inv
<1>f. /\ IsFiniteSet(free_list) /\ Cardinality(free_list) \in Nat
      /\ IsFiniteSet(used) /\ Cardinality(used) \in Nat
      /\ IsFiniteSet(allocating) /\ Cardinality(allocating) \in Nat
  BY <1>a, FiniteParts
<1>n. num_allocated \in Nat
  BY <1>a DEF TypeOK
<1> USE DEF CountIsExact, PreallocKept, FreeListBounded
<1>1. ASSUME NEW b \in Blocks, NewFromFreeList(b)
      PROVE  CountIsExact' /\ PreallocKept' /\ FreeListBounded'
  <2>1. b \notin used
    BY <1>1, <1>a DEF NewFromFreeList, BlocksHaveOnePlace
  <2>2. /\ Cardinality(free_list') = Cardinality(free_list) - 1
        /\ Cardinality(used') = Cardinality(used) + 1
    BY <1>1, <1>f, <2>1, FS_AddElement, FS_RemoveElement DEF NewFromFreeList, Popped
  <2> QED
    BY <1>1, <1>a, <1>f, <1>n, <2>2 DEF NewFromFreeList
<1>2. ASSUME NEW b \in Blocks, Share(b) \/ FreeShared(b) \/ Freed(b)
      PROVE  CountIsExact' /\ PreallocKept' /\ FreeListBounded'
  BY <1>2, <1>a DEF Share, FreeShared, Freed
<1>3. ASSUME NEW b \in Blocks, FreeToList(b)
      PROVE  CountIsExact' /\ PreallocKept' /\ FreeListBounded'
  <2>1. b \notin free_list /\ b \in used /\ state # "finalized"
    BY <1>3, <1>a DEF FreeToList, BlocksHaveOnePlace, Ending
  <2>2. /\ Cardinality(free_list') = Cardinality(free_list) + 1
        /\ Cardinality(used') = Cardinality(used) - 1
    BY <1>3, <1>f, <2>1, FS_AddElement, FS_RemoveElement DEF FreeToList
  <2>5. Cardinality(used) > 0
    BY <1>f, <2>1, FS_EmptySet
  <2>3. CountIsExact' /\ PreallocKept'
    BY <1>3, <1>a, <1>f, <1>n, <2>1, <2>2 DEF FreeToList
  <2>4. FreeListBounded'
    BY <1>3, <1>a, <1>f, <1>n, <2>1, <2>2, <2>5 DEF FreeToList, Surplus
  <2> QED
    BY <2>3, <2>4
<1>4. ASSUME NEW b \in Blocks, FreeCounted(b)
      PROVE  CountIsExact' /\ PreallocKept' /\ FreeListBounded'
  <2>1. Cardinality(used') = Cardinality(used) - 1
    BY <1>4, <1>f, FS_RemoveElement DEF FreeCounted
  <2>2. /\ NumPrealloc < num_allocated /\ num_allocated' = num_allocated - 1
        /\ UNCHANGED <<free_list, allocating, state>>
    BY <1>4 DEF FreeCounted, Surplus
  <2>3. CountIsExact'
    BY <1>a, <1>f, <1>n, <2>1, <2>2
  <2>4. PreallocKept'
    BY <1>n, <2>2
  <2>5. FreeListBounded'
    BY <1>a, <2>2
  <2> QED
    BY <2>3, <2>4, <2>5
<1>5. ASSUME NEW t \in Threads, NewCounted(t)
      PROVE  CountIsExact' /\ PreallocKept' /\ FreeListBounded'
  <2>1. Cardinality(allocating') = Cardinality(allocating) + 1
    BY <1>5, <1>f, FS_AddElement DEF NewCounted
  <2> QED
    BY <1>5, <1>a, <1>f, <1>n, <2>1 DEF NewCounted, Count
<1>6. ASSUME NEW t \in Threads, NEW b \in Blocks, NewAllocated(t, b)
      PROVE  CountIsExact' /\ PreallocKept' /\ FreeListBounded'
  <2>1. b \notin used
    BY <1>6, <1>a DEF NewAllocated, BlocksHaveOnePlace
  <2>2. /\ Cardinality(allocating') = Cardinality(allocating) - 1
        /\ Cardinality(used') = Cardinality(used) + 1
    BY <1>6, <1>f, <2>1, FS_AddElement, FS_RemoveElement DEF NewAllocated
  <2> QED
    BY <1>6, <1>a, <1>f, <1>n, <2>2 DEF NewAllocated
<1>7. CASE Unref \/ Delete
  BY <1>7, <1>a DEF Unref, Delete
<1>8. CASE Finalize
  BY <1>8, <1>a, <1>f, FS_EmptySet DEF Finalize
<1> QED
  BY <1>1, <1>2, <1>3, <1>4, <1>5, <1>6, <1>7, <1>8 DEF Next

\* Inv is an invariant of the allocator.
THEOREM Invariance == Spec => []Inv
<1>1. Inv /\ [Next]_vars => Inv'
  <2> SUFFICES ASSUME Inv, [Next]_vars PROVE Inv'
    OBVIOUS
  <2>1. CASE Next
    BY <2>1, PlacesStep, CountStep DEF Inv
  <2>2. CASE UNCHANGED vars
    BY <2>2 DEF Inv, TypeOK, BlocksHaveOnePlace, Ending, CountIsExact, PreallocKept,
                FreeListBounded, vars
  <2> QED
    BY <2>1, <2>2
<1> QED
  BY InitInv, <1>1, PTL DEF Spec

\* Each block the system handed out has one place, and num_allocated, changed
\* under a lock that the allocation itself is not under, counts them exactly.
THEOREM CountExact == Spec => [](TypeOK /\ BlocksHaveOnePlace /\ CountIsExact)
<1>1. Inv => TypeOK /\ BlocksHaveOnePlace /\ CountIsExact
  BY DEF Inv
<1> QED
  BY Invariance, <1>1, PTL

\* The allocator never falls below its preallocation, and never keeps more free
\* blocks than the larger of its two limits.
THEOREM Limits == Spec => [](PreallocKept /\ FreeListBounded)
<1>1. Inv => PreallocKept /\ FreeListBounded
  BY DEF Inv
<1> QED
  BY Invariance, <1>1, PTL

\* A finalized allocator has freed every block, and unlocked it if the card object
\* was there.
THEOREM NothingLeft == Spec => []NothingLeftBehind
<1>1. Inv => NothingLeftBehind
  BY DEF Inv, BlocksHaveOnePlace, Ending, NothingLeftBehind
<1> QED
  BY Invariance, <1>1, PTL

----------------------------------------------------------------------------
(* The buffer pool.                                                        *)

\* The tagged buffers are those that hold a sub-memory; they are downstream, and
\* their sub-memory is one of the block's.
SubsTagged ==
  /\ tagged = sub
  /\ sub \subseteq small
  /\ \A b \in sub : place[b] = "downstream" /\ subs[b] > 0

\* With nothing lent, only the owner's thread is left after FreeHostBuffers, and
\* it frees what it took from the queue, then the pool, then the allocator.
CloseClean ==
  closing # "open" /\ ~lent =>
    /\ pool = "stopped"
    /\ allocating = {}
    /\ \A b \in Blocks : place[b] = "none" /\ subs[b] = 0
    /\ used \union freeing \subseteq stopped
    /\ closing = "finalizing" => used \union freeing = {}
    /\ closing = "unreffed" => state = "finalized"

\* The card object is deleted after the pool was freed, and then called only for
\* what was lent.
DeletedLast ==
  /\ closing # "open" => pool \in {"flushing", "stopped"}
  /\ device # "there" => closing = "unreffed"
  /\ device = "called" => lent

PoolInv ==
  PoolTypeOK /\ CaptureWritesAlone /\ SubsTagged /\ CloseClean /\ DeletedLast

\* A step of the pool is one of the allocator, or leaves it alone.
LEMMA StepIsAllocators ==
  ASSUME [PoolNext]_poolVars
  PROVE  [Next]_vars
<1>1. CASE UNCHANGED poolVars
  BY <1>1 DEF poolVars
<1>2. ASSUME NEW b \in Blocks,
             Preallocate(b) \/ AcquireNew(b) \/ DownstreamShares(b)
               \/ DownstreamUnshares(b) \/ DownstreamCutsShared(b) \/ FreeBlock(b)
               \/ FreedBlock(b)
      PROVE  Next
  BY <1>2 DEF Preallocate, AcquireNew, DownstreamShares, DownstreamUnshares,
              DownstreamCutsShared, FreeBlock, FreedBlock, Next
<1>3. ASSUME NEW b \in Blocks, Acquire(b) \/ Fill(b) \/ QdataRemoved(b) \/ Requeue(b)
      PROVE  UNCHANGED vars
  BY <1>3 DEF Acquire, Fill, QdataRemoved, Requeue
<1>4. ASSUME NEW b \in Blocks, Discard(b)
      PROVE  [Next]_vars
  BY <1>4 DEF Discard, Next
<1>5. ASSUME NEW t \in Threads, AcquireCounted(t)
      PROVE  Next
  BY <1>5 DEF AcquireCounted, Next
<1>6. ASSUME NEW t \in Threads, NEW b \in Blocks, AcquireAllocated(t, b)
      PROVE  Next
  BY <1>6 DEF AcquireAllocated, Next
<1>7. CASE Activate \/ FreeHostBuffers
  BY <1>7 DEF Activate, FreeHostBuffers
<1>8. CASE OwnerUnref \/ LastBufferUnref \/ FinalizeAllocator \/ DeleteDevice
  BY <1>8 DEF OwnerUnref, LastBufferUnref, FinalizeAllocator, DeleteDevice, Next
<1> QED
  BY <1>1, <1>2, <1>3, <1>4, <1>5, <1>6, <1>7, <1>8 DEF PoolNext, Ends

\* The pool uses the allocator as that is specified.
THEOREM UsesAllocator == PoolSpec => Spec
<1>1. PoolInit => Init
  BY DEF PoolInit
<1> QED
  BY <1>1, StepIsAllocators, PTL DEF PoolSpec, Spec

\* A pool that was just set up satisfies the invariant.
LEMMA PoolInitInv == PoolInit /\ Inv => PoolInv
  BY DEF PoolInit, PoolInv, Inv, PoolTypeOK, CaptureWritesAlone, SubsTagged, CloseClean,
         DeletedLast, Init

\* Every step preserves the types and what is known of the tagged buffers.
LEMMA PoolTypesStep ==
  ASSUME Inv, Inv', PoolInv, PoolNext
  PROVE  PoolTypeOK' /\ SubsTagged'
<1> DEFINE Goal == PoolTypeOK' /\ SubsTagged'
<1>a. TypeOK' /\ TypeOK /\ BlocksHaveOnePlace /\ PoolTypeOK /\ SubsTagged
  BY DEF Inv, PoolInv
<1>b. /\ subs \in [Blocks -> Int]
      /\ \A b \in Blocks : subs[b] > 0 => b \in used
      /\ \A b \in free_list \union (Blocks \ allocated) : b \notin used
  BY <1>a DEF TypeOK, BlocksHaveOnePlace
<1> USE DEF PoolTypeOK, SubsTagged
<1>1. ASSUME NEW b \in Blocks, Preallocate(b)
      PROVE  Goal
  BY <1>1, <1>a, <1>b DEF Preallocate, NewFromFreeList, AllocBuffer, Moved, life
<1>2. ASSUME NEW b \in Blocks, Acquire(b)
      PROVE  Goal
  BY <1>2, <1>a, <1>b DEF Acquire, Moved, life, vars
<1>3. ASSUME NEW b \in Blocks, AcquireNew(b)
      PROVE  Goal
  BY <1>3, <1>a, <1>b DEF AcquireNew, NewFromFreeList, AllocBuffer, Moved, life
<1>4. ASSUME NEW b \in Blocks, Fill(b)
      PROVE  Goal
  BY <1>4, <1>a, <1>b DEF Fill, Moved, life, vars
<1>5. ASSUME NEW b \in Blocks, DownstreamShares(b)
      PROVE  Goal
  BY <1>5, <1>a, <1>b DEF DownstreamShares, Share, buffers, life
<1>6. ASSUME NEW b \in Blocks, DownstreamUnshares(b)
      PROVE  Goal
  BY <1>6, <1>a, <1>b DEF DownstreamUnshares, FreeShared, buffers, life
<1>7. ASSUME NEW b \in Blocks, DownstreamCutsShared(b)
      PROVE  Goal
  BY <1>7, <1>a, <1>b DEF DownstreamCutsShared, Share, life
<1>8. ASSUME NEW b \in Blocks, QdataRemoved(b)
      PROVE  Goal
  BY <1>8, <1>a, <1>b DEF QdataRemoved, life, vars
<1>9. ASSUME NEW b \in Blocks, Requeue(b)
      PROVE  Goal
  <2>1. b \notin sub
    BY <1>9, <1>a DEF Requeue, Reusable, TagKept, Grown, PoolSize, MaxSize
  <2> QED
    BY <1>9, <1>a, <1>b, <2>1 DEF Requeue, Moved, life, vars
<1>10. ASSUME NEW b \in Blocks, Discard(b)
       PROVE  Goal
  <2> DEFINE gone == IF StopsPool(b) THEN Pooled \union {b} ELSE {b}
  <2>1. /\ place' = [c \in Blocks |-> IF c \in gone THEN "none" ELSE place[c]]
        /\ b \in gone
        /\ small' = small \ gone /\ sub' = sub \ gone /\ tagged' = tagged \ gone
        /\ qdata' = qdata \ gone
        /\ pool' \in {"stopped", pool}
        /\ UNCHANGED <<closing, stopped, lent, used>>
        /\ \A c \in Blocks \ {b} : subs'[c] = subs[c]
    BY <1>10, <1>b DEF Discard, Forgotten, FreeShared, vars
  <2> HIDE DEF gone
  <2> QED
    BY <1>a, <1>b, <2>1
<1>11. ASSUME NEW b \in Blocks, FreeBlock(b) \/ FreedBlock(b)
       PROVE  Goal
  BY <1>11, <1>a, <1>b DEF FreeBlock, FreedBlock, FreeToList, FreeCounted, Freed, buffers,
                          life
<1>12. ASSUME NEW t \in Threads, AcquireCounted(t)
       PROVE  Goal
  BY <1>12, <1>a, <1>b DEF AcquireCounted, NewCounted, buffers, life
<1>13. ASSUME NEW t \in Threads, NEW b \in Blocks, AcquireAllocated(t, b)
       PROVE  Goal
  BY <1>13, <1>a, <1>b DEF AcquireAllocated, NewAllocated, AllocBuffer, Moved, life
<1>14. CASE Activate
  BY <1>14, <1>a DEF Activate, buffers, vars
<1>15. CASE FreeHostBuffers
  <2>1. Deactivated \subseteq Pooled
    BY DEF Deactivated
  <2>2. /\ place' = [c \in Blocks |-> IF c \in Deactivated THEN "none" ELSE place[c]]
        /\ small' = small \ Deactivated /\ sub' = sub \ Deactivated
        /\ tagged' = tagged \ Deactivated /\ qdata' = qdata \ Deactivated
        /\ pool' \in {"stopped", "flushing"} /\ closing' = "stopping"
        /\ stopped' = Deactivated /\ lent' \in BOOLEAN
        /\ UNCHANGED <<used, subs>>
    BY <1>15 DEF FreeHostBuffers, Forgotten, vars
  <2> QED
    BY <1>a, <1>b, <2>1, <2>2 DEF Pooled
<1>16. CASE OwnerUnref \/ LastBufferUnref \/ FinalizeAllocator \/ DeleteDevice
  BY <1>16, <1>a, <1>b
  DEF OwnerUnref, LastBufferUnref, FinalizeAllocator, DeleteDevice, Unref, Finalize,
      Delete, buffers, life, vars
<1> QED
  BY <1>1, <1>2, <1>3, <1>4, <1>5, <1>6, <1>7, <1>8, <1>9, <1>10, <1>11, <1>12, <1>13,
     <1>14, <1>15, <1>16 DEF PoolNext, Ends

\* Every step preserves that pooled buffers and those with the capture thread are
\* whole and unshared.
LEMMA AloneStep ==
  ASSUME Inv, PoolInv, PoolNext
  PROVE  CaptureWritesAlone'
<1>a. TypeOK /\ BlocksHaveOnePlace /\ PoolTypeOK /\ SubsTagged /\ CaptureWritesAlone
  BY DEF Inv, PoolInv
<1>b. /\ subs \in [Blocks -> Int]
      /\ \A b \in Blocks : subs[b] >= 0
      /\ \A b \in Blocks : subs[b] > 0 => b \in used
      /\ \A b \in free_list \union (Blocks \ allocated) : b \notin used
  BY <1>a, AllocatorAssumption DEF TypeOK, BlocksHaveOnePlace
<1>c. /\ place \in [Blocks -> {"none", "pooled", "capture", "downstream"}]
      /\ \A b \in Blocks : place[b] # "none" => b \in used
      /\ \A b \in small \union sub \union tagged \union qdata : place[b] # "none"
  BY <1>a DEF PoolTypeOK
<1> USE DEF CaptureWritesAlone
<1>1. ASSUME NEW b \in Blocks, Preallocate(b) \/ AcquireNew(b)
      PROVE  CaptureWritesAlone'
  <2>1. /\ b \notin used /\ subs[b] = 0
        /\ b \notin small \union sub \union tagged
    BY <1>1, <1>b, <1>c DEF Preallocate, AcquireNew, NewFromFreeList
  <2>2. /\ \E to \in {"pooled", "capture"} : place' = [place EXCEPT ![b] = to]
        /\ qdata' = qdata \union {b}
        /\ UNCHANGED <<small, sub, tagged, subs>>
    BY <1>1 DEF Preallocate, AcquireNew, AllocBuffer, Moved, NewFromFreeList
  <2> QED
    BY <1>a, <1>c, <2>1, <2>2
<1>2. ASSUME NEW b \in Blocks, Acquire(b) \/ Fill(b) \/ QdataRemoved(b)
      PROVE  CaptureWritesAlone'
  BY <1>2, <1>a, <1>c DEF Acquire, Fill, QdataRemoved, Moved, vars
<1>3. ASSUME NEW b \in Blocks,
             DownstreamShares(b) \/ DownstreamUnshares(b) \/ DownstreamCutsShared(b)
      PROVE  CaptureWritesAlone'
  <2>1. place[b] = "downstream" \/ subs[b] > 0
    BY <1>3, <1>b DEF DownstreamShares, DownstreamUnshares, DownstreamCutsShared, Held,
                      FreeShared
  <2>2. place[b] \notin {"pooled", "capture"}
    BY <1>a, <2>1
  <2>3. /\ UNCHANGED <<place, qdata>>
        /\ \A c \in Blocks \ {b} : subs'[c] = subs[c]
        /\ small' \subseteq small \union {b} /\ sub' \subseteq sub \union {b}
        /\ tagged' \subseteq tagged \union {b}
    BY <1>3, <1>b DEF DownstreamShares, DownstreamUnshares, DownstreamCutsShared, Share,
                      FreeShared, buffers
  <2> QED
    BY <1>a, <2>2, <2>3
<1>4. ASSUME NEW b \in Blocks, Requeue(b)
      PROVE  CaptureWritesAlone'
  <2>1. b \notin sub /\ b \notin tagged /\ subs[b] = 0 /\ b \in qdata
    BY <1>4, <1>a DEF Requeue, Reusable, TagKept, Grown, PoolSize, MaxSize, SubsTagged,
                      QdataMissing
  <2> QED
    BY <1>4, <1>a, <1>c, <2>1 DEF Requeue, Moved, vars
<1>5. ASSUME NEW b \in Blocks, Discard(b)
      PROVE  CaptureWritesAlone'
  <2> DEFINE gone == IF StopsPool(b) THEN Pooled \union {b} ELSE {b}
  <2>1. /\ place' = [c \in Blocks |-> IF c \in gone THEN "none" ELSE place[c]]
        /\ b \in gone
        /\ small' = small \ gone /\ sub' = sub \ gone /\ tagged' = tagged \ gone
        /\ qdata' = qdata \ gone
        /\ \A c \in Blocks \ {b} : subs'[c] = subs[c]
    BY <1>5, <1>b DEF Discard, Forgotten, FreeShared, vars
  <2> HIDE DEF gone
  <2> QED
    BY <1>a, <2>1
<1>6. ASSUME NEW b \in Blocks, FreeBlock(b) \/ FreedBlock(b)
      PROVE  CaptureWritesAlone'
  BY <1>6, <1>a DEF FreeBlock, FreedBlock, FreeToList, FreeCounted, Freed, buffers
<1>7. ASSUME NEW t \in Threads, AcquireCounted(t)
      PROVE  CaptureWritesAlone'
  BY <1>7, <1>a DEF AcquireCounted, NewCounted, buffers
<1>8. ASSUME NEW t \in Threads, NEW b \in Blocks, AcquireAllocated(t, b)
      PROVE  CaptureWritesAlone'
  <2>1. /\ b \notin used /\ subs[b] = 0
        /\ b \notin small \union sub \union tagged
    BY <1>8, <1>b, <1>c DEF AcquireAllocated, NewAllocated
  <2>2. /\ place' = [place EXCEPT ![b] = "capture"]
        /\ qdata' = qdata \union {b}
        /\ UNCHANGED <<small, sub, tagged, subs>>
    BY <1>8 DEF AcquireAllocated, AllocBuffer, Moved, NewAllocated
  <2> QED
    BY <1>a, <1>c, <2>1, <2>2
<1>9. CASE FreeHostBuffers
  <2>1. /\ place' = [c \in Blocks |-> IF c \in Deactivated THEN "none" ELSE place[c]]
        /\ small' = small \ Deactivated /\ sub' = sub \ Deactivated
        /\ tagged' = tagged \ Deactivated /\ qdata' = qdata \ Deactivated
        /\ UNCHANGED subs
    BY <1>9 DEF FreeHostBuffers, Forgotten, vars
  <2> QED
    BY <1>a, <2>1
<1>10. CASE Activate \/ OwnerUnref \/ LastBufferUnref \/ FinalizeAllocator \/ DeleteDevice
  BY <1>10, <1>a
  DEF Activate, OwnerUnref, LastBufferUnref, FinalizeAllocator, DeleteDevice, Unref,
      Finalize, Delete, buffers, life, vars
<1> QED
  BY <1>1, <1>2, <1>3, <1>4, <1>5, <1>6, <1>7, <1>8, <1>9, <1>10 DEF PoolNext, Ends

\* Every step preserves what is known of a close with nothing lent.
LEMMA CloseStep ==
  ASSUME Inv, PoolInv, PoolNext
  PROVE  CloseClean'
<1>a. /\ TypeOK /\ BlocksHaveOnePlace /\ Ending
      /\ PoolTypeOK /\ SubsTagged /\ CaptureWritesAlone /\ CloseClean
  BY DEF Inv, PoolInv
<1>b. subs \in [Blocks -> Int] /\ \A b \in Blocks : subs[b] >= 0
  BY <1>a, AllocatorAssumption DEF TypeOK
<1>c. /\ place \in [Blocks -> {"none", "pooled", "capture", "downstream"}]
      /\ \A b \in Blocks : place[b] # "none" => b \in used
      /\ used \subseteq Blocks /\ freeing \subseteq Blocks
      /\ \A b \in Blocks : subs[b] > 0 => b \in used
      /\ closing \in {"open", "stopping", "finalizing", "unreffed"}
  BY <1>a DEF PoolTypeOK, TypeOK, BlocksHaveOnePlace
<1> USE DEF CloseClean
<1>1. ASSUME NEW b \in Blocks,
             \/ Preallocate(b) \/ Acquire(b) \/ AcquireNew(b) \/ Fill(b)
             \/ DownstreamShares(b) \/ DownstreamUnshares(b)
             \/ DownstreamCutsShared(b) \/ QdataRemoved(b) \/ Requeue(b) \/ Discard(b)
      PROVE  CloseClean'
  <2>1. closing' = closing /\ lent' = lent
    BY <1>1 DEF Preallocate, Acquire, AcquireNew, Fill, DownstreamShares,
                DownstreamUnshares, DownstreamCutsShared, QdataRemoved, Requeue, Discard,
                life
  <2>2. closing = "open" \/ lent
    BY <1>1, <1>a, <1>b DEF Preallocate, Acquire, AcquireNew, Fill, DownstreamShares,
                DownstreamUnshares, DownstreamCutsShared, QdataRemoved, Requeue, Discard,
                Held, FreeShared
  <2> QED
    BY <2>1, <2>2
<1>2. ASSUME NEW t \in Threads, AcquireCounted(t) \/ \E b \in Blocks : AcquireAllocated(t, b)
      PROVE  CloseClean'
  <2>1. closing' = closing /\ lent' = lent
    BY <1>2 DEF AcquireCounted, AcquireAllocated, life
  <2>2. closing = "open" \/ lent
    BY <1>2, <1>a DEF AcquireCounted, AcquireAllocated, NewAllocated
  <2> QED
    BY <2>1, <2>2
<1>3. ASSUME NEW b \in Blocks, FreeBlock(b) \/ FreedBlock(b)
      PROVE  CloseClean'
  BY <1>3, <1>a, <1>c
  DEF FreeBlock, FreedBlock, FreeToList, FreeCounted, Freed, buffers, life
<1>4. CASE Activate
  BY <1>4, <1>a DEF Activate, buffers, vars
<1>5. CASE FreeHostBuffers
  <2> SUFFICES ASSUME ~lent' PROVE CloseClean'
    OBVIOUS
  <2>1. used \union freeing = Pooled
    BY <1>5 DEF FreeHostBuffers
  <2>2. Outstanding = {}
    BY <1>c, <2>1 DEF Outstanding, Pooled
  <2>3. Deactivated = Pooled
    BY <2>2 DEF Deactivated
  <2>4. \A b \in Blocks : place'[b] = "none"
    BY <1>5, <1>c, <2>2, <2>3 DEF FreeHostBuffers, Pooled, Outstanding
  <2>5. \A b \in Blocks : subs[b] = 0
    BY <1>a, <1>b, <1>c, <2>1 DEF CaptureWritesAlone, Pooled
  <2> QED
    BY <1>5, <2>1, <2>2, <2>3, <2>4, <2>5 DEF FreeHostBuffers, vars
<1>6. CASE OwnerUnref
  <2> SUFFICES ASSUME ~lent' PROVE CloseClean'
    OBVIOUS
  <2>1. closing = "stopping" /\ ~lent
    BY <1>6 DEF OwnerUnref
  <2>2. Outstanding = {} /\ used \union freeing = {}
    BY <1>6, <1>a, <2>1 DEF OwnerUnref, Outstanding
  <2> QED
    BY <1>6, <1>a, <2>1, <2>2 DEF OwnerUnref, Unref, buffers
<1>7. CASE LastBufferUnref
  BY <1>7, <1>a DEF LastBufferUnref, Unref, buffers, life
<1>8. CASE FinalizeAllocator
  BY <1>8, <1>a DEF FinalizeAllocator, Finalize, buffers
<1>9. CASE DeleteDevice
  BY <1>9, <1>a DEF DeleteDevice, Delete, buffers, life
<1> QED
  BY <1>1, <1>2, <1>3, <1>4, <1>5, <1>6, <1>7, <1>8, <1>9 DEF PoolNext, Ends

\* Every step preserves that the card object goes last.
LEMMA DeletedStep ==
  ASSUME Inv, PoolInv, PoolNext
  PROVE  DeletedLast'
<1>a. /\ BlocksHaveOnePlace /\ Ending /\ CloseClean /\ DeletedLast
  BY DEF Inv, PoolInv
<1> USE DEF DeletedLast
<1>1. ASSUME NEW b \in Blocks,
             \/ Preallocate(b) \/ Acquire(b) \/ AcquireNew(b) \/ Fill(b)
             \/ DownstreamShares(b) \/ DownstreamUnshares(b)
             \/ DownstreamCutsShared(b) \/ QdataRemoved(b) \/ Requeue(b)
      PROVE  DeletedLast'
  BY <1>1, <1>a
  DEF Preallocate, Acquire, AcquireNew, Fill, DownstreamShares, DownstreamUnshares,
      DownstreamCutsShared, QdataRemoved, Requeue, NewFromFreeList, Share, FreeShared,
      life, vars
<1>2. ASSUME NEW b \in Blocks, Discard(b)
      PROVE  DeletedLast'
  BY <1>2, <1>a DEF Discard, FreeShared, vars
<1>3. ASSUME NEW t \in Threads, AcquireCounted(t) \/ \E b \in Blocks : AcquireAllocated(t, b)
      PROVE  DeletedLast'
  BY <1>3, <1>a DEF AcquireCounted, AcquireAllocated, NewCounted, NewAllocated, life
<1>4. ASSUME NEW b \in Blocks, FreeBlock(b)
      PROVE  DeletedLast'
  BY <1>4, <1>a DEF FreeBlock, FreeToList, FreeCounted, life
<1>5. ASSUME NEW b \in Blocks, FreedBlock(b)
      PROVE  DeletedLast'
  <2>1. device # "there" => lent
    BY <1>5, <1>a DEF FreedBlock, Freed, CloseClean, Ending
  <2> QED
    BY <1>5, <1>a, <2>1 DEF FreedBlock, Freed, UnlockOn, life
<1>6. CASE FinalizeAllocator
  <2>1. device # "there" => lent
    BY <1>6, <1>a DEF FinalizeAllocator, Finalize, CloseClean
  <2> QED
    BY <1>6, <1>a, <2>1 DEF FinalizeAllocator, Finalize, UnlockOn
<1>7. CASE Activate \/ FreeHostBuffers
  BY <1>7, <1>a DEF Activate, FreeHostBuffers, vars
<1>8. CASE OwnerUnref \/ LastBufferUnref \/ DeleteDevice
  BY <1>8, <1>a DEF OwnerUnref, LastBufferUnref, DeleteDevice, Unref, Delete, life, vars
<1> QED
  BY <1>1, <1>2, <1>3, <1>4, <1>5, <1>6, <1>7, <1>8 DEF PoolNext, Ends

\* PoolInv is an invariant of the pool.
THEOREM PoolInvariance == PoolSpec => [](Inv /\ PoolInv)
<1>1. Inv /\ Inv' /\ PoolInv /\ [PoolNext]_poolVars => PoolInv'
  <2> SUFFICES ASSUME Inv, Inv', PoolInv, [PoolNext]_poolVars PROVE PoolInv'
    OBVIOUS
  <2>1. CASE PoolNext
    BY <2>1, PoolTypesStep, AloneStep, CloseStep, DeletedStep DEF PoolInv
  <2>2. CASE UNCHANGED poolVars
    BY <2>2 DEF PoolInv, PoolTypeOK, TypeOK, CaptureWritesAlone, SubsTagged, CloseClean,
                DeletedLast, Outstanding, poolVars, buffers, life, vars
  <2> QED
    BY <2>1, <2>2
<1> QED
  BY UsesAllocator, Invariance, PoolInitInv, <1>1, PTL DEF PoolSpec

\* A buffer's place, tags and sub-memories keep to their types, and the pool to the
\* phases of its owner, whatever downstream did to the buffer.
THEOREM PoolTypes == PoolSpec => []PoolTypeOK
<1>1. Inv /\ PoolInv => PoolTypeOK
  BY DEF PoolInv
<1> QED
  BY PoolInvariance, <1>1, PTL

\* Types, and blocks in one place and counted exactly, with a pool that drives the
\* allocator.
THEOREM PoolCountExact == PoolSpec => [](PoolTypeOK /\ BlocksHaveOnePlace /\ CountIsExact)
<1>1. Inv /\ PoolInv => PoolTypeOK /\ BlocksHaveOnePlace /\ CountIsExact
  BY DEF Inv, PoolInv
<1> QED
  BY PoolInvariance, <1>1, PTL

\* No buffer is captured into while anybody else can see its memory, and none that
\* is cut or lacks the qdata the capture thread uses.
THEOREM WritesAlone == PoolSpec => []CaptureWritesAlone
<1>1. PoolInv => CaptureWritesAlone
  BY DEF PoolInv
<1> QED
  BY PoolInvariance, <1>1, PTL

\* A close with nothing lent leaves nothing allocated or locked, and the card object
\* it deletes is not called afterwards.
THEOREM CloseFrees == PoolSpec => []CloseFreesAll
<1>1. Inv /\ PoolInv => CloseFreesAll
  <2> SUFFICES ASSUME Inv, PoolInv, device # "there", ~lent
               PROVE  allocated = {} /\ locked = {} /\ device # "called"
    BY DEF CloseFreesAll
  <2>1. state = "finalized" /\ device # "called"
    BY DEF PoolInv, CloseClean, DeletedLast
  <2> QED
    BY <2>1 DEF Inv, BlocksHaveOnePlace, Ending
<1> QED
  BY PoolInvariance, <1>1, PTL

\* Whatever is captured into a buffer, one that comes back unshared and with its
\* qdata is used again.
THEOREM Reused == PoolSpec => CleanReturns
<1>1. Inv /\ PoolInv /\ [PoolNext]_poolVars =>
        [\A b \in Blocks :
           pool = "active" /\ place[b] = "downstream" /\ place'[b] = "none" =>
             b \in sub \/ subs[b] > 0 \/ b \notin qdata]_poolVars
  <2> SUFFICES ASSUME Inv, PoolInv, PoolNext, NEW b \in Blocks, pool = "active",
                      place[b] = "downstream", place'[b] = "none"
               PROVE  b \in sub \/ subs[b] > 0 \/ b \notin qdata
    OBVIOUS
  <2>a. /\ place \in [Blocks -> {"none", "pooled", "capture", "downstream"}]
        /\ subs[b] \in Int /\ subs[b] >= 0 /\ tagged = sub
    BY AllocatorAssumption DEF Inv, TypeOK, PoolInv, PoolTypeOK, SubsTagged
  <2>1. PICK c \in Blocks : Discard(c)
    <3>1. ASSUME NEW c \in Blocks,
                 \/ Preallocate(c) \/ AcquireNew(c) \/ Acquire(c) \/ Fill(c) \/ Requeue(c)
                 \/ \E t \in Threads : AcquireAllocated(t, c)
          PROVE  FALSE
      BY <3>1, <2>a DEF Preallocate, AcquireNew, Acquire, Fill, Requeue, AcquireAllocated,
                        AllocBuffer, Moved
    <3>2. ASSUME NEW c \in Blocks,
                 \/ DownstreamShares(c) \/ DownstreamUnshares(c) \/ DownstreamCutsShared(c)
                 \/ QdataRemoved(c) \/ FreeBlock(c) \/ FreedBlock(c)
          PROVE  FALSE
      BY <3>2 DEF DownstreamShares, DownstreamUnshares, DownstreamCutsShared,
                  QdataRemoved, FreeBlock, FreedBlock, buffers
    <3>3. ASSUME NEW t \in Threads, AcquireCounted(t)
          PROVE  FALSE
      BY <3>3 DEF AcquireCounted, buffers
    <3>4. CASE Activate \/ OwnerUnref \/ LastBufferUnref \/ FinalizeAllocator \/ DeleteDevice
      BY <3>4 DEF Activate, OwnerUnref, LastBufferUnref, FinalizeAllocator, DeleteDevice,
                  buffers
    <3>5. CASE FreeHostBuffers
      BY <3>5, <2>a DEF FreeHostBuffers, Deactivated, Pooled
    <3> QED
      BY <3>1, <3>2, <3>3, <3>4, <3>5 DEF PoolNext, Ends
  <2>2. ~StopsPool(c)
    BY DEF StopsPool
  <2>3. c = b /\ ~Reusable(b)
    BY <2>1, <2>2, <2>a DEF Discard
  <2> QED
    BY <2>3, <2>a DEF Reusable, TagKept, QdataMissing
<1> QED
  BY PoolInvariance, <1>1, PTL DEF PoolSpec, CleanReturns
=============================================================================
