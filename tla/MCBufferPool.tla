---------------------------- MODULE MCBufferPool ----------------------------
(***************************************************************************)
(* Instances of BufferPool, and with it of Allocator, for TLC: more blocks *)
(* than are preallocated, and a free list that is kept short, so that      *)
(* blocks are allocated and freed while the pool is in use.                *)
(***************************************************************************)
EXTENDS BufferPool
=============================================================================
