------------------------------ MODULE LossyFifo ------------------------------
(***************************************************************************)
(* What the video source's queue promises its consumer.  Items are         *)
(* numbered in the order they are captured.  The queue holds at most       *)
(* Capacity of them; to make room it gives up the oldest ones, and only    *)
(* those; the consumer gets the oldest one left; a flush discards them     *)
(* all.  The order of the queue is the order of the numbers, so its        *)
(* contents are a set.                                                     *)
(***************************************************************************)
EXTENDS Integers, FiniteSets

CONSTANTS Capacity, MaxItem

VARIABLES
  items,  \* the numbers of the queued items
  taken   \* the number of the last item handed out since the last flush, or 0

vars == <<items, taken>>

Oldest(S) == CHOOSE x \in S : \A y \in S : x <= y

Init == items = {} /\ taken = 0

\* A newer item than all others arrives; the ones kept are the newest ones.
Put(n) ==
  /\ \A x \in items \union {taken} : x < n
  /\ \E kept \in SUBSET items :
       /\ \A x \in items \ kept, y \in kept : x < y
       /\ Cardinality(kept) < Capacity
       /\ items' = kept \union {n}
  /\ UNCHANGED taken

Take ==
  /\ items # {}
  /\ taken' = Oldest(items)
  /\ items' = items \ {Oldest(items)}

Flush == items' = {} /\ taken' = 0

Next == (\E n \in 1..MaxItem : Put(n)) \/ Take \/ Flush

Spec == Init /\ [][Next]_vars
=============================================================================
