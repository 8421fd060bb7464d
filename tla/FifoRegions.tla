----------------------------- MODULE FifoRegions -----------------------------
(***************************************************************************)
(* What utils::circular_memory promises to the threads that share it,      *)
(* stated without headers, counters or wrap-around: a buffer of Size bytes *)
(* out of which regions are handed to one producer and taken back from one *)
(* consumer in the order in which they were handed out.  No byte belongs   *)
(* to two live regions, and a region starts on the boundary its request    *)
(* asked for.                                                              *)
(*                                                                         *)
(* CircularMemory is shown to implement this specification.                *)
(***************************************************************************)
EXTENDS Naturals, Sequences

CONSTANTS
  Size,       \* bytes in the buffer
  Base,       \* address of the first byte of the buffer
  Requests    \* the [size, alignment] pairs that clients may ask for

VARIABLE live   \* the regions handed out and not yet taken back, oldest first

Overlap(a, b) == a.at < b.at + b.size /\ b.at < a.at + a.size

Init == live = <<>>

Allocate(r, at) ==
  /\ at + r.size <= Size
  /\ (Base + at) % r.alignment = 0
  /\ LET region == [at |-> at, size |-> r.size]
     IN  /\ \A i \in 1..Len(live) : ~Overlap(live[i], region)
         /\ live' = Append(live, region)

Release == live # <<>> /\ live' = Tail(live)

Next == Release \/ \E r \in Requests, at \in 0..Size : Allocate(r, at)

Spec == Init /\ [][Next]_live
==============================================================================
