---------------------------- MODULE CircularMemory ----------------------------
(***************************************************************************)
(* utils/circular_memory.hpp: a ring of bytes with one allocating thread   *)
(* (the producer, sole owner of tail_) and one releasing thread (the       *)
(* consumer), which share nothing but the atomic counter of free bytes.    *)
(*                                                                         *)
(* A step of the model is the code between two accesses to shared memory:  *)
(* the producer loads the counter (line 61), computes a place from that    *)
(* possibly stale value and stores the header in front of the payload      *)
(* (line 86), then subtracts from the counter and moves tail_ (87-88).     *)
(* The consumer reads the header (line 102) and adds what it found to the  *)
(* counter (line 96).                                                      *)
(*                                                                         *)
(* The class has no lock and no list of blocks: everything it knows of a   *)
(* block is the size_type stored in front of it.  It therefore relies on   *)
(* its clients releasing blocks in the order they were allocated; the      *)
(* queue that carries the pointers from one thread to the other belongs to *)
(* the client and is modelled by the order of the sequence "blocks".       *)
(***************************************************************************)
EXTENDS Integers, Sequences

CONSTANTS
  Size,       \* size_: bytes in the buffer
  H,          \* sizeof(size_type): bytes of a block's header
  Base,       \* address of begin_, for the alignment of results
  Width,      \* size_type counts modulo Width
  Requests    \* the [size, alignment] pairs that the producer may ask for

ASSUME SizeAssumption == Size \in Nat \ {0} /\ H \in Nat \ {0} /\ Base \in Nat
ASSUME RequestsAssumption ==
  Requests \subseteq [size : Nat \ {0}, alignment : Nat \ {0}]  \* line 59
(***************************************************************************)
(* Line 61 adds two size_type values of up to size_ each, and no line of   *)
(* the class rejects a buffer for which that sum is out of range: it is a  *)
(* condition on whoever instantiates the template with a narrow counter.   *)
(***************************************************************************)
ASSUME WidthAssumption == Width \in Nat /\ 2 * Size <= Width
(***************************************************************************)
(* Line 68 adds the header to a size that no line compares with anything   *)
(* before, so a request near the end of size_t would be taken for a small  *)
(* one.  It is a condition on the caller that the sum is in range.         *)
(***************************************************************************)
ASSUME HeaderAssumption == \A r \in Requests : H + r.size < Width

VARIABLES
  free,    \* free_.counter
  tail,    \* tail_
  pc,      \* the producer: "idle", or inside allocate as "loaded", "stored"
  req,     \* the request of the call in progress
  seen,    \* the value that line 61 loaded from free_.counter
  blocks,  \* the allocated blocks, oldest first, with the one being stored
  cpc,     \* the consumer: "idle", or "read" between lines 102 and 96
  taken    \* the header that the consumer has read

vars == <<free, tail, pc, req, seen, blocks, cpc, taken>>

(***************************************************************************)
(* A block: the payload at "at", of "size" bytes, and the header "used",   *)
(* the bytes that its release gives back.  "start", the value of tail_ at  *)
(* its allocation, is not stored by the code and no action reads it.       *)
(***************************************************************************)
Block == [start : 0..(Size - 1), at : 0..(Size - 1), size : 1..Size, used : 1..Size]

TypeOK ==
  /\ free \in 0..Size
  /\ tail \in 0..(Size - 1)
  /\ pc \in {"idle", "loaded", "stored"}
  /\ req \in Requests
  /\ seen \in 0..Size
  /\ blocks \in Seq(Block)
  /\ cpc \in {"idle", "read"}
  /\ taken \in 0..Size

-------------------------------------------------------------------------------
\* Where a request is placed.

\* Names with an underscore are deliberately wrong variants, of bugs that the
\* properties below must be able to see; nothing in the specification uses them.

\* The end of the first run is not subtracted from the second.
Split_SecondRunTooLong(t, f) ==
  LET end == (t + f) % Width
  IN  IF end > Size THEN <<Size - t, end - t>>
                    ELSE <<(end - t) % Width, 0>>

\* Lines 61-64: the free bytes from tail_ to the end of the buffer, and those
\* from its beginning.
Split(t, f) ==
  LET end == (t + f) % Width
  IN  IF end > Size THEN <<Size - t, end - Size>>
                    ELSE <<(end - t) % Width, 0>>

\* The offset in the buffer is aligned, not the address.
Pad_OfOffset(x, alignment) == (alignment - (x % alignment)) % alignment

\* The bytes std::align skips to reach a multiple of the alignment.
Pad(x, alignment) == (alignment - ((Base + x) % alignment)) % alignment

\* Lines 68-73: the payload's place in a run of "space" bytes at x ...
Placed(r, x) == LET p == x + H IN p + Pad(p, r.alignment)

\* A run that the header and the payload would fill exactly is refused.
Fits_OffByOne(r, x, space) ==
  /\ H + r.size < space
  /\ Placed(r, x) + r.size <= x + space

\* ... and whether the run holds the header, the padding and the payload.
Fits(r, x, space) ==
  /\ H + r.size <= space
  /\ Placed(r, x) + r.size <= x + space

FitsAtTail(r, t, f)  == Fits(r, t, Split(t, f)[1])
FitsAtBegin(r, t, f) == Fits(r, 0, Split(t, f)[2])

\* Line 83 is missing: the skipped bytes are not accounted for.
NewBlock_SkipNotPaid(r, t, f) ==
  LET x == IF FitsAtTail(r, t, f) THEN t ELSE 0
  IN  [start |-> t, at |-> Placed(r, x), size |-> r.size, used |-> r.size + (Placed(r, x) - x)]

\* Lines 76-85: a block that is put at the beginning also pays for the bytes
\* it leaves behind at the end.
NewBlock(r, t, f) ==
  IF FitsAtTail(r, t, f)
    THEN [start |-> t, at |-> Placed(r, t), size |-> r.size,
          used |-> r.size + (Placed(r, t) - t)]
    ELSE [start |-> t, at |-> Placed(r, 0), size |-> r.size,
          used |-> r.size + Split(t, f)[1] + Placed(r, 0)]

-------------------------------------------------------------------------------
\* The producer, inside allocate.

Init ==
  /\ free = Size
  /\ tail = 0
  /\ pc = "idle"
  /\ req \in Requests
  /\ seen = 0
  /\ blocks = <<>>
  /\ cpc = "idle"
  /\ taken = 0

\* Line 61.
LoadFree(r) ==
  /\ pc = "idle"
  /\ pc' = "loaded"
  /\ req' = r
  /\ seen' = free
  /\ UNCHANGED <<free, tail, blocks, cpc, taken>>

\* Lines 78-82: nullptr.  The client may call again, with any request.
Refuse ==
  /\ pc = "loaded"
  /\ ~FitsAtTail(req, tail, seen)
  /\ ~FitsAtBegin(req, tail, seen)
  /\ pc' = "idle"
  /\ UNCHANGED <<free, tail, req, seen, blocks, cpc, taken>>

\* Lines 76-86, up to the store of the header.
StoreHeader ==
  /\ pc = "loaded"
  /\ FitsAtTail(req, tail, seen) \/ FitsAtBegin(req, tail, seen)
  /\ blocks' = Append(blocks, NewBlock(req, tail, seen))
  /\ pc' = "stored"
  /\ UNCHANGED <<free, tail, req, seen, cpc, taken>>

\* The counter is stored from the earlier load instead of subtracted from.
Commit_LostRelease ==
  /\ pc = "stored"
  /\ LET used == blocks[Len(blocks)].used
     IN  /\ free' = seen - used
         /\ tail' = (tail + used) % Size
  /\ pc' = "idle"
  /\ UNCHANGED <<req, seen, blocks, cpc, taken>>

\* tail_ runs off the end of the buffer.
Commit_NoWrap ==
  /\ pc = "stored"
  /\ LET used == blocks[Len(blocks)].used
     IN  /\ free' = free - used
         /\ tail' = tail + used
  /\ pc' = "idle"
  /\ UNCHANGED <<req, seen, blocks, cpc, taken>>

\* Lines 87-90: the block is the caller's from here on.
Commit ==
  /\ pc = "stored"
  /\ LET used == blocks[Len(blocks)].used
     IN  /\ free' = free - used
         /\ tail' = (tail + used) % Size
  /\ pc' = "idle"
  /\ UNCHANGED <<req, seen, blocks, cpc, taken>>

\* The blocks that allocate has returned and release has not given back.
Returned == SubSeq(blocks, 1, IF pc = "stored" THEN Len(blocks) - 1 ELSE Len(blocks))

-------------------------------------------------------------------------------
\* The consumer, inside release.

\* Line 102: the client releases the oldest block it holds.
ReadHeader ==
  /\ cpc = "idle"
  /\ Len(Returned) > 0
  /\ cpc' = "read"
  /\ taken' = blocks[1].used
  /\ UNCHANGED <<free, tail, pc, req, seen, blocks>>

\* What the caller asked for is given back, and the padding is lost.
AddFree_PayloadOnly ==
  /\ cpc = "read"
  /\ cpc' = "idle"
  /\ free' = free + blocks[1].size
  /\ blocks' = Tail(blocks)
  /\ UNCHANGED <<tail, pc, req, seen, taken>>

\* Line 96.
AddFree ==
  /\ cpc = "read"
  /\ cpc' = "idle"
  /\ free' = free + taken
  /\ blocks' = Tail(blocks)
  /\ UNCHANGED <<tail, pc, req, seen, taken>>

-------------------------------------------------------------------------------
Producer == Refuse \/ StoreHeader \/ Commit \/ \E r \in Requests : LoadFree(r)
Consumer == ReadHeader \/ AddFree
Next == Producer \/ Consumer

Spec == Init /\ [][Next]_vars

\* The clients of both threads keep calling: a refused producer tries again,
\* and the consumer releases what it was given.
FairSpec == Spec /\ WF_vars(Producer) /\ WF_vars(Consumer)

-------------------------------------------------------------------------------
\* Properties.

Disjoint(a, b) == a.at + a.size <= b.at - H \/ b.at + b.size <= a.at - H

\* No two blocks, the one whose header is being stored included, share a byte
\* of header or payload, and none leaves the buffer: what allocate writes at
\* line 86 and what its caller writes later never touch a block that the
\* consumer has not given back, although the place was chosen from a counter
\* that was loaded earlier.
ExclusiveExtents ==
  /\ \A i \in 1..Len(blocks) : H <= blocks[i].at /\ blocks[i].at + blocks[i].size <= Size
  /\ \A i, j \in 1..Len(blocks) : i < j => Disjoint(blocks[i], blocks[j])

\* The assertion of line 65, which loads the counter a second time: whatever
\* the consumer gives back after the load of line 61, the two runs computed
\* from that load are free.
SplitWithinFree ==
  pc = "loaded" => Split(tail, seen)[1] + Split(tail, seen)[2] <= free

\* empty() (line 39) answers whether every returned block has been given back:
\* no padding, header or skipped end of the buffer is lost on the way.
EmptyIffNothingLive == free = Size <=> Returned = <<>>

\* The bytes of the ring from "start" on that a block keeps from others, its
\* padding and the end of the buffer it skipped included.
Owned(b) == {(b.start + k) % Size : k \in 0..(b.used - 1)}

\* allocate refuses a request only when it must: if it returns nullptr after
\* loading the present counter, no run of unowned bytes on either side of tail_
\* can hold the header and an aligned payload.  (A run across tail_ is out of
\* reach of the algorithm: see Servable below.)
RefusalJustified ==
  \A r \in Requests :
    pc = "idle" /\ ~FitsAtTail(r, tail, free) /\ ~FitsAtBegin(r, tail, free) =>
      LET owned == UNION {Owned(blocks[i]) : i \in 1..Len(blocks)}
      IN  \A at \in H..(Size - r.size) :
            /\ (Base + at) % r.alignment = 0
            /\ tail \notin (at - H + 1)..(at + r.size - 1)
            => ((at - H)..(at + r.size - 1)) \cap owned # {}

\* The ring hands out and takes back regions as FifoRegions does: a block that
\* allocate returns is aligned and clear of every live one, and the oldest
\* live block is the one given back.
Live == [i \in 1..Len(Returned) |-> [at |-> blocks[i].at, size |-> blocks[i].size]]
Regions == INSTANCE FifoRegions WITH live <- Live
ImplementsRegions == Regions!Spec

\* In an empty ring the longer side of tail_ has (Size + 1) \div 2 bytes or more.
\* A request is certain to be served when header, worst padding and payload fit
\* there; one byte more and an empty ring may refuse it for ever.
Servable == {r \in Requests : H + r.size + r.alignment - 1 <= (Size + 1) \div 2}

\* The producer is served again and again, whatever it asked for before and
\* wherever that left tail_, if it keeps to requests that are servable and the
\* consumer releases: the space that a wrapped block skips comes back with it,
\* and an empty ring does not shut out a small request (lines 76-88).
AlwaysServed == <>[](req \in Servable) => []<><<Commit>>_vars

-------------------------------------------------------------------------------
\* The inductive invariant behind ExclusiveExtents.

Wrap(x) == IF x >= Size THEN x - Size ELSE x

\* The first byte that is not free: where the oldest block starts.
Oldest == Wrap(tail + free)

\* The distance along the ring from byte x to where a block starts.
DistFrom(x, b) == IF b.start >= x THEN b.start - x ELSE b.start + Size - x
Dist(b) == DistFrom(Oldest, b)

\* A block lies inside its [start, start + used) of the ring, in one piece.
WellPlaced(b) ==
  \/ /\ b.start + H <= b.at
     /\ b.at + b.size = b.start + b.used
     /\ b.start + b.used <= Size
  \/ /\ H <= b.at
     /\ b.at + b.size <= b.start
     /\ b.used = (Size - b.start) + b.at + b.size

\* Blocks follow each other from Oldest to tail without a gap.
Chained ==
  /\ blocks = <<>> => free = Size
  /\ blocks # <<>> => /\ Dist(blocks[1]) = 0
                      /\ Dist(blocks[Len(blocks)])
                           + (IF pc = "stored" THEN 0 ELSE blocks[Len(blocks)].used) = Size - free
  /\ \A i \in 1..(Len(blocks) - 1) : Dist(blocks[i]) + blocks[i].used = Dist(blocks[i + 1])

Ordered ==
  \A i, j \in 1..Len(blocks) : i < j => Dist(blocks[i]) + blocks[i].used <= Dist(blocks[j])

IInv ==
  /\ TypeOK
  /\ pc = "loaded" => seen <= free
  /\ pc = "stored" => /\ blocks # <<>>
                      /\ blocks[Len(blocks)].start = tail
                      /\ blocks[Len(blocks)].used <= free
                      /\ blocks[Len(blocks)].size = req.size
                      /\ (Base + blocks[Len(blocks)].at) % req.alignment = 0
  /\ cpc = "read" => Len(Returned) > 0 /\ taken = blocks[1].used
  /\ \A i \in 1..Len(blocks) : WellPlaced(blocks[i])
  /\ Chained
  /\ Ordered
===============================================================================
