------------------------- MODULE CircularMemoryProofs -------------------------
(***************************************************************************)
(* Proofs about CircularMemory, for a buffer of any size, any header, any  *)
(* base address and any set of requests.                                   *)
(***************************************************************************)
EXTENDS CircularMemory, TLAPS

\* The % of lines 88: a position less than two turns from the beginning.
LEMMA ModIsWrap ==
  ASSUME NEW x \in 0..(2 * Size - 1)
  PROVE  x % Size = Wrap(x)
<1> USE SizeAssumption
<1>1. CASE x < Size
  BY <1>1 DEF Wrap
<1>2. CASE x >= Size
  BY <1>2 DEF Wrap
<1> QED
  BY <1>1, <1>2

\* What lines 87-90 take off the counter they add to the position of tail_: the
\* oldest byte stays where it is.
LEMMA WrapShift ==
  ASSUME NEW t \in 0..(Size - 1), NEW f \in 0..Size, NEW u \in 0..Size, u <= f
  PROVE  Wrap(Wrap(t + u) + (f - u)) = Wrap(t + f)
<1> USE SizeAssumption
<1>1. CASE t + u >= Size
  <2>1. Wrap(t + u) + (f - u) = t + f - Size
    BY <1>1 DEF Wrap
  <2>2. t + f >= Size /\ ~(t + f - Size >= Size)
    BY <1>1
  <2> QED
    BY <2>1, <2>2 DEF Wrap
<1>2. CASE ~(t + u >= Size)
  <2>1. Wrap(t + u) + (f - u) = t + f
    BY <1>2 DEF Wrap
  <2> QED
    BY <2>1
<1> QED
  BY <1>1, <1>2

\* Size_type arithmetic does not overflow on a buffer that satisfies
\* WidthAssumption.
LEMMA ModWidth ==
  ASSUME NEW x \in 0..(2 * Size - 1)
  PROVE  x % Width = x
BY SizeAssumption, WidthAssumption

\* Lines 61-64 divide the free bytes into two runs, the second of which is
\* empty unless the first reaches the end of the buffer.
LEMMA SplitRuns ==
  ASSUME NEW t \in 0..(Size - 1), NEW f \in 0..Size
  PROVE  Split(t, f) = IF t + f > Size THEN <<Size - t, t + f - Size>> ELSE <<f, 0>>
<1>1. (t + f) % Width = t + f
  BY ModWidth, SizeAssumption
<1>2. f % Width = f
  BY ModWidth, SizeAssumption
<1>3. t + f - t = f
  OBVIOUS
<1> QED
  BY <1>1, <1>2, <1>3, SizeAssumption DEF Split

\* std::align skips less than the alignment.
LEMMA PadRange ==
  ASSUME NEW x \in Nat, NEW a \in Nat \ {0}
  PROVE  Pad(x, a) \in 0..(a - 1)
<1>1. (Base + x) % a \in 0..(a - 1)
  BY SizeAssumption
<1>2. a - ((Base + x) % a) \in 1..a
  BY <1>1
<1>3. \A y \in 1..a : y % a \in 0..(a - 1)
  OBVIOUS
<1> QED
  BY <1>2, <1>3 DEF Pad

\* Arithmetic of % for a divisor that is not a literal.
LEMMA ModOfMultiple ==
  ASSUME NEW a \in Nat \ {0}, NEW x \in Int, NEW m, m = x % a
  PROVE  m \in 0..(a - 1) /\ (x + (a - m)) % a = 0
<1> DEFINE q == x \div a
<1>1. q \in Int /\ q + 1 \in Int /\ m \in 0..(a - 1)
  OBVIOUS
<1>2. x = a * q + m
  OBVIOUS
<1>3. (a * (q + 1)) % a = 0
  BY <1>1
<1> HIDE DEF q
<1>4. a * q \in Int /\ a * q + a = a * (q + 1)
  BY <1>1
<1>5. x + (a - m) = a * (q + 1)
  BY <1>1, <1>2, <1>4
<1> QED
  BY <1>1, <1>3, <1>5

\* What std::align returns is aligned.
LEMMA PadAligns ==
  ASSUME NEW x \in Nat, NEW a \in Nat \ {0}
  PROVE  (Base + (x + Pad(x, a))) % a = 0
<1> DEFINE m == (Base + x) % a
<1>1. Pad(x, a) = (a - m) % a
  BY DEF Pad
<1>2. Base + x \in Int
  BY SizeAssumption
<1>3. m \in 0..(a - 1) /\ ((Base + x) + (a - m)) % a = 0
  BY <1>2, ModOfMultiple
<1>4. m = 0 => (Base + x) % a = 0
  OBVIOUS
<1> HIDE DEF m
<1>5. CASE m = 0
  <2>1. Pad(x, a) = 0
    BY <1>1, <1>5
  <2>2. Base + (x + 0) = Base + x
    BY SizeAssumption
  <2> QED
    BY <1>4, <1>5, <2>1, <2>2
<1>6. CASE m # 0
  <2>1. Pad(x, a) = a - m
    BY <1>1, <1>3, <1>6
  <2>2. Base + (x + (a - m)) = (Base + x) + (a - m)
    BY <1>3, SizeAssumption
  <2> QED
    BY <1>3, <2>1, <2>2
<1> QED
  BY <1>5, <1>6

\* What allocate stores in the header (lines 76-86).
LEMMA NewBlockPlace ==
  ASSUME NEW t \in 0..(Size - 1), NEW f \in 0..Size, NEW r \in Requests,
         FitsAtTail(r, t, f) \/ FitsAtBegin(r, t, f)
  PROVE  /\ NewBlock(r, t, f) \in Block
         /\ NewBlock(r, t, f).start = t
         /\ NewBlock(r, t, f).used <= f
         /\ WellPlaced(NewBlock(r, t, f))
         /\ NewBlock(r, t, f).size = r.size
         /\ (Base + NewBlock(r, t, f).at) % r.alignment = 0
<1> USE SizeAssumption
<1>0. r.size \in Nat \ {0} /\ r.alignment \in Nat \ {0}
  BY RequestsAssumption
<1>1. ASSUME NEW x \in 0..(Size - 1)
      PROVE  /\ Placed(r, x) \in Nat /\ Placed(r, x) >= x + H
             /\ (Base + Placed(r, x)) % r.alignment = 0
  <2>1. x + H \in Nat
    OBVIOUS
  <2>2. Pad(x + H, r.alignment) \in 0..(r.alignment - 1)
    BY <1>0, <2>1, PadRange
  <2>3. (Base + Placed(r, x)) % r.alignment = 0
    BY <1>0, <2>1, PadAligns DEF Placed
  <2> QED
    BY <1>0, <2>2, <2>3 DEF Placed
<1>2. CASE FitsAtTail(r, t, f)
  <2>1. /\ Placed(r, t) \in Nat /\ Placed(r, t) >= t + H
        /\ (Base + Placed(r, t)) % r.alignment = 0
    BY <1>1
  <2>2. /\ Split(t, f)[1] \in Nat
        /\ Split(t, f)[1] <= f
        /\ t + Split(t, f)[1] <= Size
    BY SplitRuns
  <2>3. Placed(r, t) + r.size <= t + Split(t, f)[1]
    BY <1>2 DEF FitsAtTail, Fits
  <2>4. NewBlock(r, t, f) = [start |-> t, at |-> Placed(r, t), size |-> r.size,
                             used |-> r.size + (Placed(r, t) - t)]
    BY <1>2 DEF NewBlock
  <2> QED
    BY <1>0, <2>1, <2>2, <2>3, <2>4 DEF Block, WellPlaced
<1>3. CASE ~FitsAtTail(r, t, f)
  <2>1. /\ Placed(r, 0) \in Nat /\ Placed(r, 0) >= H
        /\ (Base + Placed(r, 0)) % r.alignment = 0
    BY <1>1
  <2>2. FitsAtBegin(r, t, f)
    BY <1>3
  <2>3. Placed(r, 0) + r.size <= Split(t, f)[2]
    BY <2>1, <2>2, <1>0, SplitRuns DEF FitsAtBegin, Fits
  <2>4. /\ t + f > Size
        /\ Split(t, f)[1] = Size - t
        /\ Split(t, f)[2] = t + f - Size
    BY <2>1, <2>3, <1>0, SplitRuns
  <2>5. NewBlock(r, t, f) = [start |-> t, at |-> Placed(r, 0), size |-> r.size,
                             used |-> r.size + (Size - t) + Placed(r, 0)]
    BY <1>3, <2>4 DEF NewBlock
  <2> QED
    BY <1>0, <2>1, <2>3, <2>4, <2>5 DEF Block, WellPlaced
<1> QED
  BY <1>2, <1>3

-------------------------------------------------------------------------------
(***************************************************************************)
(* The invariant IInv says that the blocks lie one after the other, oldest *)
(* first, from Oldest to tail_, and that the counter is what they leave.   *)
(* ExclusiveExtents alone is not inductive: it does not say that the bytes *)
(* from tail_ on, as many as the counter, belong to no block.              *)
(***************************************************************************)

\* Distances along the ring from the oldest block are less than one turn.
LEMMA DistRange ==
  ASSUME TypeOK, NEW b \in Block
  PROVE  Oldest \in 0..(Size - 1) /\ Dist(b) \in 0..(Size - 1)
BY SizeAssumption DEF TypeOK, Block, Oldest, Wrap, Dist, DistFrom

\* A block that starts at tail_ is as far from the oldest as bytes are in use.
LEMMA DistOfTail ==
  ASSUME TypeOK, NEW b \in Block, b.start = tail, free > 0
  PROVE  Dist(b) = Size - free
BY SizeAssumption DEF TypeOK, Block, Oldest, Wrap, Dist, DistFrom

LEMMA ReturnedLen ==
  ASSUME TypeOK
  PROVE  Len(Returned) = Len(blocks) - (IF pc = "stored" /\ blocks # <<>> THEN 1 ELSE 0)
<1>1. Len(blocks) \in Nat /\ (blocks # <<>> <=> Len(blocks) >= 1)
  BY DEF TypeOK
<1>2. \A n \in 0..Len(blocks) : Len(SubSeq(blocks, 1, n)) = n
  BY <1>1 DEF TypeOK
<1>3. CASE pc = "stored" /\ blocks # <<>>
  BY <1>1, <1>2, <1>3 DEF Returned
<1>4. CASE pc = "stored" /\ blocks = <<>>
  BY <1>4 DEF Returned
<1>5. CASE pc # "stored"
  BY <1>1, <1>2, <1>5 DEF Returned
<1> QED
  BY <1>3, <1>4, <1>5

\* Steps that leave the counter, tail_ and the blocks alone.
LEMMA FrameStep ==
  ASSUME IInv, UNCHANGED <<free, tail, blocks>>, (pc = "stored") = (pc' = "stored")
  PROVE  /\ \A i \in 1..Len(blocks') : WellPlaced(blocks'[i])
         /\ Chained'
         /\ Ordered'
         /\ (Len(Returned) > 0) = (Len(Returned') > 0)
<1>1. Oldest' = Oldest
  BY DEF Oldest
<1> QED
  BY <1>1 DEF Dist, IInv, Chained, Ordered, Returned

LEMMA LoadFreeStep ==
  ASSUME IInv, NEW r \in Requests, LoadFree(r)
  PROVE  IInv'
<1>1. TypeOK'
  BY DEF IInv, TypeOK, LoadFree
<1>2. /\ \A i \in 1..Len(blocks') : WellPlaced(blocks'[i])
      /\ Chained'
      /\ Ordered'
      /\ (Len(Returned) > 0) = (Len(Returned') > 0)
  BY FrameStep DEF LoadFree
<1>3. pc' = "loaded" /\ seen' <= free'
  BY DEF IInv, TypeOK, LoadFree
<1>4. cpc' = "read" => Len(Returned') > 0 /\ taken' = blocks'[1].used
  BY <1>2 DEF IInv, LoadFree
<1> QED
  BY <1>1, <1>2, <1>3, <1>4 DEF IInv

LEMMA RefuseStep ==
  ASSUME IInv, Refuse
  PROVE  IInv'
<1>1. TypeOK'
  BY DEF IInv, TypeOK, Refuse
<1>2. /\ \A i \in 1..Len(blocks') : WellPlaced(blocks'[i])
      /\ Chained'
      /\ Ordered'
      /\ (Len(Returned) > 0) = (Len(Returned') > 0)
  BY FrameStep DEF Refuse
<1>3. cpc' = "read" => Len(Returned') > 0 /\ taken' = blocks'[1].used
  BY <1>2 DEF IInv, Refuse
<1> QED
  BY <1>1, <1>2, <1>3 DEF IInv, Refuse

LEMMA ReadHeaderStep ==
  ASSUME IInv, ReadHeader
  PROVE  IInv'
<1>1. Len(blocks) \in Nat /\ Len(blocks) > 0
  BY ReturnedLen DEF IInv, TypeOK, ReadHeader
<1>2. blocks[1] \in Block
  BY <1>1 DEF IInv, TypeOK
<1>3. TypeOK'
  BY <1>2 DEF IInv, TypeOK, ReadHeader, Block
<1>4. /\ \A i \in 1..Len(blocks') : WellPlaced(blocks'[i])
      /\ Chained'
      /\ Ordered'
      /\ (Len(Returned) > 0) = (Len(Returned') > 0)
  BY FrameStep DEF ReadHeader
<1>5. Len(Returned') > 0 /\ taken' = blocks'[1].used
  BY <1>4 DEF ReadHeader
<1> QED
  BY <1>3, <1>4, <1>5 DEF IInv, ReadHeader

LEMMA StoreHeaderStep ==
  ASSUME IInv, StoreHeader
  PROVE  IInv'
<1> USE SizeAssumption
<1> DEFINE b == NewBlock(req, tail, seen)
           n == Len(blocks)
<1>1. /\ b \in Block
      /\ b.start = tail
      /\ b.used <= seen
      /\ WellPlaced(b)
      /\ b.size = req.size /\ (Base + b.at) % req.alignment = 0
  BY NewBlockPlace DEF IInv, TypeOK, StoreHeader
<1>2. /\ n \in Nat
      /\ blocks' = Append(blocks, b)
      /\ Len(blocks') = n + 1
      /\ \A i \in 1..n : blocks'[i] = blocks[i] /\ blocks[i] \in Block
      /\ blocks'[n + 1] = b
  BY <1>1 DEF IInv, TypeOK, StoreHeader
<1>3. /\ free \in 0..Size
      /\ free' = free /\ tail' = tail
      /\ pc = "loaded" /\ pc' = "stored"
      /\ b.used \in 1..Size
      /\ b.used <= free
      /\ free > 0
  BY <1>1 DEF IInv, TypeOK, StoreHeader, Block
<1>4. TypeOK'
  BY <1>1, <1>2 DEF IInv, TypeOK, StoreHeader
<1>5. Oldest' = Oldest
  BY <1>3 DEF Oldest
<1>6. Dist(b) = Size - free
  BY <1>1, <1>3, DistOfTail DEF IInv
<1>7. cpc' = "read" => Len(Returned') > 0 /\ taken' = blocks'[1].used
  <2> SUFFICES ASSUME cpc' = "read"
               PROVE  Len(Returned') > 0 /\ taken' = blocks'[1].used
    OBVIOUS
  <2>1. cpc = "read" /\ taken' = taken
    BY DEF StoreHeader
  <2>2. n > 0 /\ taken = blocks[1].used
    BY <2>1, <1>2, <1>3, ReturnedLen DEF IInv
  <2>3. Len(Returned') = n
    BY <1>2, <1>3, <1>4 DEF Returned
  <2> QED
    BY <2>1, <2>2, <2>3, <1>2
<1>8. \A i \in 1..Len(blocks') : WellPlaced(blocks'[i])
  BY <1>1, <1>2 DEF IInv
<1>9. n > 0 => /\ Dist(blocks[1]) = 0
               /\ Dist(blocks[n]) + blocks[n].used = Size - free
  BY <1>2, <1>3 DEF IInv, Chained
<1>10. n = 0 => free = Size
  BY <1>2 DEF IInv, Chained, TypeOK
<1>11. Chained'
  <2>1. blocks' # <<>>
    BY <1>2
  <2>2. DistFrom(Oldest', blocks'[1]) = 0
    BY <1>2, <1>5, <1>6, <1>9, <1>10 DEF Dist
  <2>3. DistFrom(Oldest', blocks'[Len(blocks')]) + 0 = Size - free'
    BY <1>2, <1>3, <1>5, <1>6 DEF Dist
  <2>4. \A i \in 1..(Len(blocks') - 1) : DistFrom(Oldest', blocks'[i]) + blocks'[i].used = DistFrom(Oldest', blocks'[i + 1])
    <3> SUFFICES ASSUME NEW i \in 1..n
                 PROVE  DistFrom(Oldest', blocks'[i]) + blocks'[i].used = DistFrom(Oldest', blocks'[i + 1])
      BY <1>2
    <3>1. CASE i = n
      BY <3>1, <1>2, <1>5, <1>6, <1>9 DEF Dist
    <3>2. CASE i < n
      <4>1. i \in 1..(n - 1) /\ i + 1 \in 1..n
        BY <3>2, <1>2
      <4>2. Dist(blocks[i]) + blocks[i].used = Dist(blocks[i + 1])
        BY <4>1 DEF IInv, Chained
      <4> QED
        BY <4>1, <4>2, <1>2, <1>5 DEF Dist
    <3> QED
      BY <3>1, <3>2, <1>2
  <2> QED
    BY <1>3, <2>1, <2>2, <2>3, <2>4 DEF Chained, Dist
<1>12. Ordered'
  <2> SUFFICES ASSUME NEW i \in 1..(n + 1), NEW j \in 1..(n + 1), i < j
               PROVE  DistFrom(Oldest', blocks'[i]) + blocks'[i].used <= DistFrom(Oldest', blocks'[j])
    BY <1>2 DEF Ordered, Dist
  <2>1. i \in 1..n
    BY <1>2
  <2>2. CASE j = n + 1
    <3>1. Dist(blocks[i]) + blocks[i].used <= Dist(blocks[n]) + blocks[n].used
      <4>1. CASE i = n
        BY <4>1, <1>2, DistRange DEF IInv, Block
      <4>2. CASE i < n
        <5>1. Dist(blocks[i]) + blocks[i].used <= Dist(blocks[n])
          BY <4>2, <1>2, <2>1 DEF IInv, Ordered
        <5>2. blocks[i].used \in Nat /\ blocks[n].used \in Nat
          BY <1>2, <2>1 DEF Block
        <5>3. Dist(blocks[i]) \in Nat /\ Dist(blocks[n]) \in Nat
          BY <1>2, <2>1, DistRange DEF IInv
        <5> QED
          BY <5>1, <5>2, <5>3
      <4> QED
        BY <4>1, <4>2, <2>1, <1>2
    <3> QED
      BY <3>1, <2>1, <2>2, <1>2, <1>5, <1>6, <1>9 DEF Dist
  <2>3. CASE j \in 1..n
    BY <2>1, <2>3, <1>2, <1>5 DEF IInv, Ordered, Dist
  <2> QED
    BY <2>2, <2>3, <1>2
<1>13. pc' = "stored" /\ req' = req
  BY DEF StoreHeader
<1> QED
  BY <1>1, <1>2, <1>3, <1>4, <1>7, <1>8, <1>11, <1>12, <1>13 DEF IInv

\* Steps that keep Oldest where it is keep all distances.
LEMMA CommitStep ==
  ASSUME IInv, Commit
  PROVE  IInv'
<1> USE SizeAssumption
<1> DEFINE n == Len(blocks)
           b == blocks[n]
<1>0. /\ free \in 0..Size /\ tail \in 0..(Size - 1)
      /\ pc = "stored" /\ pc' = "idle"
      /\ blocks' = blocks /\ blocks \in Seq(Block) /\ blocks # <<>>
      /\ b.start = tail /\ b.used <= free
      /\ cpc' = cpc /\ taken' = taken
  BY DEF IInv, TypeOK, Commit
<1>1. /\ n \in Nat /\ n >= 1 /\ b \in Block
      /\ b.used \in 1..Size
      /\ b.used <= free
      /\ free \in 0..Size /\ tail \in 0..(Size - 1)
      /\ pc = "stored" /\ pc' = "idle"
      /\ blocks' = blocks
      /\ cpc' = cpc /\ taken' = taken
  <2>1. n \in Nat /\ n >= 1 /\ b \in Block
    BY <1>0
  <2> QED
    BY <1>0, <2>1 DEF Block
<1>2. free' = free - b.used /\ tail' = Wrap(tail + b.used)
  <2>1. tail + b.used \in 0..(2 * Size - 1)
    BY <1>1
  <2>2. (tail + b.used) % Size = Wrap(tail + b.used)
    BY <2>1, ModIsWrap
  <2> QED
    BY <2>2 DEF Commit
<1>3. Oldest' = Oldest
  <2>1. Oldest' = Wrap(tail' + free')
    BY DEF Oldest, Wrap
  <2>2. b.used \in 0..Size
    BY <1>1
  <2>3. Wrap(Wrap(tail + b.used) + (free - b.used)) = Wrap(tail + free)
    BY <1>1, <2>2, WrapShift
  <2> QED
    BY <1>2, <2>1, <2>3 DEF Oldest
<1>4. TypeOK'
  <2>1. free' \in 0..Size /\ tail' \in 0..(Size - 1)
    BY <1>1, <1>2 DEF Wrap
  <2> QED
    BY <2>1 DEF IInv, TypeOK, Commit
<1>5. cpc' = "read" => Len(Returned') > 0 /\ taken' = blocks'[1].used
  <2>1. Len(Returned') = n
    BY <1>1 DEF IInv, TypeOK, Returned
  <2> QED
    BY <1>1, <2>1 DEF IInv
<1>6. Chained'
  <2>1. /\ Dist(blocks[1]) = 0
        /\ Dist(b) = Size - free
        /\ Dist(b) \in Nat
    BY <1>1, DistRange DEF IInv, Chained
  <2>2. DistFrom(Oldest', blocks'[1]) = 0
    BY <1>1, <1>3, <2>1 DEF Dist
  <2>3. DistFrom(Oldest', blocks'[Len(blocks')]) + b.used = Size - free'
    <3>1. DistFrom(Oldest', blocks'[Len(blocks')]) = Size - free
      BY <1>1, <1>3, <2>1 DEF Dist
    <3>2. b.used \in Nat /\ free \in Nat /\ free' = free - b.used
      BY <1>1, <1>2
    <3>3. \A k, f \in Nat : (Size - f) + k = Size - (f - k)
      OBVIOUS
    <3>4. (Size - free) + b.used = Size - free'
      BY <3>2, <3>3
    <3> QED
      BY <3>1, <3>4
  <2>4. \A i \in 1..(Len(blocks') - 1) :
          DistFrom(Oldest', blocks'[i]) + blocks'[i].used = DistFrom(Oldest', blocks'[i + 1])
    BY <1>1, <1>3 DEF IInv, Chained, Dist
  <2>5. blocks' # <<>> /\ pc' # "stored" /\ blocks'[Len(blocks')] = b
    BY <1>1
  <2> HIDE DEF n, b
  <2> QED
    BY <2>2, <2>3, <2>4, <2>5 DEF Chained, Dist
<1>7. Ordered'
  BY <1>1, <1>3 DEF IInv, Ordered, Dist
<1>8. \A i \in 1..Len(blocks') : WellPlaced(blocks'[i])
  BY <1>1 DEF IInv
<1> QED
  BY <1>1, <1>4, <1>5, <1>6, <1>7, <1>8 DEF IInv

\* Giving back the oldest block brings every other one closer by its bytes.
LEMMA DistAfterRelease ==
  ASSUME NEW x \in 0..(Size - 1), NEW u \in 0..Size, NEW b \in Block,
         DistFrom(x, b) >= u
  PROVE  DistFrom(Wrap(x + u), b) = DistFrom(x, b) - u
BY SizeAssumption DEF DistFrom, Wrap, Block

LEMMA AddFreeStep ==
  ASSUME IInv, AddFree
  PROVE  IInv'
<1> USE SizeAssumption
<1> DEFINE n == Len(blocks)
           u == blocks[1].used
<1>1. /\ n \in Nat /\ n >= 1
      /\ pc = "stored" => n >= 2
      /\ \A i \in 1..n : blocks[i] \in Block /\ blocks[i].used \in 1..Size /\ Dist(blocks[i]) \in Nat
      /\ free \in 0..Size /\ tail \in 0..(Size - 1)
      /\ taken = u
      /\ pc' = pc /\ cpc' = "idle" /\ tail' = tail
  <2>1. blocks \in Seq(Block) /\ n \in Nat
    BY DEF IInv, TypeOK
  <2>2. n >= 1 /\ (pc = "stored" => n >= 2)
    BY <2>1, ReturnedLen DEF IInv, AddFree
  <2>3. \A i \in 1..n : blocks[i] \in Block
    BY <2>1
  <2>4. \A i \in 1..n : blocks[i].used \in 1..Size /\ Dist(blocks[i]) \in Nat
    BY <2>3, DistRange DEF IInv, Block
  <2>5. /\ free \in 0..Size /\ tail \in 0..(Size - 1)
        /\ taken = u
        /\ pc' = pc /\ cpc' = "idle" /\ tail' = tail
    BY DEF IInv, TypeOK, AddFree
  <2> QED
    BY <2>1, <2>2, <2>3, <2>4, <2>5
<1> HIDE DEF n, u
<1>0. (n = 1 \/ n >= 2) /\ u \in 1..Size
  BY <1>1 DEF u
<1>2. /\ blocks' = Tail(blocks)
      /\ Len(blocks') = n - 1
      /\ n >= 2 => blocks' # <<>>
      /\ \A i \in 1..(n - 1) : blocks'[i] = blocks[i + 1]
      /\ free' = free + u
  <2>1. blocks' = Tail(blocks) /\ blocks \in Seq(Block) /\ blocks # <<>> /\ free' = free + u
    BY <1>1 DEF IInv, TypeOK, AddFree, n, u
  <2>2. Len(blocks') = n - 1
    BY <2>1 DEF n
  <2>3. \A i \in 1..(n - 1) : blocks'[i] = blocks[i + 1]
    BY <2>1 DEF n
  <2>4. n >= 2 => blocks' # <<>>
    BY <2>2, <1>1
  <2> QED
    BY <2>1, <2>2, <2>3, <2>4
<1>3. /\ Dist(blocks[1]) = 0
      /\ Dist(blocks[n]) + (IF pc = "stored" THEN 0 ELSE blocks[n].used) = Size - free
  BY <1>1 DEF IInv, Chained, n
<1>4. \A i \in 2..n : u <= Dist(blocks[i])
  <2> SUFFICES ASSUME NEW i \in 2..n
               PROVE  u <= Dist(blocks[i])
    OBVIOUS
  <2>1. Dist(blocks[1]) + u <= Dist(blocks[i])
    BY <1>1 DEF IInv, Ordered, n, u
  <2> QED
    BY <1>0, <1>3, <2>1
<1>5. u <= Size - free
  <2>1. CASE n = 1
    <3>1. pc # "stored" /\ blocks[n].used = u
      BY <2>1, <1>1 DEF u
    <3> QED
      BY <3>1, <1>0, <2>1, <1>1, <1>3
  <2>2. CASE n >= 2
    <3>1. n \in 2..n /\ u <= Dist(blocks[n])
      BY <2>2, <1>1, <1>4
    <3> QED
      BY <3>1, <1>0, <1>1, <1>3
  <2> QED
    BY <2>1, <2>2, <1>0
<1>6. Oldest' = Wrap(Oldest + u) /\ Oldest \in 0..(Size - 1)
  <2>1. /\ free \in 0..Size /\ tail \in 0..(Size - 1)
        /\ free' = free + u /\ tail' = tail
    BY <1>1, <1>2
  <2> QED
    BY <2>1, <1>0, <1>5 DEF Oldest, Wrap
<1>7. \A i \in 1..(n - 1) : DistFrom(Oldest', blocks'[i]) = Dist(blocks[i + 1]) - u
  <2> SUFFICES ASSUME NEW i \in 1..(n - 1)
               PROVE  DistFrom(Oldest', blocks'[i]) = Dist(blocks[i + 1]) - u
    OBVIOUS
  <2>1. i + 1 \in 2..n /\ i + 1 \in 1..n
    BY <1>1
  <2>2. blocks'[i] = blocks[i + 1] /\ blocks[i + 1] \in Block /\ Dist(blocks[i + 1]) >= u
    BY <2>1, <1>0, <1>1, <1>2, <1>4
  <2> QED
    BY <2>2, <1>0, <1>6, DistAfterRelease DEF Dist
<1>8. TypeOK'
  <2>1. free' \in 0..Size
    BY <1>0, <1>1, <1>2, <1>5
  <2>2. blocks' \in Seq(Block)
    BY <1>0, <1>1, <1>2 DEF IInv, TypeOK, n
  <2> QED
    BY <2>1, <2>2 DEF IInv, TypeOK, AddFree
<1>9. Chained'
  <2>1. CASE n = 1
    <3>1. pc # "stored" /\ blocks[n].used = u
      BY <2>1, <1>1 DEF u
    <3>2. free' = Size
      BY <3>1, <1>0, <2>1, <1>1, <1>2, <1>3
    <3>3. blocks' = <<>> /\ Len(blocks') = 0
      BY <2>1, <1>1, <1>2 DEF IInv, TypeOK, n
    <3> QED
      BY <3>2, <3>3 DEF Chained
  <2>2. CASE n >= 2
    <3>0. \A i \in 1..(n - 1) : Dist(blocks[i]) + blocks[i].used = Dist(blocks[i + 1])
      BY DEF IInv, Chained, n
    <3>1. Dist(blocks[1]) + u = Dist(blocks[2])
      <4>1. 1 \in 1..(n - 1) /\ 1 + 1 = 2
        BY <2>2, <1>1
      <4> QED
        BY <3>0, <4>1 DEF u
    <3>2. DistFrom(Oldest', blocks'[1]) = 0
      <4>1. 1 \in 1..(n - 1) /\ 1 + 1 = 2
        BY <2>2, <1>1
      <4>2. DistFrom(Oldest', blocks'[1]) = Dist(blocks[2]) - u
        BY <4>1, <1>7
      <4> QED
        BY <4>2, <3>1, <1>0, <1>3
    <3>3. DistFrom(Oldest', blocks'[n - 1])
            + (IF pc' = "stored" THEN 0 ELSE blocks'[n - 1].used) = Size - free'
      <4>1. n - 1 \in 1..(n - 1) /\ (n - 1) + 1 = n
        BY <2>2, <1>1
      <4>2. blocks'[n - 1] = blocks[n] /\ DistFrom(Oldest', blocks'[n - 1]) = Dist(blocks[n]) - u
        BY <4>1, <1>2, <1>7
      <4>3. blocks[n].used \in 1..Size /\ Dist(blocks[n]) \in Nat
        BY <1>1
      <4> QED
        <5>1. CASE pc = "stored"
          BY <5>1, <4>2, <4>3, <1>0, <1>1, <1>2, <1>3
        <5>2. CASE pc # "stored"
          BY <5>2, <4>2, <4>3, <1>0, <1>1, <1>2, <1>3
        <5> QED
          BY <5>1, <5>2
    <3>4. \A i \in 1..(n - 2) :
            DistFrom(Oldest', blocks'[i]) + blocks'[i].used = DistFrom(Oldest', blocks'[i + 1])
      <4> SUFFICES ASSUME NEW i \in 1..(n - 2)
                   PROVE  DistFrom(Oldest', blocks'[i]) + blocks'[i].used
                            = DistFrom(Oldest', blocks'[i + 1])
        OBVIOUS
      <4>1. /\ i \in 1..(n - 1) /\ i + 1 \in 1..(n - 1) /\ (i + 1) + 1 \in 1..n
            /\ i + 1 \in 1..n
        BY <1>1
      <4>2. Dist(blocks[i + 1]) + blocks[i + 1].used = Dist(blocks[(i + 1) + 1])
        BY <3>0, <4>1
      <4>3. /\ DistFrom(Oldest', blocks'[i]) = Dist(blocks[i + 1]) - u
            /\ DistFrom(Oldest', blocks'[i + 1]) = Dist(blocks[(i + 1) + 1]) - u
            /\ blocks'[i] = blocks[i + 1]
        BY <4>1, <1>2, <1>7
      <4>4. /\ Dist(blocks[i + 1]) \in Nat /\ Dist(blocks[(i + 1) + 1]) \in Nat
            /\ blocks[i + 1].used \in 1..Size
        BY <4>1, <1>1
      <4> QED
        BY <4>2, <4>3, <4>4, <1>0
    <3>5. Len(blocks') = n - 1 /\ Len(blocks') - 1 = n - 2 /\ blocks' # <<>>
      BY <2>2, <1>1, <1>2
    <3> QED
      BY <3>2, <3>3, <3>4, <3>5 DEF Chained, Dist
  <2> QED
    BY <2>1, <2>2, <1>0
<1>10. Ordered'
  <2> SUFFICES ASSUME NEW i \in 1..(n - 1), NEW j \in 1..(n - 1), i < j
               PROVE  DistFrom(Oldest', blocks'[i]) + blocks'[i].used <= DistFrom(Oldest', blocks'[j])
    BY <1>2 DEF Ordered, Dist
  <2>1. Dist(blocks[i + 1]) + blocks[i + 1].used <= Dist(blocks[j + 1])
    BY <1>1 DEF IInv, Ordered, n
  <2>2. i + 1 \in 1..n /\ j + 1 \in 1..n
    BY <1>1
  <2>3. /\ Dist(blocks[i + 1]) \in Nat /\ Dist(blocks[j + 1]) \in Nat
        /\ blocks[i + 1].used \in 1..Size
    BY <2>2, <1>1
  <2>4. /\ DistFrom(Oldest', blocks'[i]) = Dist(blocks[i + 1]) - u
        /\ DistFrom(Oldest', blocks'[j]) = Dist(blocks[j + 1]) - u
        /\ blocks'[i] = blocks[i + 1]
    BY <1>2, <1>7
  <2> QED
    BY <2>1, <2>3, <2>4, <1>0
<1>11. \A i \in 1..Len(blocks') : WellPlaced(blocks'[i])
  BY <1>1, <1>2 DEF IInv, n
<1>12. pc' = "loaded" => seen' <= free'
  BY <1>1, <1>2 DEF IInv, TypeOK, AddFree
<1>13. pc' = "stored" => /\ blocks' # <<>>
                         /\ blocks'[Len(blocks')].start = tail'
                         /\ blocks'[Len(blocks')].used <= free'
                         /\ blocks'[Len(blocks')].size = req'.size
                         /\ (Base + blocks'[Len(blocks')].at) % req'.alignment = 0
  <2> SUFFICES ASSUME pc' = "stored"
               PROVE  /\ blocks' # <<>>
                      /\ blocks'[Len(blocks')].start = tail'
                      /\ blocks'[Len(blocks')].used <= free'
                      /\ blocks'[Len(blocks')].size = req'.size
                      /\ (Base + blocks'[Len(blocks')].at) % req'.alignment = 0
    OBVIOUS
  <2>1. pc = "stored" /\ n >= 2 /\ n \in Nat
    BY <1>1
  <2>2. /\ blocks[n].start = tail /\ blocks[n].used <= free
        /\ blocks[n].size = req.size /\ (Base + blocks[n].at) % req.alignment = 0
    BY <2>1 DEF IInv, n
  <2>3. n - 1 \in 1..(n - 1) /\ (n - 1) + 1 = n
    BY <2>1
  <2>4. Len(blocks') = n - 1 /\ blocks'[n - 1] = blocks[n] /\ blocks' # <<>>
    BY <2>1, <2>3, <1>2
  <2>5. blocks[n].used \in 1..Size /\ free' >= free
    BY <2>1, <1>0, <1>1, <1>2
  <2>6. blocks'[Len(blocks')] = blocks[n] /\ free' \in Int
    BY <2>4, <1>0, <1>1, <1>2
  <2>7. req' = req
    BY DEF AddFree
  <2> QED
    BY <2>2, <2>4, <2>5, <2>6, <2>7, <1>1
<1> QED
  BY <1>1, <1>8, <1>9, <1>10, <1>11, <1>12, <1>13 DEF IInv

LEMMA Initial == Init => IInv
<1> SUFFICES ASSUME Init
             PROVE  IInv
  OBVIOUS
<1>1. TypeOK
  BY SizeAssumption DEF Init, TypeOK
<1>2. Len(blocks) = 0 /\ blocks = <<>> /\ free = Size /\ pc = "idle" /\ cpc = "idle"
  BY DEF Init
<1> QED
  BY <1>1, <1>2 DEF IInv, Chained, Ordered

LEMMA Step == IInv /\ [Next]_vars => IInv'
<1> SUFFICES ASSUME IInv, [Next]_vars
             PROVE  IInv'
  OBVIOUS
<1>1. ASSUME NEW r \in Requests, LoadFree(r)
      PROVE  IInv'
  BY <1>1, LoadFreeStep
<1>2. CASE Refuse
  BY <1>2, RefuseStep
<1>3. CASE StoreHeader
  BY <1>3, StoreHeaderStep
<1>4. CASE Commit
  BY <1>4, CommitStep
<1>5. CASE ReadHeader
  BY <1>5, ReadHeaderStep
<1>6. CASE AddFree
  BY <1>6, AddFreeStep
<1>7. CASE UNCHANGED vars
  <2>1. TypeOK'
    BY <1>7 DEF IInv, TypeOK, vars
  <2>2. /\ \A i \in 1..Len(blocks') : WellPlaced(blocks'[i])
        /\ Chained'
        /\ Ordered'
        /\ (Len(Returned) > 0) = (Len(Returned') > 0)
    BY <1>7, FrameStep DEF vars
  <2> QED
    BY <1>7, <2>1, <2>2 DEF IInv, vars
<1> QED
  BY <1>1, <1>2, <1>3, <1>4, <1>5, <1>6, <1>7 DEF Next, Producer, Consumer

\* In every reachable state the blocks tile the ring from the oldest one to
\* tail_ and the free counter is exactly what they leave (the code's implicit
\* invariant: nothing in the class records where the free bytes are).
THEOREM InductiveInvariant == Spec => []IInv
BY Initial, Step, PTL DEF Spec

\* The counters and positions that allocate and release compute stay in range:
\* the assertions of lines 60 and 89, and no underflow of free_.counter.
THEOREM TypeCorrect == Spec => []TypeOK
<1>1. IInv => TypeOK
  BY DEF IInv
<1> QED
  BY <1>1, InductiveInvariant, PTL

\* The assertion of line 65, for every interleaving with the consumer.
THEOREM AssertionHolds == Spec => []SplitWithinFree
<1>1. IInv => SplitWithinFree
  <2> SUFFICES ASSUME IInv, pc = "loaded"
               PROVE  Split(tail, seen)[1] + Split(tail, seen)[2] <= free
    BY DEF SplitWithinFree
  <2>1. /\ tail \in 0..(Size - 1) /\ seen \in 0..Size /\ free \in 0..Size
        /\ seen <= free
    BY DEF IInv, TypeOK
  <2>2. Split(tail, seen)[1] + Split(tail, seen)[2] = seen
    BY <2>1, SplitRuns, SizeAssumption
  <2> QED
    BY <2>1, <2>2
<1> QED
  BY <1>1, InductiveInvariant, PTL

\* Two blocks, one of which starts after the other ends along the ring, have
\* no byte of header or payload in common.
LEMMA ApartOnRing ==
  ASSUME NEW x \in 0..(Size - 1), NEW a \in Block, NEW b \in Block,
         WellPlaced(a), WellPlaced(b),
         DistFrom(x, a) + a.used <= DistFrom(x, b),
         DistFrom(x, b) + b.used <= Size
  PROVE  Disjoint(a, b)
BY SizeAssumption DEF Block, WellPlaced, DistFrom, Disjoint

\* No block reaches once around the ring.
LEMMA WithinOneTurn ==
  ASSUME IInv, NEW j \in 1..Len(blocks)
  PROVE  Dist(blocks[j]) + blocks[j].used <= Size
<1> DEFINE n == Len(blocks)
<1>1. n \in Nat /\ n >= 1 /\ blocks # <<>>
  BY DEF IInv, TypeOK
<1>2. blocks[j] \in Block /\ blocks[n] \in Block
  BY <1>1 DEF IInv, TypeOK
<1>3. /\ blocks[j].used \in 1..Size /\ blocks[n].used \in 1..Size
      /\ Dist(blocks[j]) \in 0..(Size - 1) /\ Dist(blocks[n]) \in 0..(Size - 1)
      /\ free \in 0..Size
  BY <1>2, DistRange DEF IInv, TypeOK, Block
<1>4. CASE j = n
  <2>1. Dist(blocks[n]) + (IF pc = "stored" THEN 0 ELSE blocks[n].used) = Size - free
    BY <1>1 DEF IInv, Chained
  <2>2. pc = "stored" => blocks[n].used <= free
    BY DEF IInv
  <2> QED
    BY <1>3, <1>4, <2>1, <2>2, SizeAssumption
<1>5. CASE j < n
  <2>1. Dist(blocks[j]) + blocks[j].used <= Dist(blocks[n])
    BY <1>1, <1>5 DEF IInv, Ordered
  <2> QED
    BY <1>3, <2>1, SizeAssumption
<1> QED
  BY <1>1, <1>4, <1>5

LEMMA ExtentsFromIInv == IInv => ExclusiveExtents
<1> SUFFICES ASSUME IInv
             PROVE  ExclusiveExtents
  OBVIOUS
<1>1. \A i \in 1..Len(blocks) : blocks[i] \in Block /\ WellPlaced(blocks[i])
  BY DEF IInv, TypeOK
<1>2. ASSUME NEW i \in 1..Len(blocks)
      PROVE  H <= blocks[i].at /\ blocks[i].at + blocks[i].size <= Size
  BY <1>1, SizeAssumption DEF WellPlaced, Block
<1>3. ASSUME NEW i \in 1..Len(blocks), NEW j \in 1..Len(blocks), i < j
      PROVE  Disjoint(blocks[i], blocks[j])
  <2>1. Dist(blocks[i]) + blocks[i].used <= Dist(blocks[j])
    BY <1>3 DEF IInv, Ordered
  <2>2. Dist(blocks[j]) + blocks[j].used <= Size
    BY WithinOneTurn
  <2>3. Oldest \in 0..(Size - 1)
    BY <1>1, DistRange DEF IInv
  <2> QED
    BY <1>1, <2>1, <2>2, <2>3, ApartOnRing DEF Dist
<1> QED
  BY <1>2, <1>3 DEF ExclusiveExtents

\* No byte of header or payload ever belongs to two blocks, for every buffer
\* size, header size, base address and set of requests.
THEOREM Exclusive == Spec => []ExclusiveExtents
BY ExtentsFromIInv, InductiveInvariant, PTL

LEMMA EmptyFromIInv == IInv => EmptyIffNothingLive
<1> SUFFICES ASSUME IInv
             PROVE  free = Size <=> Returned = <<>>
  BY DEF EmptyIffNothingLive
<1> DEFINE n == Len(blocks)
<1>1. /\ n \in Nat /\ (blocks = <<>> <=> n = 0)
      /\ Len(Returned) = n - (IF pc = "stored" /\ blocks # <<>> THEN 1 ELSE 0)
      /\ pc = "stored" => blocks # <<>>
      /\ free \in 0..Size
  BY ReturnedLen DEF IInv, TypeOK
<1>2. Returned = <<>> <=> Len(Returned) = 0
  BY DEF Returned, IInv, TypeOK
<1>3. CASE n = 0
  BY <1>1, <1>2, <1>3 DEF IInv, Chained
<1>4. CASE n >= 1
  <2>1. /\ Dist(blocks[1]) = 0
        /\ Dist(blocks[n]) + (IF pc = "stored" THEN 0 ELSE blocks[n].used) = Size - free
    BY <1>1, <1>4 DEF IInv, Chained
  <2>2. \A i \in 1..n : blocks[i] \in Block
    BY DEF IInv, TypeOK
  <2>3. /\ blocks[1].used \in 1..Size /\ blocks[n].used \in 1..Size
        /\ Dist(blocks[n]) \in 0..(Size - 1)
    BY <1>1, <1>4, <2>2, DistRange DEF IInv, Block
  <2>4. CASE pc # "stored"
    BY <1>1, <1>2, <1>4, <2>1, <2>3, <2>4, SizeAssumption
  <2>5. CASE pc = "stored" /\ n = 1
    BY <1>1, <1>2, <2>1, <2>5, SizeAssumption
  <2>6. CASE pc = "stored" /\ n >= 2
    <3>1. Dist(blocks[1]) + blocks[1].used <= Dist(blocks[n])
      BY <1>1, <2>6 DEF IInv, Ordered
    <3>2. Size - free = Dist(blocks[n]) /\ Dist(blocks[n]) >= 1
      BY <2>1, <2>3, <2>6, <3>1
    <3>3. free # Size
      BY <1>1, <3>2, SizeAssumption
    <3>4. Len(Returned) >= 1
      BY <1>1, <2>6
    <3> QED
      BY <1>2, <3>3, <3>4
  <2>7. n = 1 \/ n >= 2
    <3>1. n \in Nat
      BY <1>1
    <3> HIDE DEF n
    <3> QED
      BY <3>1, <1>4
  <2> QED
    BY <2>4, <2>5, <2>6, <2>7
<1> QED
  BY <1>1, <1>3, <1>4

\* empty() is exact: releases in order give back every byte that allocations
\* took, padding and skipped ends included.
THEOREM EmptyIsExact == Spec => []EmptyIffNothingLive
BY EmptyFromIInv, InductiveInvariant, PTL

-------------------------------------------------------------------------------
(***************************************************************************)
(* CircularMemory implements FifoRegions: allocate, at the step that makes *)
(* its block the caller's, is Allocate; release, at the step that gives    *)
(* the bytes back, is Release; every other step changes no region.         *)
(***************************************************************************)

LEMMA LiveShape ==
  ASSUME IInv
  PROVE  /\ Len(Returned) \in Nat
         /\ Len(Returned) <= Len(blocks)
         /\ Live \in Seq([at : 0..(Size - 1), size : 1..Size])
         /\ Len(Live) = Len(Returned)
         /\ \A i \in 1..Len(Returned) : Live[i] = [at |-> blocks[i].at, size |-> blocks[i].size]
<1>1. /\ Len(blocks) \in Nat /\ (blocks # <<>> => Len(blocks) >= 1)
      /\ \A i \in 1..Len(blocks) : blocks[i] \in Block
  BY DEF IInv, TypeOK
<1>2. Len(Returned) \in Nat /\ Len(Returned) <= Len(blocks)
  BY <1>1, ReturnedLen DEF IInv
<1>3. \A i \in 1..Len(Returned) : blocks[i].at \in 0..(Size - 1) /\ blocks[i].size \in 1..Size
  BY <1>1, <1>2 DEF Block
<1> QED
  BY <1>2, <1>3 DEF Live

LEMMA CommitAllocates ==
  ASSUME IInv, IInv', Commit
  PROVE  Regions!Next
<1> DEFINE n == Len(blocks)
           region == [at |-> blocks[n].at, size |-> req.size]
<1>1. /\ n \in Nat /\ n >= 1 /\ blocks' = blocks
      /\ pc = "stored" /\ pc' = "idle"
      /\ blocks[n].size = req.size /\ (Base + blocks[n].at) % req.alignment = 0
      /\ req \in Requests
  BY DEF IInv, TypeOK, Commit
<1>2. Len(Returned) = n - 1 /\ Len(Returned') = n
  <2>1. Len(Returned) = n - 1
    BY <1>1, ReturnedLen DEF IInv
  <2>2. Len(Returned') = n
    BY <1>1 DEF IInv, TypeOK, Returned
  <2> QED
    BY <2>1, <2>2
<1>3. blocks[n] \in Block
  BY <1>1 DEF IInv, TypeOK
<1>4. /\ \A i, j \in 1..n : i < j => Disjoint(blocks[i], blocks[j])
      /\ blocks[n].at + blocks[n].size <= Size
  BY <1>1, ExtentsFromIInv DEF ExclusiveExtents
<1>5. \A i \in 1..(n - 1) : ~Regions!Overlap(Live[i], region)
  <2> SUFFICES ASSUME NEW i \in 1..(n - 1)
               PROVE  ~Regions!Overlap(Live[i], region)
    OBVIOUS
  <2>1. Live[i] = [at |-> blocks[i].at, size |-> blocks[i].size]
    BY <1>2, LiveShape
  <2>2. blocks[i] \in Block /\ Disjoint(blocks[i], blocks[n])
    <3>1. i \in 1..n /\ n \in 1..n /\ i < n
      BY <1>1
    <3>2. Disjoint(blocks[i], blocks[n])
      BY <1>4, <3>1
    <3>3. blocks \in Seq(Block)
      BY DEF IInv, TypeOK
    <3>4. blocks[i] \in Block
      BY <3>1, <3>3
    <3> QED
      BY <3>2, <3>4
  <2>3. /\ blocks[i].at \in Nat /\ blocks[i].size \in Nat
        /\ blocks[n].at \in Nat /\ blocks[n].size \in Nat
    BY <1>3, <2>2, SizeAssumption DEF Block
  <2>4. \/ blocks[i].at + blocks[i].size <= blocks[n].at
        \/ blocks[n].at + blocks[n].size <= blocks[i].at
    BY <2>2, <2>3, SizeAssumption DEF Disjoint
  <2> QED
    BY <1>1, <2>1, <2>3, <2>4 DEF Regions!Overlap
<1>6. Live' = Append(Live, region)
  <2>1. /\ Live' \in Seq([at : 0..(Size - 1), size : 1..Size])
        /\ Len(Live') = n
        /\ \A i \in 1..n : Live'[i] = [at |-> blocks[i].at, size |-> blocks[i].size]
    <3>1. Live' = [i \in 1..n |-> [at |-> blocks[i].at, size |-> blocks[i].size]]
      BY <1>1, <1>2 DEF Live
    <3>2. \A i \in 1..n : blocks[i].at \in 0..(Size - 1) /\ blocks[i].size \in 1..Size
      <4>1. \A i \in 1..n : blocks[i] \in Block
        BY DEF IInv, TypeOK
      <4> QED
        BY <4>1 DEF Block
    <3> QED
      BY <1>1, <3>1, <3>2
  <2>2. /\ Live \in Seq([at : 0..(Size - 1), size : 1..Size])
        /\ Len(Live) = n - 1
        /\ \A i \in 1..(n - 1) : Live[i] = [at |-> blocks[i].at, size |-> blocks[i].size]
    BY <1>2, LiveShape
  <2>3. region \in [at : 0..(Size - 1), size : 1..Size]
    BY <1>1, <1>3 DEF Block
  <2>4. Live'[n] = region
    BY <1>1, <2>1
  <2> HIDE DEF n, region
  <2>5. /\ Append(Live, region) \in Seq([at : 0..(Size - 1), size : 1..Size])
        /\ Len(Append(Live, region)) = n
        /\ \A i \in 1..(n - 1) : Append(Live, region)[i] = Live[i]
        /\ Append(Live, region)[n] = region
    BY <1>1, <2>2, <2>3
  <2>6. \A i \in 1..n : Live'[i] = Append(Live, region)[i]
    BY <1>1, <2>1, <2>2, <2>4, <2>5
  <2> QED
    BY <1>1, <2>1, <2>5, <2>6
<1>7. blocks[n].at \in 0..Size
  BY <1>3, SizeAssumption DEF Block
<1>8. Regions!Allocate(req, blocks[n].at)
  <2>1. Len(Live) = n - 1
    BY <1>2, LiveShape
  <2> QED
    BY <1>1, <1>4, <1>5, <1>6, <2>1 DEF Regions!Allocate
<1> QED
  BY <1>1, <1>7, <1>8 DEF Regions!Next

LEMMA AddFreeReleases ==
  ASSUME IInv, IInv', AddFree
  PROVE  Regions!Next
<1> DEFINE m == Len(Returned)
           Region == [at : 0..(Size - 1), size : 1..Size]
<1>1. /\ blocks \in Seq(Block) /\ blocks # <<>> /\ pc' = pc
      /\ blocks' = Tail(blocks)
      /\ m \in Nat /\ m >= 1 /\ m <= Len(blocks)
  BY ReturnedLen DEF IInv, TypeOK, AddFree
<1>2. Len(Returned') = m - 1
  <2>1. Len(blocks') = Len(blocks) - 1 /\ blocks' \in Seq(Block)
    BY <1>1
  <2>2. CASE pc = "stored"
    <3>1. m = Len(blocks) - 1 /\ Len(blocks) \in Nat
      BY <1>1, <2>2, ReturnedLen DEF IInv
    <3>2. Returned' = SubSeq(blocks', 1, Len(blocks') - 1)
      BY <1>1, <2>2 DEF Returned
    <3>3. Len(SubSeq(blocks', 1, Len(blocks') - 1)) = Len(blocks') - 1
      BY <1>1, <2>1, <3>1
    <3> QED
      BY <2>1, <3>1, <3>2, <3>3
  <2>3. CASE pc # "stored"
    <3>1. m = Len(blocks) /\ Len(blocks) \in Nat
      BY <1>1, <2>3, ReturnedLen DEF IInv
    <3>2. Returned' = SubSeq(blocks', 1, Len(blocks'))
      BY <1>1, <2>3 DEF Returned
    <3>3. Len(SubSeq(blocks', 1, Len(blocks'))) = Len(blocks')
      BY <1>1, <2>1, <3>1
    <3> QED
      BY <2>1, <3>1, <3>2, <3>3
  <2> QED
    BY <2>2, <2>3
<1>3. /\ Live \in Seq(Region)
      /\ Len(Live) = m
      /\ \A i \in 1..m : Live[i] = [at |-> blocks[i].at, size |-> blocks[i].size]
  BY LiveShape
<1>4. \A i \in 1..(m - 1) : blocks'[i] = blocks[i + 1]
  BY <1>1
<1> HIDE DEF m, Region
<1>5. Live' = [i \in 1..(m - 1) |-> [at |-> blocks'[i].at, size |-> blocks'[i].size]]
  BY <1>2 DEF Live
<1>6. \A i \in 1..(m - 1) : i + 1 \in 1..m /\ Live'[i] = Live[i + 1]
  BY <1>1, <1>3, <1>4, <1>5
<1>7. Live' = Tail(Live)
  <2>1. \A i \in 1..(m - 1) : Live[i + 1] \in Region
    BY <1>1, <1>3, <1>6
  <2>2. Live' \in Seq(Region) /\ Len(Live') = m - 1
    BY <1>1, <1>5, <1>6, <2>1
  <2>3. /\ Tail(Live) \in Seq(Region) /\ Len(Tail(Live)) = m - 1
        /\ \A i \in 1..(m - 1) : Tail(Live)[i] = Live[i + 1]
    BY <1>1, <1>3
  <2> QED
    BY <1>1, <1>6, <2>2, <2>3
<1>8. Live # <<>>
  BY <1>1, <1>3
<1> QED
  BY <1>7, <1>8 DEF Regions!Next, Regions!Release

\* Steps that return no block and release none.
LEMMA OtherStepsStutter ==
  ASSUME IInv,
         \/ \E r \in Requests : LoadFree(r)
         \/ Refuse
         \/ StoreHeader
         \/ ReadHeader
         \/ UNCHANGED vars
  PROVE  Live' = Live
<1>1. blocks \in Seq(Block) /\ Len(blocks) \in Nat
  BY DEF IInv, TypeOK
<1>2. CASE UNCHANGED blocks /\ (pc = "stored") = (pc' = "stored")
  BY <1>2 DEF Live, Returned
<1>3. CASE StoreHeader
  <2> DEFINE b == NewBlock(req, tail, seen)
  <2>1. b \in Block
    BY <1>3, NewBlockPlace DEF IInv, TypeOK, StoreHeader
  <2>2. /\ blocks' = Append(blocks, b)
        /\ pc = "loaded" /\ pc' = "stored"
    BY <1>3 DEF StoreHeader
  <2>3. /\ blocks' \in Seq(Block) /\ Len(blocks') = Len(blocks) + 1
        /\ \A i \in 1..Len(blocks) : blocks'[i] = blocks[i]
    BY <1>1, <2>1, <2>2
  <2>4. Len(Returned) = Len(blocks) /\ Len(Returned') = Len(blocks)
    <3>1. Len(SubSeq(blocks', 1, Len(blocks') - 1)) = Len(blocks') - 1
      BY <1>1, <2>3
    <3> QED
      BY <1>1, <2>2, <2>3, <3>1, ReturnedLen DEF IInv, Returned
  <2> QED
    BY <2>3, <2>4 DEF Live
<1> QED
  BY <1>2, <1>3 DEF LoadFree, Refuse, ReadHeader, vars

\* For every interleaving of the two threads, every buffer and every set of
\* requests, what allocate and release do to the live blocks is what
\* FifoRegions allows.
THEOREM Implements == Spec => ImplementsRegions
<1>1. Init => Regions!Init
  <2> SUFFICES ASSUME Init
               PROVE  Live = <<>>
    BY DEF Regions!Init
  <2>1. IInv /\ Len(Returned) = 0
    BY Initial, ReturnedLen DEF Init, IInv
  <2> QED
    BY <2>1, LiveShape
<1>2. IInv /\ IInv' /\ [Next]_vars => [Regions!Next]_Live
  <2> SUFFICES ASSUME IInv, IInv', [Next]_vars
               PROVE  Regions!Next \/ Live' = Live
    OBVIOUS
  <2>1. CASE Commit
    BY <2>1, CommitAllocates
  <2>2. CASE AddFree
    BY <2>2, AddFreeReleases
  <2>3. CASE \/ \E r \in Requests : LoadFree(r)
             \/ Refuse
             \/ StoreHeader
             \/ ReadHeader
             \/ UNCHANGED vars
    BY <2>3, OtherStepsStutter
  <2> QED
    BY <2>1, <2>2, <2>3 DEF Next, Producer, Consumer
<1> QED
  BY <1>1, <1>2, InductiveInvariant, PTL DEF Spec, ImplementsRegions, Regions!Spec
-------------------------------------------------------------------------------
(***************************************************************************)
(* The bytes that are not counted as free belong to blocks, so allocate    *)
(* never refuses a request for the sake of a byte that nobody has.  It is  *)
(* an invariant of its own: each step that moves tail_ or the counter says *)
(* which block the bytes go to or come from.                               *)
(***************************************************************************)

\* A byte among the first n on the ring from x.
Within(y, x, n) == IF y >= x THEN y < x + n ELSE y + Size < x + n

Covered ==
  \A y \in 0..(Size - 1) :
    Within(y, tail, free) \/ \E i \in 1..Len(blocks) : Within(y, blocks[i].start, blocks[i].used)

\* Taking n of the first f bytes from x on.
LEMMA WithinTaken ==
  ASSUME NEW x \in 0..(Size - 1), NEW f \in 0..Size, NEW n \in 0..Size, n <= f,
         NEW y \in 0..(Size - 1), Within(y, x, f)
  PROVE  Within(y, x, n) \/ Within(y, Wrap(x + n), f - n)
BY SizeAssumption DEF Within, Wrap

\* Giving back the n bytes that follow them.
LEMMA WithinGiven ==
  ASSUME NEW x \in 0..(Size - 1), NEW f \in 0..Size, NEW n \in 0..Size, f + n <= Size,
         NEW y \in 0..(Size - 1), Within(y, Wrap(x + f), n) \/ Within(y, x, f)
  PROVE  Within(y, x, f + n)
BY SizeAssumption DEF Within, Wrap

LEMMA BlockAt ==
  ASSUME TypeOK
  PROVE  /\ blocks \in Seq(Block) /\ Len(blocks) \in Nat
         /\ \A i \in 1..Len(blocks) :
              blocks[i] \in Block /\ blocks[i].start \in 0..(Size - 1) /\ blocks[i].used \in 1..Size
<1>1. blocks \in Seq(Block) /\ Len(blocks) \in Nat
  BY DEF TypeOK
<1>2. \A i \in 1..Len(blocks) : blocks[i] \in Block
  BY <1>1
<1> QED
  BY <1>1, <1>2 DEF Block

LEMMA CommitCovered ==
  ASSUME IInv, Covered, Commit
  PROVE  Covered'
<1> DEFINE n == Len(blocks)
           u == blocks[n].used
<1>1. /\ n \in Nat /\ n \in 1..n /\ blocks[n].start = tail /\ u \in 1..Size /\ u <= free
      /\ tail \in 0..(Size - 1) /\ free \in 0..Size /\ blocks' = blocks
  <2>1. n \in Nat /\ blocks # <<>> /\ blocks \in Seq(Block)
    BY BlockAt DEF IInv, Commit
  <2>2. n \in 1..n
    BY <2>1
  <2> QED
    BY <2>1, <2>2, BlockAt DEF IInv, TypeOK, Commit
<1>2. free' = free - u /\ tail' = Wrap(tail + u)
  <2>1. tail + u \in 0..(2 * Size - 1)
    BY <1>1, SizeAssumption
  <2> QED
    BY <2>1, ModIsWrap DEF Commit
<1> SUFFICES ASSUME NEW y \in 0..(Size - 1), ~Within(y, tail', free')
             PROVE  \E i \in 1..n : Within(y, blocks[i].start, blocks[i].used)
  BY <1>1 DEF Covered
<1>3. CASE ~Within(y, tail, free)
  BY <1>3 DEF Covered
<1>4. CASE Within(y, tail, free)
  <2>1. u \in 0..Size
    BY <1>1
  <2>2. Within(y, tail, u)
    BY <1>1, <1>2, <1>4, <2>1, WithinTaken
  <2> QED
    BY <1>1, <2>2
<1> QED
  BY <1>3, <1>4

LEMMA AddFreeCovered ==
  ASSUME IInv, IInv', Covered, AddFree
  PROVE  Covered'
<1> DEFINE n == Len(blocks)
           u == blocks[1].used
<1>1. /\ n \in Nat /\ n >= 1 /\ u \in 1..Size /\ taken = u
      /\ tail \in 0..(Size - 1) /\ free \in 0..Size /\ tail' = tail
      /\ free' = free + u /\ free + u <= Size
  <2>1. n \in Nat /\ n >= 1
    BY BlockAt, ReturnedLen DEF IInv, AddFree
  <2>2. u \in 1..Size /\ taken = u
    BY <2>1, BlockAt DEF IInv, AddFree
  <2>3. free' \in 0..Size /\ free \in 0..Size /\ tail \in 0..(Size - 1)
    BY DEF IInv, TypeOK
  <2> QED
    BY <2>1, <2>2, <2>3, SizeAssumption DEF AddFree
<1>2. blocks[1].start = Wrap(tail + free)
  <2>1. blocks # <<>>
    BY <1>1
  <2>2. Dist(blocks[1]) = 0
    BY <2>1 DEF IInv, Chained
  <2>3. blocks[1].start \in 0..(Size - 1) /\ Oldest \in 0..(Size - 1)
    BY <1>1, BlockAt, DistRange DEF IInv
  <2> QED
    BY <2>2, <2>3, SizeAssumption DEF Dist, DistFrom, Oldest
<1>3. /\ Len(blocks') = n - 1
      /\ \A i \in 1..(n - 1) : blocks'[i] = blocks[i + 1]
  BY <1>1, BlockAt DEF IInv, AddFree
<1> SUFFICES ASSUME NEW y \in 0..(Size - 1), ~Within(y, tail, free + u)
             PROVE  \E i \in 1..(n - 1) : Within(y, blocks'[i].start, blocks'[i].used)
  BY <1>1, <1>3 DEF Covered, Within
<1>4. u \in 0..Size
  BY <1>1
<1>5. ~Within(y, tail, free) /\ ~Within(y, blocks[1].start, u)
  BY <1>1, <1>2, <1>4, WithinGiven
<1>6. PICK i \in 1..n : Within(y, blocks[i].start, blocks[i].used)
  BY <1>5 DEF Covered
<1>7. i # 1
  BY <1>5, <1>6
<1>8. i - 1 \in 1..(n - 1) /\ (i - 1) + 1 = i
  BY <1>1, <1>7
<1>9. blocks'[i - 1] = blocks[i]
  BY <1>3, <1>8
<1> QED
  BY <1>6, <1>8, <1>9

LEMMA CoveredInv == Spec => []Covered
<1>1. Init => Covered
  <2> SUFFICES ASSUME Init, NEW y \in 0..(Size - 1) PROVE Within(y, tail, free)
    BY DEF Covered
  <2> QED
    BY SizeAssumption DEF Init, Within
<1>2. IInv /\ IInv' /\ Covered /\ [Next]_vars => Covered'
  <2> SUFFICES ASSUME IInv, IInv', Covered, [Next]_vars PROVE Covered'
    OBVIOUS
  <2>1. ASSUME UNCHANGED <<free, tail, blocks>> PROVE Covered'
    BY <2>1 DEF Covered, Within
  <2>2. CASE StoreHeader
    <3>1. /\ blocks \in Seq(Block) /\ Len(blocks) \in Nat /\ tail' = tail /\ free' = free
          /\ blocks' = Append(blocks, NewBlock(req, tail, seen))
      BY <2>2, BlockAt DEF IInv, StoreHeader
    <3>2. /\ Len(blocks') = Len(blocks) + 1
          /\ \A i \in 1..Len(blocks) : i \in 1..Len(blocks') /\ blocks'[i] = blocks[i]
      BY <3>1
    <3> SUFFICES ASSUME NEW y \in 0..(Size - 1), ~Within(y, tail, free)
                 PROVE  \E i \in 1..Len(blocks') : Within(y, blocks'[i].start, blocks'[i].used)
      BY <3>1 DEF Covered, Within
    <3>3. PICK i \in 1..Len(blocks) : Within(y, blocks[i].start, blocks[i].used)
      BY DEF Covered
    <3> QED
      BY <3>2, <3>3
  <2>3. CASE Commit
    BY <2>3, CommitCovered
  <2>4. CASE AddFree
    BY <2>4, AddFreeCovered
  <2>5. CASE Refuse \/ ReadHeader \/ \E r \in Requests : LoadFree(r)
    BY <2>1, <2>5 DEF Refuse, ReadHeader, LoadFree
  <2>6. CASE UNCHANGED vars
    BY <2>1, <2>6 DEF vars
  <2> QED
    BY <2>2, <2>3, <2>4, <2>5, <2>6 DEF Next, Producer, Consumer
<1> QED
  BY <1>1, <1>2, InductiveInvariant, PTL DEF Spec

\* No byte nearer than the one that std::align returns is aligned.
LEMMA PadIsLeast ==
  ASSUME NEW x \in Nat, NEW z \in Nat, NEW a \in Nat \ {0}, x <= z, (Base + z) % a = 0
  PROVE  x + Pad(x, a) <= z
<1> DEFINE X == Base + x
           Z == Base + z
           q == X \div a
           m == X % a
           k == Z \div a
<1>1. X \in Nat /\ Z \in Nat /\ X <= Z /\ Z % a = 0 /\ Z - X = z - x
  BY SizeAssumption
<1>2. Pad(x, a) = (a - m) % a
  BY DEF Pad
<1> HIDE DEF X, Z
<1>3. X = a * q + m /\ m \in 0..(a - 1) /\ q \in Nat
  BY <1>1
<1>4. Z = a * k /\ k \in Nat
  BY <1>1
<1> HIDE DEF q, m, k
<1>5. CASE m = 0
  <2>1. a % a = 0 /\ (a - 0) % a = 0
    OBVIOUS
  <2>2. Pad(x, a) = 0
    BY <1>2, <1>5, <2>1
  <2> QED
    BY <2>2
<1>6. CASE m # 0
  <2>1. a - m \in 1..(a - 1)
    BY <1>3, <1>6
  <2>2. Pad(x, a) = a - m
    BY <1>2, <2>1
  <2>3. k >= q + 1
    <3> SUFFICES ASSUME k <= q PROVE FALSE
      BY <1>3, <1>4
    <3>1. a * k <= a * q
      BY <1>3, <1>4
    <3>2. a * k \in Nat /\ a * q \in Nat
      BY <1>3, <1>4
    <3> QED
      BY <1>1, <1>3, <1>4, <1>6, <3>1, <3>2
  <2>4. a * (q + 1) <= a * k /\ a * (q + 1) = a * q + a /\ a * q \in Nat
    BY <1>3, <1>4, <2>3
  <2>5. X + (a - m) <= Z
    BY <1>1, <1>3, <1>4, <2>4
  <2> QED
    BY <1>1, <1>3, <2>2, <2>5
<1> QED
  BY <1>3, <1>5, <1>6

\* A byte of a block is one that the block owns.
LEMMA WithinOwned ==
  ASSUME NEW b \in Block, NEW y \in 0..(Size - 1), Within(y, b.start, b.used)
  PROVE  y \in Owned(b)
<1> DEFINE k == IF y >= b.start THEN y - b.start ELSE y + Size - b.start
<1>1. b.start \in 0..(Size - 1) /\ b.used \in 1..Size
  BY DEF Block
<1>2. k \in 0..(b.used - 1)
  BY <1>1, SizeAssumption DEF Within
<1>3. (b.start + k) % Size = y
  <2>1. b.start + k \in 0..(2 * Size - 1) /\ Wrap(b.start + k) = y
    BY <1>1, SizeAssumption DEF Wrap
  <2> QED
    BY <2>1, ModIsWrap
<1> QED
  BY <1>2, <1>3 DEF Owned

\* A place that ends with a free byte and does not lie across tail_ is one that
\* allocate finds, or a nearer one.
LEMMA FoundIfFree ==
  ASSUME TypeOK, NEW r \in Requests, NEW at \in H..(Size - r.size),
         (Base + at) % r.alignment = 0,
         tail \notin (at - H + 1)..(at + r.size - 1),
         Within(at + r.size - 1, tail, free)
  PROVE  FitsAtTail(r, tail, free) \/ FitsAtBegin(r, tail, free)
<1> DEFINE a == r.alignment
           n == r.size
<1>1. /\ n \in Nat \ {0} /\ a \in Nat \ {0} /\ at \in Nat /\ at >= H /\ at + n <= Size
      /\ tail \in 0..(Size - 1) /\ free \in 0..Size /\ H \in Nat \ {0} /\ Size \in Nat \ {0}
  BY RequestsAssumption, SizeAssumption DEF TypeOK
<1>2. tail <= at - H \/ tail >= at + n
  BY <1>1
<1>3. Split(tail, free) = IF tail + free > Size THEN <<Size - tail, tail + free - Size>> ELSE <<free, 0>>
  BY <1>1, SplitRuns
<1>4. ASSUME NEW x \in Nat, x + H <= at PROVE Placed(r, x) <= at /\ Placed(r, x) \in Nat
  <2>1. x + H \in Nat
    BY <1>1, <1>4
  <2>2. x + H + Pad(x + H, a) <= at /\ Pad(x + H, a) \in 0..(a - 1)
    BY <1>1, <1>4, <2>1, PadIsLeast, PadRange
  <2> QED
    BY <1>1, <2>1, <2>2 DEF Placed
<1>5. CASE tail <= at - H
  <2>1. at + n - 1 < tail + free
    BY <1>1, <1>5 DEF Within
  <2>2. at + n <= tail + Split(tail, free)[1] /\ Split(tail, free)[1] \in Nat
    BY <1>1, <1>3, <2>1
  <2>3. tail + H <= at /\ tail \in Nat
    BY <1>1, <1>5
  <2>4. Placed(r, tail) <= at /\ Placed(r, tail) \in Nat
    BY <1>4, <2>3
  <2>5. H + n <= Split(tail, free)[1] /\ Placed(r, tail) + n <= tail + Split(tail, free)[1]
    BY <1>1, <2>2, <2>3, <2>4
  <2> QED
    BY <2>5 DEF FitsAtTail, Fits
<1>6. CASE tail >= at + n
  <2>1. at + n - 1 + Size < tail + free
    BY <1>1, <1>6 DEF Within
  <2>2. at + n <= Split(tail, free)[2] /\ Split(tail, free)[2] \in Nat
    BY <1>1, <1>3, <2>1
  <2>3. Placed(r, 0) <= at /\ Placed(r, 0) \in Nat
    BY <1>1, <1>4
  <2>4. H + n <= Split(tail, free)[2] /\ Placed(r, 0) + n <= 0 + Split(tail, free)[2]
    BY <1>1, <2>2, <2>3
  <2> QED
    BY <2>4 DEF FitsAtBegin, Fits
<1> QED
  BY <1>2, <1>5, <1>6

\* allocate refuses only what has no place on either side of tail_, for every
\* buffer and every history of requests (lines 76-82).
THEOREM Justified == Spec => []RefusalJustified
<1>1. IInv /\ Covered => RefusalJustified
  <2> DEFINE owned == UNION {Owned(blocks[i]) : i \in 1..Len(blocks)}
  <2> SUFFICES ASSUME IInv, Covered, NEW r \in Requests,
                      ~FitsAtTail(r, tail, free), ~FitsAtBegin(r, tail, free),
                      NEW at \in H..(Size - r.size), (Base + at) % r.alignment = 0,
                      tail \notin (at - H + 1)..(at + r.size - 1)
               PROVE  ((at - H)..(at + r.size - 1)) \cap owned # {}
    BY DEF RefusalJustified
  <2>1. ~Within(at + r.size - 1, tail, free)
    BY FoundIfFree DEF IInv
  <2>2. /\ at + r.size - 1 \in 0..(Size - 1)
        /\ at + r.size - 1 \in (at - H)..(at + r.size - 1)
    BY RequestsAssumption, SizeAssumption
  <2>3. PICK i \in 1..Len(blocks) : Within(at + r.size - 1, blocks[i].start, blocks[i].used)
    BY <2>1, <2>2 DEF Covered
  <2>4. at + r.size - 1 \in Owned(blocks[i])
    BY <2>2, <2>3, BlockAt, WithinOwned DEF IInv
  <2> QED
    BY <2>2, <2>4
<1> QED
  BY <1>1, CoveredInv, InductiveInvariant, PTL
===============================================================================
