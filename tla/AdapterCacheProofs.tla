-------------------------- MODULE AdapterCacheProofs --------------------------
(***************************************************************************)
(* Proofs about SizedQueries, NicAddresses and AdapterCache, for any       *)
(* threads, types, sizes of the data and changes of it.                    *)
(*                                                                         *)
(* First the calls of the system: one that has asked more than once has a  *)
(* witness for each time, a moment at which the data was larger than       *)
(* before.  Then the static, in the form that AdapterCache takes it from   *)
(* NicAddresses.  The composition implements both, so that it has the      *)
(* invariants of both; together they show that only whole answers of the   *)
(* system get into the static.  That calls end stays with TLC.             *)
(***************************************************************************)
EXTENDS AdapterCache, TLAPS

-------------------------------------------------------------------------------
(* The calls of the system. *)

\* The data had grown at each of the moments is[1], is[2] ... is[n] of a call.
Grew(is, n) ==
  /\ is \in [1..n -> begun..Now]
  /\ n > 0 => sizes[is[1]] > Initial[query]
  /\ \A i, j \in 1..n : i < j => is[i] < is[j] /\ sizes[is[i]] < sizes[is[j]]

\* What the next call offers is the size of the last of these moments; there are
\* no more of them than moments.
OffersLast(is, n) ==
  IF n = 0 THEN offered = Initial[query]
           ELSE offered = sizes[is[n]] /\ n <= is[n] - begun + 1

CallsSoFar ==
  CASE query = "adapters" -> calls < Retries
    [] query = "processors" -> TRUE
    [] query \in {"cpus", "thread"} -> calls <= 1

Asks ==
  status = "asking" => CallsSoFar /\ \E is : Grew(is, calls) /\ OffersLast(is, calls)

QueryInv ==
  /\ TypeOK
  /\ buffer = Allocated(query, offered)
  /\ Asks
  /\ ReturnsOneMoment
  /\ GivesUpOnlyIfGrowing

-------------------------------------------------------------------------------
\* make_buffer rounds up to whole elements (nic_addresses.cpp 4-5).
LEMMA AllocatedIsEnough ==
  ASSUME NEW q \in Query, NEW s \in Nat
  PROVE  Allocated(q, s) \in Nat /\ s <= Allocated(q, s)
<1> DEFINE e == Element
           x == s + e - 1
           k == x \div e
<1>1. e \in Nat \ {0} /\ x \in Nat /\ x = s + e - 1
  BY InitialAssumption, SMT
<1>2. Allocated(q, s) = IF q = "adapters" THEN k * e ELSE s
  BY DEF Allocated
<1> HIDE DEF e, x
<1>3. k \in Nat /\ x = e * k + (x % e) /\ x % e \in 0..(e - 1)
  BY <1>1, SMT
<1> HIDE DEF k
<1>4. k * e \in Nat /\ e * k = k * e
  BY <1>1, <1>3, SMT
<1>5. s <= k * e
  <2> DEFINE y == k * e
             r == x % e
  <2>1. y \in Nat /\ r \in 0..(e - 1) /\ s + e - 1 = y + r
    BY <1>1, <1>3, <1>4
  <2> HIDE DEF y, r
  <2>2. s <= y
    BY <1>1, <2>1, SMT
  <2> QED BY <2>2 DEF y
<1> QED BY <1>2, <1>4, <1>5

\* The data has a size at each moment.
LEMMA SizeAt ==
  ASSUME TypeOK
  PROVE  /\ Now \in Nat /\ begun \in 1..Now /\ Needed \in Nat
         /\ \A i \in 1..Now : sizes[i] \in Nat
         /\ Initial[query] \in Nat
<1>1. sizes \in Seq(Sizes) /\ Len(sizes) \in 1..MaxData /\ Sizes \subseteq Nat /\ MaxData \in Nat
  BY InitialAssumption DEF TypeOK
<1>2. Len(sizes) \in Nat /\ \A i \in 1..Len(sizes) : sizes[i] \in Sizes
  BY <1>1
<1>3. \A i \in 1..Now : sizes[i] \in Nat
  BY <1>1, <1>2 DEF Now
<1>4. Now \in 1..Now
  BY <1>1, <1>2 DEF Now
<1>5. Initial[query] \in Nat
  BY InitialAssumption DEF TypeOK
<1>6. begun \in 1..Now
  BY DEF TypeOK, Now
<1>7. Needed \in Nat
  BY <1>3, <1>4 DEF Needed
<1> QED BY <1>2, <1>3, <1>5, <1>6, <1>7 DEF Now

\* One more moment, the present one, at which the data was larger than what was
\* offered.
LEMMA OneMore ==
  ASSUME TypeOK, Needed > offered,
         NEW is, Grew(is, calls), OffersLast(is, calls)
  PROVE  \E js : /\ Grew(js, calls + 1)
                 /\ js[calls + 1] = Now /\ calls + 1 <= Now - begun + 1
<1> DEFINE n == calls
           js == [i \in 1..(n + 1) |-> IF i = n + 1 THEN Now ELSE is[i]]
<1>1. /\ n \in Nat /\ offered \in Nat /\ Now \in Nat /\ begun \in 1..Now /\ Needed \in Nat
      /\ \A i \in 1..Now : sizes[i] \in Nat
      /\ Initial[query] \in Nat
      /\ Needed = sizes[Now] /\ Needed > offered
  <2>1. calls \in Nat
    BY SizeAt DEF TypeOK, Now
  <2> QED BY <2>1, SizeAt DEF TypeOK, Needed
<1>2. /\ is \in [1..n -> begun..Now]
      /\ n > 0 => sizes[is[1]] > Initial[query]
      /\ \A i, j \in 1..n : i < j => is[i] < is[j] /\ sizes[is[i]] < sizes[is[j]]
  BY DEF Grew
<1>3. IF n = 0 THEN offered = Initial[query]
               ELSE offered = sizes[is[n]] /\ n <= is[n] - begun + 1
  BY DEF OffersLast
<1> HIDE DEF n
<1>4. \A i \in 1..n : is[i] \in begun..Now /\ is[i] \in 1..Now /\ sizes[is[i]] \in Nat
  BY <1>1, <1>2
<1>5. \A i \in 1..n : is[i] < Now /\ sizes[is[i]] < sizes[Now]
  <2> SUFFICES ASSUME NEW i \in 1..n PROVE is[i] < Now /\ sizes[is[i]] < sizes[Now]
    OBVIOUS
  <2>1. n > 0 /\ n \in 1..n
    BY <1>1
  <2>2. sizes[is[n]] < sizes[Now]
    BY <1>1, <1>3, <2>1
  <2>3. sizes[is[i]] <= sizes[is[n]]
    BY <1>1, <1>2, <1>4, <2>1
  <2>4. sizes[is[i]] < sizes[Now]
    BY <1>1, <1>4, <2>1, <2>2, <2>3
  <2>5. is[i] # Now
    BY <1>1, <1>4, <2>4
  <2> QED BY <1>1, <1>4, <2>4, <2>5
<1>6. js \in [1..(n + 1) -> begun..Now]
  <2> SUFFICES ASSUME NEW i \in 1..(n + 1)
               PROVE  (IF i = n + 1 THEN Now ELSE is[i]) \in begun..Now
    OBVIOUS
  <2>1. CASE i = n + 1
    BY <1>1, <2>1
  <2>2. CASE i # n + 1
    <3>1. i \in 1..n
      BY <1>1, <2>2
    <3> QED BY <1>4, <2>2, <3>1
  <2> QED BY <2>1, <2>2
<1>7. js[n + 1] = Now /\ \A i \in 1..n : js[i] = is[i]
  BY <1>1
<1>8. sizes[js[1]] > Initial[query]
  <2>1. CASE n = 0
    BY <1>1, <1>3, <1>7, <2>1
  <2>2. CASE n > 0
    <3>1. 1 \in 1..n
      BY <1>1, <2>2
    <3> QED BY <1>2, <1>7, <2>2, <3>1
  <2> QED BY <1>1, <2>1, <2>2
<1>9. \A i, j \in 1..(n + 1) : i < j => js[i] < js[j] /\ sizes[js[i]] < sizes[js[j]]
  <2> SUFFICES ASSUME NEW i \in 1..(n + 1), NEW j \in 1..(n + 1), i < j
               PROVE  js[i] < js[j] /\ sizes[js[i]] < sizes[js[j]]
    OBVIOUS
  <2>1. i \in 1..n /\ js[i] = is[i]
    BY <1>1, <1>7
  <2>2. CASE j = n + 1
    BY <1>5, <1>7, <2>1, <2>2
  <2>3. CASE j # n + 1
    <3>1. j \in 1..n
      BY <1>1, <2>3
    <3> QED BY <1>2, <1>7, <2>1, <3>1
  <2> QED BY <2>2, <2>3
<1>10. n + 1 <= Now - begun + 1
  <2>1. CASE n = 0
    BY <1>1, <2>1
  <2>2. CASE n > 0
    <3>1. n \in 1..n
      BY <1>1, <2>2
    <3>2. is[n] \in Nat /\ is[n] < Now /\ n <= is[n] - begun + 1
      BY <1>1, <1>3, <1>4, <1>5, <2>2, <3>1
    <3> QED BY <1>1, <3>2
  <2> QED BY <1>1, <2>1, <2>2
<1> HIDE DEF js
<1>11. n = calls
  BY DEF n
<1>12. Grew(js, calls + 1)
  BY <1>6, <1>8, <1>9, <1>11 DEF Grew
<1> QED BY <1>7, <1>10, <1>11, <1>12

-------------------------------------------------------------------------------
LEMMA InitQueryInv == Init => QueryInv
<1> SUFFICES ASSUME Init PROVE QueryInv
  OBVIOUS
<1>1. PICK n \in Sizes : sizes = <<n>>
  BY DEF Init
<1>2. sizes \in Seq(Sizes) /\ Len(sizes) = 1
  BY <1>1
<1>3. query \in Query /\ Initial[query] \in Nat
  BY InitialAssumption DEF Init
<1>4. buffer \in Nat /\ offered <= buffer
  BY <1>3, AllocatedIsEnough DEF Init
<1>5. TypeOK
  <2>1. result \in [data : 0..Len(sizes), read : Nat]
    BY <1>2 DEF Init, NoResult
  <2> QED BY <1>2, <1>3, <1>4, <2>1, InitialAssumption DEF Init, TypeOK
<1>6. ReturnsOneMoment /\ GivesUpOnlyIfGrowing /\ Asks
  BY <1>4 DEF Init, ReturnsOneMoment, GivesUpOnlyIfGrowing, Asks
<1> QED BY <1>5, <1>6 DEF Init, QueryInv

\* What get_thread_cpu_set offers after its first call is the size at some moment.
LEMMA SuccessInv == ASSUME QueryInv, Success PROVE QueryInv'
<1>0. TypeOK /\ Asks /\ ReturnsOneMoment /\ GivesUpOnlyIfGrowing
  BY DEF QueryInv
<1>1. /\ status = "asking" /\ status' = "got" /\ Needed <= offered
      /\ result' = [data |-> Now, read |-> ReadBy(Needed)]
      /\ calls' = calls + 1
      /\ UNCHANGED <<sizes, query, begun, offered, buffer>>
  BY DEF Success
<1>2. /\ Now \in Nat /\ begun \in 1..Now /\ Needed \in Nat /\ Needed = sizes[Now]
      /\ \A i \in 1..Now : sizes[i] \in Nat
      /\ Initial[query] \in Nat /\ offered \in Nat /\ buffer \in Nat /\ query \in Query
      /\ calls \in Nat
  <2>1. calls \in Nat
    BY <1>0, SizeAt DEF TypeOK, Now
  <2> QED BY <1>0, <2>1, SizeAt DEF TypeOK, Needed
<1>3. PICK is : Grew(is, calls) /\ OffersLast(is, calls)
  BY <1>0, <1>1 DEF Asks
<1>4. /\ is \in [1..calls -> begun..Now]
      /\ IF calls = 0 THEN offered = Initial[query]
                      ELSE offered = sizes[is[calls]] /\ calls <= is[calls] - begun + 1
  BY <1>3 DEF Grew, OffersLast
<1>5. calls > 0 => is[calls] \in begun..Now
  BY <1>2, <1>4
<1>6. calls + 1 <= 2 + Now - begun
  BY <1>2, <1>4, <1>5
<1>7. TypeOK'
  <2>1. calls' \in 0..(2 + Len(sizes') - begun')
    BY <1>1, <1>2, <1>6 DEF Now
  <2>2. result' \in [data : 0..Len(sizes'), read : Nat]
    BY <1>1, <1>2 DEF ReadBy, Now
  <2> QED BY <1>0, <1>1, <2>1, <2>2 DEF TypeOK
<1>8. /\ ReadBy(Needed) >= sizes[Now]
      /\ \/ ReadBy(Needed) = sizes[Now]
         \/ query = "thread" /\ \E i \in begun..Now : sizes[i] > sizes[Now]
  <2>1. CASE query # "thread"
    BY <1>2, <2>1 DEF ReadBy
  <2>2. CASE query = "thread"
    <3>1. ReadBy(Needed) = offered
      BY <2>2 DEF ReadBy, QueryInv, Allocated
    <3>2. CASE calls = 0
      <4>1. offered = 0
        BY <1>4, <2>2, <3>2, InitialAssumption
      <4> QED BY <1>1, <1>2, <3>1, <4>1
    <3>3. CASE calls > 0
      <4>1. is[calls] \in begun..Now /\ offered = sizes[is[calls]]
        BY <1>4, <1>5, <3>3, <1>2
      <4>2. is[calls] \in 1..Now /\ sizes[is[calls]] \in Nat
        BY <1>2, <4>1
      <4>3. CASE offered = sizes[Now]
        BY <1>2, <3>1, <4>3
      <4>4. CASE offered > sizes[Now]
        BY <1>1, <1>2, <2>2, <3>1, <4>1, <4>2, <4>4
      <4> QED BY <1>1, <1>2, <4>3, <4>4
    <3> QED BY <1>2, <3>2, <3>3
  <2> QED BY <2>1, <2>2
<1>9. ReturnsOneMoment'
  <2>1. Now' = Now /\ result'.data = Now /\ result'.read = ReadBy(Needed)
    BY <1>1 DEF Now
  <2>2. (offered <= buffer)'
    BY <1>0, <1>1 DEF ReturnsOneMoment
  <2>3. Now \in begun..Now
    BY <1>2
  <2> QED BY <1>1, <1>8, <2>1, <2>2, <2>3 DEF ReturnsOneMoment
<1>10. GivesUpOnlyIfGrowing' /\ Asks'
  BY <1>1 DEF GivesUpOnlyIfGrowing, Asks
<1>11. (buffer = Allocated(query, offered))'
  BY <1>1 DEF QueryInv, Allocated
<1> QED BY <1>7, <1>9, <1>10, <1>11 DEF QueryInv

\* An answer that the buffer was too small is one more moment at which the data had
\* grown, whether the function asks again or gives up.
LEMMA TooSmall ==
  ASSUME QueryInv, status = "asking", Needed > offered
  PROVE  \E is : /\ Grew(is, calls + 1)
                 /\ is[calls + 1] = Now /\ calls + 1 <= Now - begun + 1
<1>1. PICK is : Grew(is, calls) /\ OffersLast(is, calls)
  BY DEF QueryInv, Asks
<1> QED BY <1>1, OneMore DEF QueryInv

LEMMA RetryInv == ASSUME QueryInv, Retry PROVE QueryInv'
<1>0. TypeOK /\ Asks /\ ReturnsOneMoment /\ GivesUpOnlyIfGrowing
  BY DEF QueryInv
<1>1. /\ status = "asking" /\ Needed > offered /\ MayRetry
      /\ offered' = Needed /\ buffer' = Allocated(query, Needed)
      /\ calls' = calls + 1
      /\ UNCHANGED <<sizes, query, begun, status, result>>
      /\ Now' = Now
  BY DEF Retry, Now
<1>2. /\ Now \in Nat /\ begun \in 1..Now /\ Needed \in Nat /\ query \in Query /\ calls \in Nat
  <2>1. calls \in Nat
    BY <1>0, SizeAt DEF TypeOK, Now
  <2> QED BY <1>0, <2>1, SizeAt DEF TypeOK
<1>3. PICK is : /\ Grew(is, calls + 1)
               /\ is[calls + 1] = Now /\ calls + 1 <= Now - begun + 1
  BY <1>1, TooSmall
<1>4. buffer' \in Nat /\ offered' <= buffer'
  BY <1>1, <1>2, AllocatedIsEnough
<1>5. TypeOK'
  <2>1. calls' \in 0..(2 + Len(sizes') - begun')
    BY <1>1, <1>2, <1>3 DEF Now
  <2> QED BY <1>0, <1>1, <1>2, <1>4, <2>1 DEF TypeOK
<1>6. Asks'
  <2>1. CallsSoFar'
    <3>1. \/ query = "adapters" /\ calls + 1 < Retries
          \/ query = "processors"
          \/ query \in {"cpus", "thread"} /\ calls = 0
      BY <1>1, <1>2 DEF MayRetry, Query
    <3>2. calls + 1 <= 1 <=> calls = 0
      BY <1>2
    <3> QED BY <1>1, <1>2, <3>1, <3>2 DEF CallsSoFar
  <2>2. Grew(is, calls)'
    BY <1>1, <1>3 DEF Grew
  <2>3. OffersLast(is, calls)'
    <3>1. /\ calls' = calls + 1 /\ calls' # 0
          /\ sizes' = sizes /\ begun' = begun /\ offered' = sizes[Now]
      BY <1>1, <1>2 DEF Needed
    <3>2. is[calls'] = Now /\ calls' <= is[calls'] - begun + 1
      BY <1>3, <3>1
    <3> QED BY <3>1, <3>2 DEF OffersLast
  <2> QED BY <1>1, <2>1, <2>2, <2>3 DEF Asks
<1>7. ReturnsOneMoment' /\ GivesUpOnlyIfGrowing'
  BY <1>1, <1>4 DEF ReturnsOneMoment, GivesUpOnlyIfGrowing
<1>8. (buffer = Allocated(query, offered))'
  BY <1>1 DEF Allocated
<1> QED BY <1>5, <1>6, <1>7, <1>8 DEF QueryInv

LEMMA OverflowInv == ASSUME QueryInv, Overflow PROVE QueryInv'
<1>0. TypeOK /\ Asks /\ ReturnsOneMoment
  BY DEF QueryInv
<1>1. /\ status = "asking" /\ Needed > offered /\ ~MayRetry /\ status' = "overflow"
      /\ calls' = calls + 1
      /\ UNCHANGED <<sizes, query, begun, offered, buffer, result>>
      /\ Now' = Now
  BY DEF Overflow, Now
<1>2. /\ Now \in Nat /\ begun \in 1..Now /\ query \in Query /\ calls \in Nat
  <2>1. calls \in Nat
    BY <1>0, SizeAt DEF TypeOK, Now
  <2> QED BY <1>0, <2>1, SizeAt DEF TypeOK
<1>3. PICK is : /\ Grew(is, calls + 1)
               /\ is[calls + 1] = Now /\ calls + 1 <= Now - begun + 1
  BY <1>1, TooSmall
<1>4. TypeOK'
  <2>1. calls' \in 0..(2 + Len(sizes') - begun')
    BY <1>1, <1>2, <1>3 DEF Now
  <2> QED BY <1>0, <1>1, <2>1 DEF TypeOK
<1>5. calls + 1 = IF query = "adapters" THEN Retries ELSE 2
  <2>1. CallsSoFar
    BY <1>0, <1>1 DEF Asks
  <2>2. CASE query = "adapters"
    BY <1>1, <1>2, <2>1, <2>2, InitialAssumption DEF CallsSoFar, MayRetry
  <2>3. CASE query = "processors"
    BY <1>1, <2>3 DEF MayRetry
  <2>4. ASSUME query \in {"cpus", "thread"} PROVE calls = 1 /\ query # "adapters"
    <3>1. query # "adapters" /\ query # "processors"
      BY <2>4
    <3>2. calls <= 1
      BY <2>1, <2>4, <3>1 DEF CallsSoFar
    <3>3. calls # 0
      BY <1>1, <2>4, <3>1 DEF MayRetry
    <3> QED BY <1>2, <3>1, <3>2, <3>3
  <2> QED BY <1>2, <2>2, <2>3, <2>4 DEF Query
<1>6. GivesUpOnlyIfGrowing'
  <2>1. /\ is \in [1..(calls + 1) -> begun..Now]
        /\ sizes[is[1]] > Initial[query]
        /\ \A i, j \in 1..(calls + 1) : i < j => is[i] < is[j] /\ sizes[is[i]] < sizes[is[j]]
    BY <1>2, <1>3 DEF Grew
  <2> QED BY <1>1, <1>5, <2>1 DEF GivesUpOnlyIfGrowing
<1>7. ReturnsOneMoment' /\ Asks'
  BY <1>0, <1>1 DEF ReturnsOneMoment, Asks
<1>8. (buffer = Allocated(query, offered))'
  BY <1>1 DEF QueryInv, Allocated
<1> QED BY <1>4, <1>6, <1>7, <1>8 DEF QueryInv

LEMMA FailInv == ASSUME QueryInv, Fail \/ FailWithoutError PROVE QueryInv'
<1>0. TypeOK /\ Asks /\ ReturnsOneMoment
  BY DEF QueryInv
<1>1. /\ status = "asking" /\ status' \in {"error", "nothing"} /\ calls' = calls + 1
      /\ UNCHANGED <<sizes, query, begun, offered, buffer, result>>
  BY DEF Fail, FailWithoutError
<1>2. Now \in Nat /\ begun \in 1..Now /\ calls \in Nat
  <2>1. calls \in Nat
    BY <1>0, SizeAt DEF TypeOK, Now
  <2> QED BY <1>0, <2>1, SizeAt
<1>3. PICK is : Grew(is, calls) /\ OffersLast(is, calls)
  BY <1>0, <1>1 DEF Asks
<1>4. calls <= Now - begun + 1
  <2>1. CASE calls = 0
    BY <1>2, <2>1
  <2>2. CASE calls > 0
    <3>1. calls \in 1..calls /\ is \in [1..calls -> begun..Now]
      BY <1>2, <1>3, <2>2 DEF Grew
    <3>2. is[calls] \in begun..Now
      BY <3>1
    <3>3. calls <= is[calls] - begun + 1
      BY <1>2, <1>3, <2>2 DEF OffersLast
    <3> QED BY <1>2, <3>2, <3>3
  <2> QED BY <1>2, <2>1, <2>2
<1>5. TypeOK'
  <2>1. calls' \in 0..(2 + Len(sizes') - begun')
    BY <1>1, <1>2, <1>4 DEF Now
  <2> QED BY <1>0, <1>1, <2>1 DEF TypeOK
<1>6. ReturnsOneMoment' /\ GivesUpOnlyIfGrowing' /\ Asks'
  BY <1>0, <1>1 DEF ReturnsOneMoment, GivesUpOnlyIfGrowing, Asks
<1>7. (buffer = Allocated(query, offered))'
  BY <1>1 DEF QueryInv, Allocated
<1> QED BY <1>5, <1>6, <1>7 DEF QueryInv

LEMMA CallInv == ASSUME QueryInv, NEW q \in Query, Call(q) PROVE QueryInv'
<1>0. TypeOK
  BY DEF QueryInv
<1>1. /\ query' = q /\ begun' = Now /\ offered' = Initial[q] /\ buffer' = Allocated(q, Initial[q])
      /\ calls' = 0 /\ status' = "asking" /\ result' = NoResult /\ sizes' = sizes /\ Now' = Now
  BY DEF Call, Now
<1>2. Now \in Nat /\ Now \in 1..Now
  BY <1>0, SizeAt
<1>3. Initial[q] \in Nat /\ buffer' \in Nat /\ offered' <= buffer'
  BY <1>1, AllocatedIsEnough, InitialAssumption
<1>4. TypeOK'
  <2>1. calls' \in 0..(2 + Len(sizes') - begun') /\ begun' \in 1..Len(sizes')
    BY <1>1, <1>2 DEF Now
  <2>2. result' \in [data : 0..Len(sizes'), read : Nat]
    BY <1>1, <1>2 DEF NoResult, Now
  <2> QED BY <1>0, <1>1, <1>3, <2>1, <2>2 DEF TypeOK
<1>5. Asks'
  <2>1. CallsSoFar'
    <3>1. 0 < Retries /\ 0 <= 1
      BY InitialAssumption
    <3>2. \/ query' = "adapters" \/ query' = "processors"
          \/ query' = "cpus" \/ query' = "thread"
      BY <1>1 DEF Query
    <3> QED BY <1>1, <3>1, <3>2 DEF CallsSoFar
  <2>2. Grew(<< >>, 0)'
    <3>1. << >> \in [1..0 -> begun'..Now']
      OBVIOUS
    <3> QED BY <3>1 DEF Grew
  <2>3. OffersLast(<< >>, 0)'
    BY <1>1 DEF OffersLast
  <2>4. Grew(<< >>, calls)' /\ OffersLast(<< >>, calls)'
    BY <1>1, <2>2, <2>3
  <2> QED BY <2>1, <2>4 DEF Asks
<1>6. ReturnsOneMoment' /\ GivesUpOnlyIfGrowing'
  BY <1>1, <1>3 DEF ReturnsOneMoment, GivesUpOnlyIfGrowing
<1>7. (buffer = Allocated(query, offered))'
  BY <1>1 DEF Allocated
<1> QED BY <1>4, <1>5, <1>6, <1>7 DEF QueryInv

\* A change comes after all moments there were.
LEMMA ChangeInv == ASSUME QueryInv, NEW n \in Sizes, Change(n) PROVE QueryInv'
<1>0. TypeOK /\ Asks /\ ReturnsOneMoment /\ GivesUpOnlyIfGrowing
  BY DEF QueryInv
<1>1. /\ sizes' = Append(sizes, n) /\ Now < MaxData
      /\ UNCHANGED <<query, begun, offered, buffer, calls, status, result>>
  BY DEF Change
<1>2. /\ Now \in Nat /\ begun \in 1..Now /\ calls \in Nat /\ MaxData \in Nat
      /\ \A i \in 1..Now : sizes[i] \in Nat
  <2>1. calls \in Nat
    BY <1>0, SizeAt DEF TypeOK, Now
  <2> QED BY <1>0, <2>1, SizeAt, InitialAssumption
<1>3. sizes' \in Seq(Sizes) /\ Len(sizes') = Len(sizes) + 1 /\ \A i \in 1..Now : sizes'[i] = sizes[i]
  BY <1>0, <1>1 DEF TypeOK, Now
<1>4. Now' = Now + 1
  BY <1>3 DEF Now
<1>5. TypeOK'
  <2>1. Len(sizes') \in 1..MaxData /\ begun' \in 1..Len(sizes')
    BY <1>1, <1>2, <1>3 DEF Now
  <2>2. calls' \in 0..(2 + Len(sizes') - begun')
    BY <1>0, <1>1, <1>2, <1>3 DEF TypeOK, Now
  <2>3. result' \in [data : 0..Len(sizes'), read : Nat]
    <3>1. 0..Len(sizes) \subseteq 0..Len(sizes')
      BY <1>2, <1>3 DEF Now
    <3> QED BY <1>0, <1>1, <3>1 DEF TypeOK
  <2> QED BY <1>0, <1>1, <1>3, <2>1, <2>2, <2>3 DEF TypeOK
\* Moments stay what they were.
<1>6. \A i \in begun..Now : i \in begun'..Now' /\ sizes'[i] = sizes[i]
  <2>1. \A i \in begun..Now : i \in 1..Now /\ i \in begun..(Now + 1)
    BY <1>2
  <2> QED BY <1>1, <1>3, <1>4, <2>1
<1>7. Asks'
  <2> SUFFICES ASSUME status' = "asking"
               PROVE  CallsSoFar' /\ \E is : Grew(is, calls)' /\ OffersLast(is, calls)'
    BY DEF Asks
  <2>1. PICK is : Grew(is, calls) /\ OffersLast(is, calls)
    BY <1>0, <1>1 DEF Asks
  <2>2. CallsSoFar'
    BY <1>0, <1>1 DEF Asks, CallsSoFar
  <2>3. \A i \in 1..calls : is[i] \in begun..Now
    BY <2>1 DEF Grew
  <2>4. \A i \in 1..calls : is[i] \in begun'..Now' /\ sizes'[is[i]] = sizes[is[i]]
    BY <1>6, <2>3
  <2>5. is \in [1..calls -> begun'..Now']
    BY <2>1, <2>4 DEF Grew
  <2>6. Grew(is, calls)'
    <3>1. calls > 0 => 1 \in 1..calls
      BY <1>2
    <3>2. calls > 0 => sizes'[is[1]] > Initial[query]
      BY <2>1, <2>4, <3>1 DEF Grew
    <3>3. \A i, j \in 1..calls : i < j => is[i] < is[j] /\ sizes'[is[i]] < sizes'[is[j]]
      BY <2>1, <2>4 DEF Grew
    <3> QED BY <1>1, <2>5, <3>2, <3>3 DEF Grew
  <2>7. OffersLast(is, calls)'
    <3>1. calls # 0 => calls \in 1..calls
      BY <1>2
    <3> QED BY <1>1, <2>1, <2>4, <3>1 DEF OffersLast
  <2> QED BY <2>2, <2>6, <2>7
<1>8. ReturnsOneMoment'
  <2>1. (offered <= buffer)'
    BY <1>0, <1>1 DEF ReturnsOneMoment
  <2> SUFFICES ASSUME status' = "got"
               PROVE  /\ result.data \in begun..Now'
                      /\ result.read >= sizes'[result.data]
                      /\ \/ result.read = sizes'[result.data]
                         \/ query = "thread" /\ \E i \in begun..result.data : sizes'[i] > sizes'[result.data]
    BY <1>1, <2>1 DEF ReturnsOneMoment
  <2>2. /\ result.data \in begun..Now
        /\ result.read >= sizes[result.data]
        /\ \/ result.read = sizes[result.data]
           \/ query = "thread" /\ \E i \in begun..result.data : sizes[i] > sizes[result.data]
    BY <1>0, <1>1 DEF ReturnsOneMoment
  <2>3. sizes'[result.data] = sizes[result.data] /\ result.data \in begun..Now'
    BY <1>1, <1>6, <2>2
  <2>4. \A i \in begun..result.data : sizes'[i] = sizes[i]
    BY <1>2, <1>6, <2>2
  <2> QED BY <2>2, <2>3, <2>4
<1>9. GivesUpOnlyIfGrowing'
  <2> SUFFICES ASSUME status' = "overflow"
               PROVE  /\ calls = IF query = "adapters" THEN Retries ELSE 2
                      /\ \E is \in [1..calls -> begun..Now'] :
                           /\ sizes'[is[1]] > Initial[query]
                           /\ \A i, j \in 1..calls : i < j => is[i] < is[j] /\ sizes'[is[i]] < sizes'[is[j]]
    BY <1>1 DEF GivesUpOnlyIfGrowing
  <2>1. calls = IF query = "adapters" THEN Retries ELSE 2
    BY <1>0, <1>1 DEF GivesUpOnlyIfGrowing
  <2>2. PICK is \in [1..calls -> begun..Now] :
          /\ sizes[is[1]] > Initial[query]
          /\ \A i, j \in 1..calls : i < j => is[i] < is[j] /\ sizes[is[i]] < sizes[is[j]]
    BY <1>0, <1>1 DEF GivesUpOnlyIfGrowing
  <2>3. 1 \in 1..calls
    BY <1>2, <2>1, InitialAssumption
  <2>4. \A i \in 1..calls : is[i] \in begun..Now' /\ sizes'[is[i]] = sizes[is[i]]
    BY <1>1, <1>6
  <2>5. is \in [1..calls -> begun..Now']
    BY <2>4
  <2>6. sizes'[is[1]] > Initial[query]
    BY <2>2, <2>3, <2>4
  <2>7. \A i, j \in 1..calls : i < j => is[i] < is[j] /\ sizes'[is[i]] < sizes'[is[j]]
    BY <2>2, <2>4
  <2> QED BY <2>1, <2>5, <2>6, <2>7
<1>10. (buffer = Allocated(query, offered))'
  BY <1>1 DEF QueryInv, Allocated
<1> QED BY <1>5, <1>7, <1>8, <1>9, <1>10 DEF QueryInv

LEMMA NextQueryInv == QueryInv /\ [Next]_vars => QueryInv'
<1> SUFFICES ASSUME QueryInv, [Next]_vars PROVE QueryInv'
  OBVIOUS
<1>1. CASE Asking
  BY <1>1, SuccessInv, RetryInv, OverflowInv DEF Asking
<1>2. CASE UNCHANGED vars
  <2>1. UNCHANGED <<sizes, query, begun, offered, buffer, calls, status, result>> /\ Now' = Now
    BY <1>2 DEF vars, Now
  <2>2. TypeOK' /\ (buffer = Allocated(query, offered))'
    BY <2>1 DEF QueryInv, TypeOK, Allocated
  <2>3. Asks'
    BY <2>1 DEF QueryInv, Asks, CallsSoFar, Grew, OffersLast
  <2>4. ReturnsOneMoment' /\ GivesUpOnlyIfGrowing'
    BY <2>1 DEF QueryInv, ReturnsOneMoment, GivesUpOnlyIfGrowing
  <2> QED BY <2>2, <2>3, <2>4 DEF QueryInv
<1> QED BY <1>1, <1>2, FailInv, CallInv, ChangeInv DEF Next

\* Whenever a function asks the system again, the data has grown past each of the
\* sizes it was told before (the loops of the five functions).
THEOREM QueryInvariant == Spec => []QueryInv
<1> QED BY InitQueryInv, NextQueryInv, PTL DEF Spec

-------------------------------------------------------------------------------
\* Sizes, calls and results stay of their types: no call goes to the system more
\* than twice, and once more for each change of the data meanwhile.
THEOREM TypeCorrect == Spec => []TypeOK
<1>1. QueryInv => TypeOK
  BY DEF QueryInv
<1> QED BY <1>1, QueryInvariant, PTL

\* What a function returns is the data of one moment during its call, and never
\* longer than its buffer, but for the ids of get_thread_cpu_set.
THEOREM OneMoment == Spec => []ReturnsOneMoment
<1>1. QueryInv => ReturnsOneMoment
  BY DEF QueryInv
<1> QED BY <1>1, QueryInvariant, PTL

\* A function that gives up for the size was overtaken by data that grew each time
\* (lines 18 of nic_addresses.cpp, 184 of sysinfo.cpp, 98 of thread.cpp).
THEOREM OvertakenByGrowth == Spec => []GivesUpOnlyIfGrowing
<1>1. QueryInv => GivesUpOnlyIfGrowing
  BY DEF QueryInv
<1> QED BY <1>1, QueryInvariant, PTL

-------------------------------------------------------------------------------
(* The static. *)

\* The thread that fills the static has it to itself, and there is none once it
\* is filled; every answer came out of the static as it is.
FillerAlone ==
  \A t \in Threads : step[t] = "filling" =>
    ~adapters.filled /\ \A u \in Threads : step[u] = "filling" => u = t

AnswersFromStatic ==
  \A a \in answers : adapters.filled /\ a[2] = N!Found(a[1])

StaticInv == N!TypeOK /\ FillerAlone /\ AnswersFromStatic

\* A filled static has a type and addresses.
LEMMA FilledHas ==
  ASSUME N!TypeOK, adapters.filled
  PROVE  adapters.type \in Types /\ adapters.addresses \in (1..MaxData)
<1>1. N!NoCache.filled = FALSE
  BY DEF N!NoCache
<1>2. adapters # N!NoCache
  <2> SUFFICES ASSUME adapters = N!NoCache PROVE FALSE
    OBVIOUS
  <2> QED BY <1>1
<1>3. adapters \in [filled : {TRUE}, type : Types, addresses : (1..MaxData)]
  BY <1>2 DEF N!TypeOK, N!Cache
<1> QED BY <1>3

LEMMA InitStaticInv == N!Init => StaticInv
<1> SUFFICES ASSUME N!Init PROVE StaticInv
  OBVIOUS
<1>1. N!TypeOK
  BY DEF N!Init, N!TypeOK, N!Cache
<1> QED BY <1>1 DEF N!Init, StaticInv, FillerAlone, AnswersFromStatic

\* Only Filled writes the static, and only when no answer was given yet.
LEMMA NextStaticInv == StaticInv /\ [N!Next]_(N!vars) => StaticInv'
<1> SUFFICES ASSUME StaticInv, [N!Next]_(N!vars) PROVE StaticInv'
  OBVIOUS
<1>0. N!TypeOK /\ FillerAlone /\ AnswersFromStatic
  BY DEF StaticInv
<1>1. ASSUME NEW t \in Threads, N!Fill(t) PROVE StaticInv'
  <2>1. N!TypeOK'
    BY <1>0, <1>1 DEF N!Fill, N!TypeOK
  <2>2. FillerAlone'
    BY <1>0, <1>1 DEF N!Fill, FillerAlone, N!TypeOK
  <2>3. AnswersFromStatic'
    BY <1>0, <1>1 DEF N!Fill, AnswersFromStatic, N!Found
  <2> QED BY <2>1, <2>2, <2>3 DEF StaticInv
<1>2. ASSUME NEW t \in Threads, N!Filled(t) PROVE StaticInv'
  <2>1. N!TypeOK'
    BY <1>0, <1>2 DEF N!Filled, N!TypeOK, N!Cache
  <2>2. answers = {}
    BY <1>0, <1>2 DEF N!Filled, FillerAlone, AnswersFromStatic
  <2>3. FillerAlone'
    BY <1>0, <1>2, <2>2 DEF N!Filled, FillerAlone, N!TypeOK
  <2>4. AnswersFromStatic'
    BY <1>2, <2>2 DEF N!Filled, AnswersFromStatic
  <2> QED BY <2>1, <2>3, <2>4 DEF StaticInv
<1>3. ASSUME NEW t \in Threads, N!FillThrows(t) PROVE StaticInv'
  <2>1. N!TypeOK'
    BY <1>0, <1>3 DEF N!FillThrows, N!TypeOK
  <2>2. FillerAlone'
    BY <1>0, <1>3 DEF N!FillThrows, FillerAlone, N!TypeOK
  <2>3. AnswersFromStatic'
    BY <1>0, <1>3 DEF N!FillThrows, AnswersFromStatic, N!Found
  <2> QED BY <2>1, <2>2, <2>3 DEF StaticInv
<1>4. ASSUME NEW t \in Threads, N!Return(t) PROVE StaticInv'
  <2>1. adapters.type \in Types /\ adapters.addresses \in (1..MaxData)
    BY <1>0, <1>4, FilledHas DEF N!Return
  <2>2. N!Found(asked[t]) \in {{n} : n \in (1..MaxData)} \cup {{}}
    BY <2>1 DEF N!Found
  <2>3. N!TypeOK'
    BY <1>0, <1>4, <2>2 DEF N!Return, N!TypeOK
  <2>4. FillerAlone'
    BY <1>0, <1>4 DEF N!Return, FillerAlone, N!TypeOK
  <2>5. AnswersFromStatic'
    <3>1. /\ answers' = answers \cup {<<asked[t], N!Found(asked[t])>>}
          /\ adapters' = adapters /\ adapters.filled
      BY <1>4 DEF N!Return
    <3>2. \A type : N!Found(type)' = N!Found(type)
      BY <3>1 DEF N!Found
    <3> SUFFICES ASSUME NEW a \in answers' PROVE adapters.filled /\ a[2] = N!Found(a[1])
      BY <3>1, <3>2 DEF AnswersFromStatic, N!Found
    <3>3. CASE a \in answers
      BY <1>0, <3>3 DEF AnswersFromStatic
    <3>4. CASE a = <<asked[t], N!Found(asked[t])>>
      BY <3>1, <3>4
    <3> QED BY <3>1, <3>3, <3>4
  <2> QED BY <2>3, <2>4, <2>5 DEF StaticInv
<1>5. ASSUME NEW t \in Threads, NEW type \in Types, N!Call(t, type) PROVE StaticInv'
  <2>1. N!TypeOK'
    BY <1>0, <1>5 DEF N!Call, N!TypeOK
  <2>2. FillerAlone'
    BY <1>0, <1>5 DEF N!Call, FillerAlone, N!TypeOK
  <2>3. AnswersFromStatic'
    BY <1>0, <1>5 DEF N!Call, AnswersFromStatic, N!Found
  <2> QED BY <2>1, <2>2, <2>3 DEF StaticInv
<1>6. CASE N!Change
  BY <1>0, <1>6 DEF N!Change, StaticInv, N!TypeOK, FillerAlone, AnswersFromStatic, N!Found
<1>7. CASE UNCHANGED N!vars
  BY <1>0, <1>7 DEF N!vars, StaticInv, N!TypeOK, FillerAlone, AnswersFromStatic, N!Found
<1> QED BY <1>1, <1>2, <1>3, <1>4, <1>5, <1>6, <1>7 DEF N!Next, N!Running

\* All threads get the same answer to the same question, which came out of the
\* static.
LEMMA StaticAgrees == StaticInv => AnswersAgree
<1> SUFFICES ASSUME StaticInv, NEW a \in answers, NEW b \in answers,
                    a[1] = b[1] \/ (a[2] # {} /\ b[2] # {})
             PROVE  a = b
  BY DEF AnswersAgree, N!AnswersAgree
<1>1. a[2] = N!Found(a[1]) /\ b[2] = N!Found(b[1])
  BY DEF StaticInv, AnswersFromStatic
<1>2. a[1] = b[1]
  BY <1>1 DEF N!Found
<1>3. a[2] = b[2]
  BY <1>1, <1>2
<1>4. a = <<a[1], a[2]>> /\ b = <<b[1], b[2]>>
  BY DEF StaticInv, N!TypeOK
<1> QED BY <1>2, <1>3, <1>4

-------------------------------------------------------------------------------
(* The composition implements both of its parts. *)

\* Each thread that fills the static makes one call of get_adapters_addresses, and
\* what the threads do otherwise is nothing that the system sees.
LEMMA StepOfQuery == [CacheNext]_allVars => [Next]_vars
<1> SUFFICES ASSUME CacheNext PROVE Next \/ UNCHANGED vars
  BY DEF allVars, vars
<1>1. ASSUME NEW t \in Threads, Fill(t) PROVE Next
  BY <1>1 DEF Fill, Next, Query
<1>2. ASSUME NEW t \in Threads, Filled(t) \/ GivesUp(t) \/ FillFails(t) PROVE Next
  BY <1>2 DEF Filled, GivesUp, FillFails, Next, Asking
<1>3. CASE AskAgain
  BY <1>3 DEF AskAgain, Next, Asking
<1>4. ASSUME NEW n \in Sizes, ChangeAdapters(n) PROVE Next
  BY <1>4 DEF ChangeAdapters, Next
<1>5. ASSUME NEW t \in Threads, Return(t) \/ \E type \in Types : CallStatic(t, type)
      PROVE  UNCHANGED vars
  BY <1>5 DEF Return, CallStatic
<1> QED BY <1>1, <1>2, <1>3, <1>4, <1>5 DEF CacheNext, Running

\* While the static is filled the system is asked as by the five functions
\* (lines 7-21 of nic_addresses.cpp), whatever the threads do.
THEOREM QueryImplemented == CacheSpec => Spec
<1>1. CacheInit => Init
  BY DEF CacheInit
<1> QED BY <1>1, StepOfQuery, PTL DEF CacheSpec, Spec

\* A change of the data is one of the addresses; another call of the system is
\* nothing that the threads see.
LEMMA StepOfStatic == TypeOK /\ [CacheNext]_allVars => [N!Next]_(N!vars)
<1> SUFFICES ASSUME TypeOK, CacheNext PROVE N!Next \/ UNCHANGED N!vars
  BY DEF allVars, cacheVars, vars, N!vars, Now
<1>1. ASSUME NEW t \in Threads, Fill(t) PROVE N!Fill(t)
  BY <1>1 DEF Fill
<1>2. ASSUME NEW t \in Threads, Filled(t) PROVE N!Filled(t)
  BY <1>2 DEF Filled, N!Filled, Success, Now
<1>3. ASSUME NEW t \in Threads, GivesUp(t) \/ FillFails(t) PROVE N!FillThrows(t)
  BY <1>3 DEF GivesUp, FillFails
<1>4. CASE AskAgain
  BY <1>4 DEF AskAgain, Retry, cacheVars, N!vars, Now
<1>5. ASSUME NEW n \in Sizes, ChangeAdapters(n) PROVE N!Change
  <2>1. /\ sizes' = Append(sizes, n) /\ Len(sizes) < MaxData
        /\ UNCHANGED <<adapters, asked, step, answers, failures>>
    BY <1>5 DEF ChangeAdapters, Change, Now, cacheVars
  <2>2. Len(sizes) \in Nat /\ Len(sizes') = Len(sizes) + 1
    BY <2>1 DEF TypeOK
  <2>3. Len(sizes') \in (1..MaxData) \ {Len(sizes)}
    BY <2>1, <2>2, InitialAssumption
  <2> QED BY <2>1, <2>3 DEF N!Change, Now
<1>6. ASSUME NEW t \in Threads, Return(t) PROVE N!Return(t)
  BY <1>6 DEF Return
<1>7. ASSUME NEW t \in Threads, NEW type \in Types, CallStatic(t, type) PROVE N!Call(t, type)
  BY <1>7 DEF CallStatic
<1> QED BY <1>1, <1>2, <1>3, <1>4, <1>5, <1>6, <1>7 DEF CacheNext, Running, N!Next, N!Running

\* What takes several calls of the system, and any number of changes meanwhile, is
\* one step of the static (line 76 of nic_addresses.hpp).
THEOREM StaticImplemented == CacheSpec => ImplementsStatic
<1>1. CacheInit => N!Init
  BY DEF CacheInit
<1>2. CacheSpec => []TypeOK
  BY QueryImplemented, TypeCorrect, PTL
<1> QED BY <1>1, <1>2, StepOfStatic, PTL DEF CacheSpec, ImplementsStatic, N!Spec

LEMMA StaticInvariant == CacheSpec => []StaticInv
<1>1. N!Spec => []StaticInv
  BY InitStaticInv, NextStaticInv, PTL DEF N!Spec
<1> QED BY <1>1, StaticImplemented, PTL DEF ImplementsStatic

\* The threads, the static and the answers stay of their types, and so do the
\* calls that fill it.
THEOREM CacheTypeCorrect == CacheSpec => []CacheTypeOK
<1>1. StaticInv => N!TypeOK
  BY DEF StaticInv
<1>2. CacheSpec => []TypeOK
  BY QueryImplemented, TypeCorrect, PTL
<1>3. TypeOK /\ N!TypeOK => CacheTypeOK
  BY DEF CacheTypeOK
<1> QED BY <1>1, <1>2, <1>3, StaticInvariant, PTL

\* All threads get the same answers, through all the calls of the system it takes,
\* and only one type is ever answered with addresses (lines 76-81 of
\* nic_addresses.hpp).
THEOREM Agreement == CacheSpec => []AnswersAgree
<1> QED BY StaticAgrees, StaticInvariant, PTL

-------------------------------------------------------------------------------
(* What is in the static. *)

\* The only query is the one that fills the static, and it is not made again once
\* that is filled.
OneFill ==
  /\ query = "adapters"
  /\ \A t \in Threads : step[t] = "filling" => ~adapters.filled /\ status = "asking"
  /\ adapters.filled => adapters.addresses \in 1..Len(sizes)

CacheInv == OneFill /\ CachedWhole

LEMMA InitCacheInv == CacheInit => CacheInv
<1> SUFFICES ASSUME CacheInit PROVE CacheInv
  OBVIOUS
<1>1. adapters.filled = FALSE
  BY DEF CacheInit, N!Init, N!NoCache
<1> QED BY <1>1 DEF CacheInit, Init, N!Init, CacheInv, OneFill, CachedWhole

\* get_adapters_addresses returns the data of this moment, all of it, which came
\* after the call began.
LEMMA FilledKeepsInv ==
  ASSUME QueryInv, StaticInv, CacheInv, NEW t \in Threads, Filled(t)
  PROVE  CacheInv'
<1>1. /\ status = "asking" /\ query = "adapters" /\ status' = "got"
      /\ Len(sizes) \in Nat /\ begun \in 1..Len(sizes)
      /\ sizes[Len(sizes)] \in Nat /\ sizes[Len(sizes)] <= offered
      /\ offered \in Nat /\ buffer \in Nat /\ offered <= buffer /\ calls \in Nat
  <2>1. sizes \in Seq(Sizes) /\ Len(sizes) \in 1..MaxData /\ Sizes \subseteq Nat
    BY InitialAssumption DEF QueryInv, TypeOK
  <2>2. sizes[Len(sizes)] \in Nat /\ Len(sizes) \in Nat
    <3>1. Len(sizes) \in Nat /\ Len(sizes) \in 1..Len(sizes)
      BY <2>1
    <3>2. \A i \in 1..Len(sizes) : sizes[i] \in Sizes
      BY <2>1
    <3> QED BY <2>1, <3>1, <3>2
  <2>3. calls \in Nat /\ offered \in Nat /\ buffer \in Nat /\ begun \in 1..Len(sizes)
    BY <2>2 DEF QueryInv, TypeOK
  <2> QED BY <2>2, <2>3 DEF Filled, Success, Needed, Now, CacheInv, OneFill, QueryInv, ReturnsOneMoment
<1>2. calls < Retries /\ Retries \in Nat
  BY <1>1, InitialAssumption DEF QueryInv, Asks, CallsSoFar
<1>3. /\ result' = [data |-> Len(sizes), read |-> sizes[Len(sizes)]]
      /\ adapters' = [filled |-> TRUE, type |-> asked[t], addresses |-> Len(sizes)]
      /\ calls' = calls + 1
      /\ step' = [step EXCEPT ![t] = "called"]
      /\ UNCHANGED <<sizes, query, begun, offered, buffer>>
  BY <1>1 DEF Filled, Success, Needed, Now, ReadBy
<1>4. \A u \in Threads : step'[u] # "filling"
  <2>1. step[t] = "filling"
    BY DEF Filled
  <2>2. \A u \in Threads : step[u] = "filling" => u = t
    BY <2>1 DEF StaticInv, FillerAlone
  <2>3. step \in [Threads -> {"out", "called", "filling", "returned", "thrown"}]
    BY DEF StaticInv, N!TypeOK
  <2> QED BY <1>3, <2>2, <2>3
<1>5. OneFill'
  BY <1>1, <1>3, <1>4 DEF OneFill
<1>6. CachedWhole'
  BY <1>1, <1>2, <1>3 DEF CachedWhole
<1> QED BY <1>5, <1>6 DEF CacheInv

\* A later change comes after the data in the static.
LEMMA AdaptersKeepInv ==
  ASSUME QueryInv, CacheInv, NEW n \in Sizes, ChangeAdapters(n)
  PROVE  CacheInv'
<1>1. /\ sizes' = Append(sizes, n) /\ sizes \in Seq(Sizes)
      /\ UNCHANGED <<adapters, step, query, begun, buffer, calls, status, result>>
  BY DEF ChangeAdapters, Change, cacheVars, QueryInv, TypeOK
<1>2. /\ Len(sizes) \in Nat /\ Len(sizes') = Len(sizes) + 1
      /\ \A i \in 1..Len(sizes) : sizes'[i] = sizes[i] /\ i \in 1..Len(sizes')
  BY <1>1
<1> QED BY <1>1, <1>2 DEF CacheInv, OneFill, CachedWhole

LEMMA NextCacheInv == QueryInv /\ StaticInv /\ CacheInv /\ [CacheNext]_allVars => CacheInv'
<1> SUFFICES ASSUME QueryInv, StaticInv, CacheInv, [CacheNext]_allVars PROVE CacheInv'
  OBVIOUS
<1>0. /\ step \in [Threads -> {"out", "called", "filling", "returned", "thrown"}]
      /\ \A t, u \in Threads : step[t] = "filling" /\ step[u] = "filling" => u = t
  BY DEF StaticInv, N!TypeOK, FillerAlone
<1>1. ASSUME NEW t \in Threads, Fill(t) PROVE CacheInv'
  <2>1. /\ ~adapters.filled /\ adapters' = adapters /\ query' = "adapters" /\ status' = "asking"
    BY <1>1 DEF Fill, N!Fill, Call
  <2> QED BY <2>1 DEF CacheInv, OneFill, CachedWhole
<1>2. ASSUME NEW t \in Threads, GivesUp(t) \/ FillFails(t) PROVE CacheInv'
  <2>1. /\ step[t] = "filling" /\ adapters' = adapters /\ query' = query
        /\ step' = [step EXCEPT ![t] = "thrown"]
    BY <1>2 DEF GivesUp, FillFails, N!FillThrows, Overflow, Fail
  <2>2. ~adapters.filled /\ \A u \in Threads : step'[u] # "filling"
    BY <1>0, <2>1 DEF CacheInv, OneFill
  <2> QED BY <2>1, <2>2 DEF CacheInv, OneFill, CachedWhole
<1>3. CASE AskAgain
  <2>1. /\ status = "asking" /\ UNCHANGED <<adapters, step, query, status>>
    BY <1>3 DEF AskAgain, Retry, cacheVars
  <2>2. ~adapters.filled
    BY <2>1 DEF CacheInv, CachedWhole
  <2> QED BY <2>1, <2>2 DEF CacheInv, OneFill, CachedWhole
<1>4. ASSUME NEW t \in Threads, Return(t) \/ \E type \in Types : CallStatic(t, type) PROVE CacheInv'
  <2>1. UNCHANGED vars /\ adapters' = adapters
    BY <1>4 DEF Return, CallStatic, N!Return, N!Call
  <2>2. \A u \in Threads : step'[u] = "filling" => step[u] = "filling"
    BY <1>0, <1>4 DEF Return, CallStatic, N!Return, N!Call
  <2> QED BY <2>1, <2>2 DEF CacheInv, OneFill, CachedWhole, vars
<1>5. CASE UNCHANGED allVars
  BY <1>5 DEF allVars, cacheVars, vars, CacheInv, OneFill, CachedWhole
<1> QED BY <1>1, <1>2, <1>3, <1>4, <1>5, FilledKeepsInv, AdaptersKeepInv DEF CacheNext, Running

\* The static has all of the data of one moment, and nothing of an attempt that
\* threw.
THEOREM Whole == CacheSpec => []CachedWhole
<1>1. CacheSpec => []CacheInv
  BY InitCacheInv, NextCacheInv, QueryInvariant, QueryImplemented, StaticInvariant, PTL DEF CacheSpec
<1>2. CacheInv => CachedWhole
  BY DEF CacheInv
<1> QED BY <1>1, <1>2, PTL
===============================================================================
