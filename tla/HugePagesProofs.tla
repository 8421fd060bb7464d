--------------------------- MODULE HugePagesProofs ---------------------------
(***************************************************************************)
(* Proofs about HugePages for every size_t, every page size, every sequence*)
(* of calls and every answer of the system.  The inductive invariant says  *)
(* what an attempt knows of the call it belongs to; all properties follow. *)
(***************************************************************************)
EXTENDS HugePages, TLAPS

\* A size that is rounded down to whole blocks is no more than it was.
LEMMA RoundedDown ==
  ASSUME NEW x \in Nat, NEW b \in Nat \ {0}
  PROVE  /\ x \div b \in Nat
         /\ (x \div b) * b \in 0..x
         /\ x < (x \div b) * b + b
         /\ x < b => (x \div b) * b = 0
         /\ ((x \div b) * b) % b = 0
<1> DEFINE q == x \div b
<1>1. q \in Nat /\ x = b * q + (x % b) /\ x % b \in 0..(b - 1)
  BY SMT
<1>2. b * q \in Nat /\ q * b = b * q
  BY <1>1, SMT
<1>3. x < b => q = 0
  BY SMT
<1>4. (q * b) % b = 0
  BY <1>1, SMT
<1> HIDE DEF q
<1>5. q * b \in 0..x /\ x < q * b + b
  BY <1>1, <1>2, SMT
<1>6. x < b => q * b = 0
  BY <1>3, SMT
<1> QED BY <1>1, <1>4, <1>5, <1>6 DEF q

\* size_t has at least one value.
LEMMA ModulusPositive == Modulus \in Nat \ {0}
BY SizesAssumption, SMT DEF Modulus, SizeT

\* Rounding up stays within size_t; unless it wraps around to nothing it makes
\* room for the size and for less than a block more (memory.hpp 9).
LEMMA RoundedUp ==
  ASSUME NEW s \in SizeT, NEW b \in SizeT \ {0}
  PROVE  /\ Rounded(s, b) \in SizeT
         /\ Rounded(s, b) % b = 0
         /\ Rounded(s, b) > 0 => Rounded(s, b) >= s /\ Rounded(s, b) < s + b
<1> DEFINE M == Modulus
           x == (s + b - 1) % M
           r == (x \div b) * b
<1>1. M \in Nat \ {0} /\ s \in 0..(M - 1) /\ b \in 1..(M - 1)
  BY ModulusPositive, SMT DEF SizeT
<1>2. Rounded(s, b) = r
  BY DEF Rounded
<1> HIDE DEF M
<1>3. x \in 0..(M - 1) /\ (x = s + b - 1 \/ x = s + b - 1 - M)
  BY <1>1, SMT
<1> HIDE DEF x
<1>4. x \in Nat /\ b \in Nat \ {0}
  BY <1>1, <1>3, SMT
<1>5. r \in 0..x /\ x < r + b /\ (x < b => r = 0) /\ r % b = 0
  BY <1>4, RoundedDown
<1> HIDE DEF r
<1>6. r \in 0..(M - 1)
  BY <1>1, <1>3, <1>5, SMT
<1>7. r > 0 => r >= s /\ r < s + b
  BY <1>1, <1>3, <1>5, SMT
<1> QED BY <1>2, <1>5, <1>6, <1>7 DEF M, SizeT

\* Whole blocks are not rounded, and do not wrap around, if size_t is a number of
\* blocks.
LEMMA RoundedTwice ==
  ASSUME NEW s \in SizeT, NEW b \in SizeT \ {0}, s % b = 0, Modulus % b = 0
  PROVE  Rounded(s, b) = s
<1> DEFINE M == Modulus
           i == s \div b
           j == M \div b
<1>1. M \in Nat \ {0} /\ s \in 0..(M - 1) /\ b \in 1..(M - 1)
  BY ModulusPositive, SMT DEF SizeT
<1>2. s % b = 0 /\ M % b = 0
  OBVIOUS
<1>3. Rounded(s, b) = (((s + b - 1) % M) \div b) * b
  BY DEF Rounded
<1> HIDE DEF M
<1>4. i \in Nat /\ j \in Nat /\ s = b * i /\ M = b * j
  BY <1>1, <1>2, SMT
<1> HIDE DEF i, j
<1>5. i + 1 <= j
  BY <1>1, <1>4, SMT
<1>6. b * (i + 1) <= b * j
  BY <1>1, <1>4, <1>5, SMT
<1>7. b * (i + 1) = b * i + b
  BY <1>1, <1>4, SMT
<1>8. s + b <= M
  BY <1>1, <1>4, <1>6, <1>7, SMT
<1>9. (s + b - 1) % M = s + b - 1
  BY <1>1, <1>8, SMT
<1>10. (s + b - 1) \div b = i
  BY <1>1, <1>4, SMT
<1>11. i * b = s
  BY <1>1, <1>4, SMT
<1> QED BY <1>3, <1>9, <1>10, <1>11

-------------------------------------------------------------------------------
\* While a call waits for the system, the parameters are still those of the call
\* but for the page size, and the attempt is for them.
AttemptForCall ==
  step = "attempt" =>
    /\ attempt.kind \in AllocationType
    /\ attempt.size = Rounded(params.size, PageOf(attempt.kind))
    /\ params.page_size = PageOf(attempt.kind)
    /\ params.size = asked.size
    /\ params.type = asked.type
    /\ asked.type = Huge => attempt.kind = Huge

IInv ==
  /\ TypeOK
  /\ AttemptForCall
  /\ StrictIsHonoured
  /\ RelaxedTriesMemory
  /\ RegionFitsRequest
  /\ ParamsDescribeRegion
  /\ RefusalKeepsRequest

LEMMA Pages == Page \in SizeT \ {0} /\ LargePage \in SizeT \ {0}
BY SizesAssumption

LEMMA PageOfKind ==
  ASSUME NEW kind \in AllocationType
  PROVE  PageOf(kind) \in SizeT \ {0} /\ Modulus % PageOf(kind) = 0
BY SizesAssumption DEF PageOf

LEMMA InitInv == Init => IInv
<1> SUFFICES ASSUME Init PROVE IInv
  OBVIOUS
<1>1. 0 \in SizeT
  BY ModulusPositive, SMT DEF SizeT
<1>2. Sizes \subseteq SizeT
  BY SizesAssumption
<1>3. params \in Params
  BY <1>2 DEF Init, Params
<1>4. TypeOK
  BY <1>1, <1>3 DEF Init, TypeOK, NoAttempt, NoRegion
<1> QED BY <1>4 DEF Init, IInv, AttemptForCall, StrictIsHonoured, RelaxedTriesMemory,
             RegionFitsRequest, ParamsDescribeRegion, RefusalKeepsRequest, Got, Returned

\* One step for each action; where the call does not return, the properties of
\* what it returned say nothing.
LEMMA NextInv == IInv /\ [Next]_vars => IInv'
<1> SUFFICES ASSUME IInv, [Next]_vars PROVE IInv'
  OBVIOUS
<1> USE DEF AllocationType, Huge, Memory
<1> DEFINE Properties == /\ StrictIsHonoured /\ RelaxedTriesMemory /\ RegionFitsRequest
                         /\ ParamsDescribeRegion /\ RefusalKeepsRequest
<1>0. TypeOK /\ AttemptForCall
  BY DEF IInv
<1>1. step' # "returned" => Properties'
  BY DEF StrictIsHonoured, RelaxedTriesMemory, RegionFitsRequest, ParamsDescribeRegion,
         RefusalKeepsRequest, Got, Returned
<1>2. ASSUME NEW size \in Sizes, NEW type \in AllocationType, Prepare(size, type) PROVE IInv'
  <2>1. size \in SizeT
    BY SizesAssumption
  <2>2. TypeOK'
    BY <1>0, <1>2, <2>1 DEF Prepare, TypeOK, Params
  <2>3. AttemptForCall' /\ step' # "returned"
    BY <1>2 DEF Prepare, AttemptForCall
  <2> QED BY <1>1, <2>2, <2>3 DEF IInv
<1>3. ASSUME NEW allowed \in {"yes", "no"}, Call(allowed) PROVE IInv'
  <2>1. /\ params.size \in SizeT /\ params.type \in AllocationType
        /\ asked' = params /\ params \in Params
    BY <1>0, <1>3 DEF Call, TypeOK, Params
  <2>2. largeAllowed' \in {Unknown, "yes", "no"}
    BY <1>3 DEF Call, Resolve
  <2>3. CASE allowed = "no" /\ params.type = Huge
    <3>1. /\ step' = "returned" /\ region' = NoRegion /\ attempt' = NoAttempt
          /\ params' = [params EXCEPT !.page_size = 0]
      BY <1>3, <2>3 DEF Call
    <3>2. params' \in Params /\ params'.size = asked'.size /\ params'.type = asked'.type
      BY <2>1, <3>1 DEF Params
    <3>3. TypeOK'
      BY <2>1, <2>2, <3>1, <3>2 DEF TypeOK
    <3>4. Properties'
      BY <2>1, <2>3, <3>1, <3>2 DEF StrictIsHonoured, RelaxedTriesMemory, RegionFitsRequest,
         ParamsDescribeRegion, RefusalKeepsRequest, Got, Returned
    <3>5. AttemptForCall'
      BY <3>1 DEF AttemptForCall
    <3> QED BY <3>3, <3>4, <3>5 DEF IInv
  <2>4. CASE ~(allowed = "no" /\ params.type = Huge)
    <3> DEFINE kind == IF allowed = "no" THEN Memory ELSE Huge
               page == IF allowed = "no" THEN Page ELSE LargePage
    <3>1. /\ step' = "attempt" /\ region' = region
          /\ params' = [params EXCEPT !.page_size = page]
          /\ attempt' = [kind |-> kind, size |-> Rounded(params.size, page)]
      BY <1>3, <2>4 DEF Call
    <3>2. kind \in AllocationType /\ page = PageOf(kind) /\ page \in SizeT \ {0}
          /\ page \in {Page, LargePage}
      BY Pages DEF PageOf
    <3>3. Rounded(params.size, page) \in SizeT
      BY <2>1, <3>2, RoundedUp
    <3>4. params.type = Huge => kind = Huge
      BY <2>4
    <3> HIDE DEF kind, page
    <3>5. /\ params' \in Params /\ params'.size = params.size /\ params'.type = params.type
          /\ params'.page_size = page
      BY <2>1, <3>1, <3>2 DEF Params
    <3>6. attempt'.kind = kind /\ attempt'.size = Rounded(params.size, page)
      BY <3>1
    <3>7. TypeOK'
      BY <1>0, <2>1, <2>2, <3>1, <3>2, <3>3, <3>5 DEF TypeOK
    <3>8. AttemptForCall'
      BY <2>1, <3>2, <3>4, <3>5, <3>6 DEF AttemptForCall
    <3> QED BY <1>1, <3>1, <3>7, <3>8 DEF IInv
  <2> QED BY <2>3, <2>4
<1>4. CASE Succeed
  <2>1. /\ step = "attempt" /\ attempt.size > 0
        /\ params' = [params EXCEPT !.size = attempt.size, !.type = attempt.kind]
        /\ region' = attempt /\ step' = "returned"
        /\ largeAllowed' = largeAllowed /\ asked' = asked /\ attempt' = attempt
    BY <1>4 DEF Succeed
  <2> DEFINE page == PageOf(attempt.kind)
  <2>2. /\ attempt.kind \in AllocationType /\ attempt.size = Rounded(params.size, page)
        /\ params.page_size = page /\ params.size = asked.size
        /\ asked.type = Huge => attempt.kind = Huge
    BY <1>0, <2>1 DEF AttemptForCall
  <2>3. page \in SizeT \ {0} /\ Modulus % page = 0
    BY <2>2, PageOfKind
  <2>4. params.size \in SizeT /\ params \in Params
    BY <1>0 DEF TypeOK, Params
  <2>5. /\ attempt.size \in SizeT /\ attempt.size % page = 0
        /\ attempt.size >= params.size /\ attempt.size < params.size + page
    <3> HIDE DEF page
    <3> QED BY <2>1, <2>2, <2>3, <2>4, RoundedUp
  <2>6. Rounded(attempt.size, page) = attempt.size
    <3> HIDE DEF page
    <3> QED BY <2>3, <2>5, RoundedTwice
  <2>7. /\ params' \in Params /\ params'.size = attempt.size /\ params'.type = attempt.kind
        /\ params'.page_size = page
    <3> HIDE DEF page
    <3> QED BY <2>1, <2>2, <2>4, <2>5 DEF Params
  <2>8. attempt # NoRegion
    BY <2>2 DEF NoRegion
  <2>9. attempt \in [kind : AllocationType, size : SizeT]
    BY <1>0, <2>8 DEF TypeOK, NoAttempt
  <2>10. TypeOK'
    BY <1>0, <2>1, <2>7, <2>9 DEF TypeOK
  <2>11. StrictIsHonoured' /\ RelaxedTriesMemory' /\ RefusalKeepsRequest'
    BY <2>1, <2>2, <2>8 DEF StrictIsHonoured, RelaxedTriesMemory, RefusalKeepsRequest, Got, Returned
  <2>12. RegionFitsRequest'
    BY <2>1, <2>2, <2>5 DEF RegionFitsRequest, Got
  <2>13. ParamsDescribeRegion'
    BY <2>1, <2>6, <2>7 DEF ParamsDescribeRegion, Got
  <2>14. AttemptForCall'
    BY <2>1 DEF AttemptForCall
  <2> QED BY <2>10, <2>11, <2>12, <2>13, <2>14 DEF IInv
<1>5. CASE FallBack
  <2>1. /\ step = "attempt" /\ step' = "attempt" /\ attempt.kind = Huge /\ params.type # Huge
        /\ params' = [params EXCEPT !.page_size = Page]
        /\ attempt' = [kind |-> Memory, size |-> Rounded(params.size, Page)]
        /\ largeAllowed' = largeAllowed /\ asked' = asked /\ region' = region
    BY <1>5 DEF FallBack, FallsBack
  <2>2. params.size = asked.size /\ params.type = asked.type
    BY <1>0, <2>1 DEF AttemptForCall
  <2>3. params.size \in SizeT /\ params \in Params
    BY <1>0 DEF TypeOK, Params
  <2>4. Rounded(params.size, Page) \in SizeT
    BY <2>3, Pages, RoundedUp
  <2>5. PageOf(Memory) = Page
    BY DEF PageOf
  <2>6. /\ params' \in Params /\ params'.size = params.size /\ params'.type = params.type
        /\ params'.page_size = Page
    BY <2>1, <2>3 DEF Params
  <2>7. TypeOK'
    BY <1>0, <2>1, <2>4, <2>6 DEF TypeOK
  <2>8. AttemptForCall'
    BY <2>1, <2>2, <2>5, <2>6 DEF AttemptForCall
  <2> QED BY <1>1, <2>1, <2>7, <2>8 DEF IInv
<1>6. CASE Fail
  <2>1. /\ step = "attempt" /\ step' = "returned" /\ region' = NoRegion
        /\ ~(attempt.kind = Huge /\ params.type # Huge)
        /\ largeAllowed' = largeAllowed /\ params' = params /\ asked' = asked
        /\ attempt' = attempt
    BY <1>6 DEF Fail, FallsBack
  <2>2. /\ attempt.kind \in AllocationType
        /\ params.size = asked.size /\ params.type = asked.type
    BY <1>0, <2>1 DEF AttemptForCall
  <2>3. TypeOK'
    BY <1>0, <2>1 DEF TypeOK
  <2>4. Properties'
    BY <2>1, <2>2 DEF StrictIsHonoured, RelaxedTriesMemory, RegionFitsRequest,
       ParamsDescribeRegion, RefusalKeepsRequest, Got, Returned
  <2>5. AttemptForCall'
    BY <2>1 DEF AttemptForCall
  <2> QED BY <2>3, <2>4, <2>5 DEF IInv
<1>7. CASE UNCHANGED vars
  BY <1>7 DEF vars, IInv, TypeOK, AttemptForCall, StrictIsHonoured, RelaxedTriesMemory,
     RegionFitsRequest, ParamsDescribeRegion, RefusalKeepsRequest, Got, Returned
<1> QED BY <1>2, <1>3, <1>4, <1>5, <1>6, <1>7 DEF Next

LEMMA InductiveInvariant == Spec => []IInv
<1> QED BY InitInv, NextInv, PTL DEF Spec

-------------------------------------------------------------------------------
\* Sizes never leave size_t, and the parameters that the caller passes again are
\* of their type whatever the calls before did to them.
THEOREM TypeCorrect == Spec => []TypeOK
<1>1. IInv => TypeOK
  BY DEF IInv
<1> QED BY <1>1, InductiveInvariant, PTL

\* A strict request gets large pages or nothing, and a relaxed one gives up only
\* after ordinary memory was refused (lines 59-82 of huge_pages.cpp).
THEOREM StrictAndRelaxed == Spec => []KindAsAsked
<1>1. IInv => KindAsAsked
  BY DEF IInv, KindAsAsked
<1> QED BY <1>1, InductiveInvariant, PTL

\* A region has room for the request even where rounding up may wrap around.
THEOREM Fits == Spec => []RegionFitsRequest
<1>1. IInv => RegionFitsRequest
  BY DEF IInv
<1> QED BY <1>1, InductiveInvariant, PTL

\* After a success the parameters are those of the region; after a failure they
\* are still those of the request (lines 83-86 of huge_pages.cpp).
THEOREM ParamsAreTrue == Spec => []ParamsTrue
<1>1. IInv => ParamsTrue
  BY DEF IInv, ParamsTrue
<1> QED BY <1>1, InductiveInvariant, PTL
===============================================================================
