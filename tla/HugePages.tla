------------------------------- MODULE HugePages -------------------------------
(***************************************************************************)
(* utils/win/huge_pages.cpp: regions of large pages, with ordinary memory  *)
(* to fall back on.  A caller keeps an allocation_parameters, passes it by *)
(* reference to alloc_huge_region, which writes to it, and may pass it     *)
(* again.  What the system answers (the privilege for large pages,         *)
(* VirtualAllocEx) is a choice.  The NUMA node only goes through to        *)
(* VirtualAllocExNuma and is left out.                                     *)
(***************************************************************************)
EXTENDS Naturals

CONSTANTS
  Width,      \* size_t is Width bits wide
  Page,       \* what page_size() returns
  LargePage,  \* what GetLargePageMinimum() returns
  Sizes       \* the sizes that callers ask for

Modulus == 2^Width
SizeT == 0..(Modulus - 1)

ASSUME SizesAssumption ==
  /\ Width \in Nat
  /\ Page \in SizeT \ {0} /\ LargePage \in SizeT \ {0}
  /\ Modulus % Page = 0 /\ Modulus % LargePage = 0
  /\ Sizes \subseteq SizeT

\* allocation_type: strict and relaxed are other names of these two.
Huge == "huge_pages"
Memory == "memory"
AllocationType == {Huge, Memory}

Unknown == "unknown"   \* huge_page_size() was not called yet
NoRegion == [kind |-> "none", size |-> 0]
NoAttempt == NoRegion

VARIABLES
  largeAllowed,  \* what the static of huge_page_size() says about large pages
  params,        \* the allocation_parameters of the caller
  asked,         \* params as they were when the last call was made
  step,          \* "idle", "attempt", or "returned"
  attempt,       \* the kind and size the last call asked VirtualAllocEx for last
  region         \* what the last call returned

vars == <<largeAllowed, params, asked, step, attempt, region>>

Params == [type : AllocationType, size : SizeT, page_size : {0, Page, LargePage}]

TypeOK ==
  /\ largeAllowed \in {Unknown, "yes", "no"}
  /\ params \in Params
  /\ asked \in Params
  /\ step \in {"idle", "attempt", "returned"}
  /\ attempt \in {NoAttempt} \cup [kind : AllocationType, size : SizeT]
  /\ region \in {NoRegion} \cup [kind : AllocationType, size : SizeT]

-------------------------------------------------------------------------------
\* The last block is lost unless the size fills it.
Rounded_Down(size, block) == (size \div block) * block

\* Line 70 of huge_pages.cpp with size_in_blocks (memory.hpp 9); the sum may wrap.
Rounded(size, block) == (((size + block - 1) % Modulus) \div block) * block

\* Lines 37-40 with 11-33: the privilege is asked for once in a process.
Resolve(allowed) ==
  /\ largeAllowed = Unknown \/ allowed = largeAllowed
  /\ largeAllowed' = allowed

Init ==
  /\ largeAllowed = Unknown
  /\ \E size \in Sizes, type \in AllocationType :
       params = [type |-> type, size |-> size, page_size |-> 0]
  /\ asked = params
  /\ step = "idle"
  /\ attempt = NoAttempt
  /\ region = NoRegion

\* The caller fills in new parameters, or the overload of lines 90-93 does.
Prepare(size, type) ==
  /\ step # "attempt"
  /\ params' = [type |-> type, size |-> size, page_size |-> 0]
  /\ step' = "idle"
  /\ UNCHANGED <<largeAllowed, asked, attempt, region>>

\* Lines 55-70.
Call(allowed) ==
  /\ step # "attempt"
  /\ Resolve(allowed)
  /\ asked' = params
  /\ IF allowed = "no" /\ params.type = Huge
       THEN /\ step' = "returned"
            /\ params' = [params EXCEPT !.page_size = 0]
            /\ region' = NoRegion
            /\ attempt' = NoAttempt
       ELSE LET kind == IF allowed = "no" THEN Memory ELSE Huge
                page == IF allowed = "no" THEN Page ELSE LargePage
            IN  /\ step' = "attempt"
                /\ params' = [params EXCEPT !.page_size = page]
                /\ attempt' = [kind |-> kind, size |-> Rounded(params.size, page)]
                /\ UNCHANGED region

\* VirtualAllocEx gives memory (lines 71-73 or 79-81): lines 83-87.
Succeed ==
  /\ step = "attempt"
  /\ attempt.size > 0
  /\ params' = [params EXCEPT !.size = attempt.size, !.type = attempt.kind]
  /\ region' = attempt
  /\ step' = "returned"
  /\ UNCHANGED <<largeAllowed, asked, attempt>>

\* Strict requests fall back as well.
FallsBack_Always == attempt.kind = Huge

\* The condition of line 74.
FallsBack == attempt.kind = Huge /\ params.type # Huge

\* The parameters go on naming the large page.
FallBack_KeepsPage ==
  /\ step = "attempt"
  /\ FallsBack
  /\ attempt' = [kind |-> Memory, size |-> Rounded(params.size, Page)]
  /\ UNCHANGED <<largeAllowed, params, asked, step, region>>

\* VirtualAllocEx gives nothing: lines 74-82.
FallBack ==
  /\ step = "attempt"
  /\ FallsBack
  /\ params' = [params EXCEPT !.page_size = Page]
  /\ attempt' = [kind |-> Memory, size |-> Rounded(params.size, Page)]
  /\ UNCHANGED <<largeAllowed, asked, step, region>>

\* VirtualAllocEx gives nothing for the last time: line 83 and 87.
Fail ==
  /\ step = "attempt"
  /\ ~FallsBack
  /\ region' = NoRegion
  /\ step' = "returned"
  /\ UNCHANGED <<largeAllowed, params, asked, attempt>>

Next ==
  \/ \E size \in Sizes, type \in AllocationType : Prepare(size, type)
  \/ \E allowed \in {"yes", "no"} : Call(allowed)
  \/ Succeed \/ FallBack \/ Fail

Spec == Init /\ [][Next]_vars

-------------------------------------------------------------------------------
Returned == step = "returned"
Got == Returned /\ region # NoRegion
PageOf(kind) == IF kind = Huge THEN LargePage ELSE Page

\* A call that was made with strict parameters returns large pages or nothing
\* (lines 61 and 74), also when it was an earlier call that made them strict.
StrictIsHonoured == Got /\ asked.type = Huge => region.kind = Huge

\* A call that was made with relaxed parameters gives up only after ordinary
\* memory was tried and refused (lines 64-66 and 74-82).
RelaxedTriesMemory ==
  Returned /\ region = NoRegion /\ asked.type = Memory => attempt.kind = Memory

\* A strict request gets large pages or nothing, and a relaxed one fails only after
\* both kinds of pages were refused.
KindAsAsked == StrictIsHonoured /\ RelaxedTriesMemory

\* A region has room for what was asked even if rounding up wraps around, and
\* less than a page more, in pages of its own kind (lines 70 and 78).
RegionFitsRequest ==
  Got => LET page == PageOf(region.kind)
         IN  /\ region.size >= asked.size
             /\ region.size < asked.size + page
             /\ region.size % page = 0

\* The parameters that a successful call leaves behind are those of the region,
\* so that a second call with them asks for the same size again.
ParamsDescribeRegion ==
  Got => /\ params.size = region.size
         /\ params.type = region.kind
         /\ params.page_size = PageOf(region.kind)
         /\ Rounded(params.size, params.page_size) = params.size

\* A call that returns nothing leaves the request as it was: the caller may
\* relax it, or wait, and call again (lines 83-86).
RefusalKeepsRequest ==
  Returned /\ region = NoRegion => params.size = asked.size /\ params.type = asked.type

\* The parameters are true when a call returns, whatever the calls before made of
\* them: those of the region that it returns, or else those of the request.
ParamsTrue == ParamsDescribeRegion /\ RefusalKeepsRequest
===============================================================================
