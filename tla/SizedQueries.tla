----------------------------- MODULE SizedQueries -----------------------------
(***************************************************************************)
(* The functions under utils/win that ask the system for data whose size   *)
(* they do not know: they offer a buffer, learn the size that was needed   *)
(* and ask again, while the data may change between two calls.             *)
(*   adapters    get_adapters_addresses, nic_addresses.cpp 7-21            *)
(*   processors  logical_processor_info, sysinfo.cpp 14-39                 *)
(*   cpus        cpus_info, sysinfo.cpp 174-188, and cpu_set_info,         *)
(*               experimental/sysinfo.hpp 51-62                            *)
(*   thread      get_thread_cpu_set, thread.cpp 71-100                     *)
(* Sizes are in bytes for the first three and in ids for the last.         *)
(***************************************************************************)
EXTENDS Naturals, Sequences

CONSTANTS
  Sizes,     \* the sizes that the data may have
  Initial,   \* the size that each function offers first
  Retries,   \* the calls that get_adapters_addresses makes at most, 3 by default
  Element,   \* its buffer consists of elements of this size
  MaxData    \* bound of the model: how often the data is different

Query == {"adapters", "processors", "cpus", "thread"}

ASSUME InitialAssumption ==
  /\ Sizes \subseteq Nat
  /\ Initial \in [Query -> Nat] /\ Initial["thread"] = 0
  /\ Retries \in Nat \ {0, 1}
  /\ Element \in Nat \ {0}
  /\ MaxData \in Nat \ {0}

NoResult == [data |-> 0, read |-> 0]

VARIABLES
  sizes,    \* the sizes of the data so far; the last is what it has now
  query,    \* the function that was called
  begun,    \* how often the data had changed then
  offered,  \* the size that the next call passes to the system
  buffer,   \* the size of the buffer it passes
  calls,    \* the calls made so far
  status,   \* "ready" before the first call, "asking", "got", "overflow" (thrown for the size), "error"
            \* or "nothing" (an empty result without an error)
  result    \* which data was returned, and how much of the buffer is read

vars == <<sizes, query, begun, offered, buffer, calls, status, result>>

TypeOK ==
  /\ sizes \in Seq(Sizes) /\ Len(sizes) \in 1..MaxData
  /\ query \in Query
  /\ begun \in 1..Len(sizes)
  /\ offered \in Nat
  /\ buffer \in Nat
  /\ calls \in 0..(2 + Len(sizes) - begun)   \* two, and one for each change
  /\ status \in {"ready", "asking", "got", "overflow", "error", "nothing"}
  /\ result \in [data : 0..Len(sizes), read : Nat]

-------------------------------------------------------------------------------
Now == Len(sizes)
Needed == sizes[Now]

\* make_buffer (nic_addresses.cpp 4-5) rounds up; the others count in bytes or ids.
Allocated(q, size) ==
  IF q = "adapters" THEN ((size + Element - 1) \div Element) * Element ELSE size

Init ==
  /\ sizes \in {<<n>> : n \in Sizes}
  /\ query \in Query
  /\ begun = 1
  /\ offered = Initial[query]
  /\ buffer = Allocated(query, offered)
  /\ calls = 0
  /\ status = "ready"
  /\ result = NoResult

\* get_adapters_addresses gives up as soon as the others.
MayRetry_Once == query = "processors" \/ calls = 0

\* After this many calls an insufficient buffer is an error.
MayRetry ==
  CASE query = "adapters" -> calls + 1 < Retries
    [] query = "processors" -> TRUE
    [] query \in {"cpus", "thread"} -> calls = 0

\* All of the buffer is read, as if the data had not become smaller.
ReadBy_WholeBuffer(needed) == buffer

\* How much of the buffer a function takes for data: adapters form a list, the
\* loops over processors and cpus stop at the size that the call returned, and
\* the ids of a thread are the whole vector (line 94 and 99).
ReadBy(needed) == IF query = "thread" THEN buffer ELSE needed

Success ==
  /\ status = "asking"
  /\ Needed <= offered
  /\ status' = "got"
  /\ result' = [data |-> Now, read |-> ReadBy(Needed)]
  /\ calls' = calls + 1
  /\ UNCHANGED <<sizes, query, begun, offered, buffer>>

\* The size that was needed is not passed on.
Retry_SameSize ==
  /\ status = "asking"
  /\ Needed > offered
  /\ MayRetry
  /\ calls' = IF query = "processors" THEN calls ELSE calls + 1
  /\ UNCHANGED <<sizes, query, begun, offered, buffer, status, result>>

\* ERROR_BUFFER_OVERFLOW or ERROR_INSUFFICIENT_BUFFER: the buffer gets the size
\* that the system named.
Retry ==
  /\ status = "asking"
  /\ Needed > offered
  /\ MayRetry
  /\ offered' = Needed
  /\ buffer' = Allocated(query, Needed)
  /\ calls' = calls + 1
  /\ UNCHANGED <<sizes, query, begun, status, result>>

Overflow ==
  /\ status = "asking"
  /\ Needed > offered
  /\ ~MayRetry
  /\ status' = "overflow"
  /\ calls' = calls + 1
  /\ UNCHANGED <<sizes, query, begun, offered, buffer, result>>

\* Any other error of the system.
Fail ==
  /\ status = "asking"
  /\ status' = "error"
  /\ calls' = calls + 1
  /\ UNCHANGED <<sizes, query, begun, offered, buffer, result>>

\* Lines 28-30 of sysinfo.cpp: the system fails and names no error.  An assertion
\* of debug builds; the others return no processors, as if there were none.
FailWithoutError ==
  /\ status = "asking" /\ query = "processors"
  /\ status' = "nothing"
  /\ calls' = calls + 1
  /\ UNCHANGED <<sizes, query, begun, offered, buffer, result>>

\* The next call of one of the functions, on the data as it is now.
Call(q) ==
  /\ status # "asking"
  /\ query' = q
  /\ begun' = Now
  /\ offered' = Initial[q]
  /\ buffer' = Allocated(q, Initial[q])
  /\ calls' = 0
  /\ status' = "asking"
  /\ result' = NoResult
  /\ UNCHANGED sizes

\* An adapter comes or goes, a cpu is set apart, another thread sets the cpus.
Change(n) ==
  /\ Now < MaxData
  /\ sizes' = Append(sizes, n)
  /\ UNCHANGED <<query, begun, offered, buffer, calls, status, result>>

Asking == Success \/ Retry \/ Overflow

Next == Asking \/ Fail \/ FailWithoutError \/ (\E q \in Query : Call(q)) \/ (\E n \in Sizes : Change(n))

Spec == Init /\ [][Next]_vars

\* A call is made by a running thread and the system answers it; nothing says
\* that it answers with another error.
FairSpec == Spec /\ WF_vars(Asking)

-------------------------------------------------------------------------------
\* The system is never told of more room than the buffer has, and what a function
\* returns is the data of one moment during its call, all of it and nothing else.
\* get_thread_cpu_set keeps this promise only if nobody selects fewer cpus between
\* its two calls: its vector is not cut to the number that the second call
\* returns (lines 94-99), and the ids left over are zeros.
ReturnsOneMoment ==
  /\ offered <= buffer
  /\ status = "got" =>
       /\ result.data \in begun..Now
       /\ result.read >= sizes[result.data]
       /\ \/ result.read = sizes[result.data]
          \/ query = "thread" /\ \E i \in begun..result.data : sizes[i] > sizes[result.data]

\* No function gives up for the size unless the data grew after each of its
\* calls but the last: one that is not disturbed succeeds, and
\* get_adapters_addresses bears being disturbed once more.
GivesUpOnlyIfGrowing ==
  status = "overflow" =>
    /\ calls = IF query = "adapters" THEN Retries ELSE 2
    /\ \E is \in [1..calls -> begun..Now] :
         /\ sizes[is[1]] > Initial[query]
         /\ \A i, j \in 1..calls : i < j => is[i] < is[j] /\ sizes[is[i]] < sizes[is[j]]

\* Every call returns or throws, also logical_processor_info, whose loop has no
\* limit: it goes round again only when the data grew.
CallEnds == status = "asking" ~> status # "asking"
================================================================================
