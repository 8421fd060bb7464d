----------------------------- MODULE AdapterCache -----------------------------
(***************************************************************************)
(* get_nic_addresses with the call that fills its static, which            *)
(* NicAddresses takes for one step: get_adapters_addresses of SizedQueries *)
(* asks the system again and again while adapters come and go and other    *)
(* threads call and wait.  The module composes the two and shows that the  *)
(* static is still what NicAddresses says it is.                           *)
(***************************************************************************)
EXTENDS SizedQueries

CONSTANTS
  Threads, Types,   \* those of NicAddresses
  MaxErrors         \* bound of the model: how often the system answers with an error

ASSUME CacheAssumption == MaxErrors \in Nat

VARIABLES adapters, asked, step, answers, failures   \* those of NicAddresses

cacheVars == <<adapters, asked, step, answers, failures>>
allVars == <<cacheVars, vars>>

\* Addresses are known by the number of the change that brought them; giving up
\* for the size takes a change each time.
N == INSTANCE NicAddresses
       WITH addresses <- Now, Snapshots <- 1..MaxData, MaxFailures <- MaxErrors + MaxData

CacheTypeOK == TypeOK /\ N!TypeOK

CacheInit == Init /\ N!Init /\ query = "adapters"

-------------------------------------------------------------------------------
CallStatic(t, type) == UNCHANGED vars /\ N!Call(t, type)

\* Line 76 of nic_addresses.hpp: the initialization of the static begins.
Fill(t) == Call("adapters") /\ N!Fill(t)

\* The loop begins with the same size each time and has no limit.
AskAgain_SameSize == status = "asking" /\ Needed > offered /\ UNCHANGED allVars

\* Lines 9-17 of nic_addresses.cpp: once more around the loop.
AskAgain == Retry /\ UNCHANGED cacheVars

\* The static gets what the system had when the call began.
Filled_WithFirstData(t) ==
  /\ step[t] = "filling"
  /\ Success
  /\ adapters' = [filled |-> TRUE, type |-> asked[t], addresses |-> begun]
  /\ step' = [step EXCEPT ![t] = "called"]
  /\ UNCHANGED <<asked, answers, failures>>

\* What get_adapters_addresses returned is moved into the static.
Filled(t) ==
  /\ step[t] = "filling"
  /\ Success
  /\ adapters' = [filled |-> TRUE, type |-> asked[t], addresses |-> result'.data]
  /\ step' = [step EXCEPT ![t] = "called"]
  /\ UNCHANGED <<asked, answers, failures>>

\* It throws, because the data kept growing or for an error of the system.
GivesUp(t) == Overflow /\ N!FillThrows(t)

FillFails(t) == failures < MaxErrors /\ Fail /\ N!FillThrows(t)

Return(t) == UNCHANGED vars /\ N!Return(t)

ChangeAdapters(n) == Change(n) /\ UNCHANGED cacheVars

Running(t) == Fill(t) \/ Filled(t) \/ GivesUp(t) \/ Return(t)

CacheNext ==
  \/ \E t \in Threads : Running(t) \/ FillFails(t) \/ (\E type \in Types : CallStatic(t, type))
  \/ AskAgain
  \/ \E n \in Sizes : ChangeAdapters(n)

CacheSpec == CacheInit /\ [][CacheNext]_allVars

\* Threads run, also the one that fills the static, and the system answers it.
CacheFairSpec == CacheSpec /\ WF_allVars(AskAgain) /\ \A t \in Threads : WF_allVars(Running(t))

-------------------------------------------------------------------------------
\* The static goes through the states that NicAddresses gives it: what takes
\* several calls of the system, and any number of changes meanwhile, looks to the
\* threads like one step.
ImplementsStatic == N!Spec

\* The static is either not filled or has the data of one moment, all of it and no
\* more, that came after the thread began that filled it: what an attempt that
\* threw has read is never seen.
CachedWhole ==
  adapters.filled =>
    /\ status = "got" /\ calls <= Retries
    /\ adapters.addresses = result.data /\ result.data >= begun
    /\ result.read = sizes[adapters.addresses] /\ result.read <= buffer

\* See NicAddresses.
AnswersAgree == N!AnswersAgree

\* See NicAddresses; a thread that waits gets away however often the one that
\* fills the static must ask.
CallsEnd == N!CallsEnd
================================================================================
