----------------------------- MODULE NicAddresses -----------------------------
(***************************************************************************)
(* utils/win/nic_addresses.hpp: get_nic_addresses keeps what               *)
(* get_adapters_addresses returned in a static of the function, one for    *)
(* each address family; get_nic_info (nic_addresses.cpp) has one of its    *)
(* own.  This module is about one of these statics and the threads that    *)
(* call its function.  The initialization of a static is the language's:   *)
(* one thread runs it while the others wait, and if it throws the next     *)
(* thread tries again.  Module SizedQueries is about the call it makes.    *)
(***************************************************************************)
EXTENDS Naturals

CONSTANTS
  Threads,
  Types,       \* Unicast, Anycast and Multicast; get_nic_info asks for Unicast
  Snapshots,   \* what the addresses of the adapters can be
  MaxFailures  \* bound of the model: how often the system fails to answer

\* The static before its initialization.
NoCache == [filled |-> FALSE]

VARIABLES
  addresses,  \* the addresses that the adapters have now
  adapters,   \* the static: which type was asked for, and the addresses then
  asked,      \* the type of the call that each thread is in or made last
  step,       \* where a thread is: "out", "called", "filling", "returned", "thrown"
  answers,    \* history: the types asked for, with the addresses returned
  failures    \* how often the system has failed to answer

vars == <<addresses, adapters, asked, step, answers, failures>>

Cache == {NoCache} \cup [filled : {TRUE}, type : Types, addresses : Snapshots]

TypeOK ==
  /\ addresses \in Snapshots
  /\ adapters \in Cache
  /\ asked \in [Threads -> Types]
  /\ step \in [Threads -> {"out", "called", "filling", "returned", "thrown"}]
  /\ answers \in SUBSET (Types \X ({{n} : n \in Snapshots} \cup {{}}))
  /\ failures \in Nat

-------------------------------------------------------------------------------
Init ==
  /\ addresses \in Snapshots
  /\ adapters = NoCache
  /\ asked \in {[t \in Threads |-> type] : type \in Types}
  /\ step = [t \in Threads |-> "out"]
  /\ answers = {}
  /\ failures = 0

\* Lines 54-75.
Call(t, type) ==
  /\ step[t] \notin {"called", "filling"}
  /\ step' = [step EXCEPT ![t] = "called"]
  /\ asked' = [asked EXCEPT ![t] = type]
  /\ UNCHANGED <<addresses, adapters, answers, failures>>

\* Line 76: a thread is the first, or the first after one that failed.
Fill(t) ==
  /\ step[t] = "called"
  /\ ~adapters.filled
  /\ \A u \in Threads : step[u] # "filling"
  /\ step' = [step EXCEPT ![t] = "filling"]
  /\ UNCHANGED <<addresses, adapters, asked, answers, failures>>

\* Line 76: the adapters are those of this moment, with the flags of this call.
Filled(t) ==
  /\ step[t] = "filling"
  /\ adapters' = [filled |-> TRUE, type |-> asked[t], addresses |-> addresses]
  /\ step' = [step EXCEPT ![t] = "called"]
  /\ UNCHANGED <<addresses, asked, answers, failures>>

\* get_adapters_addresses throws.
FillThrows(t) ==
  /\ step[t] = "filling"
  /\ failures < MaxFailures
  /\ failures' = failures + 1
  /\ step' = [step EXCEPT ![t] = "thrown"]
  /\ UNCHANGED <<addresses, adapters, asked, answers>>

\* The addresses that have come since are added.
Found_Merged(type) ==
  IF type = adapters.type THEN {adapters.addresses, addresses} ELSE {}

\* What find_address gets out of the static (lines 38-50 and 77-81): the flags
\* of the call that filled it left out the addresses of every other type.
Found(type) == IF type = adapters.type THEN {adapters.addresses} ELSE {}

Return(t) ==
  /\ step[t] = "called"
  /\ adapters.filled
  /\ answers' = answers \cup {<<asked[t], Found(asked[t])>>}
  /\ step' = [step EXCEPT ![t] = "returned"]
  /\ UNCHANGED <<addresses, adapters, asked, failures>>

\* The administrator of the machine changes them, and changes them back.
Change ==
  /\ addresses' \in Snapshots \ {addresses}
  /\ UNCHANGED <<adapters, asked, step, answers, failures>>

Running(t) == Fill(t) \/ Filled(t) \/ Return(t)

Next ==
  \/ \E t \in Threads : Running(t) \/ FillThrows(t) \/ (\E type \in Types : Call(t, type))
  \/ Change

Spec == Init /\ [][Next]_vars

\* Threads run, and the language wakes one that waits for a static that is free.
FairSpec == Spec /\ \A t \in Threads : WF_vars(Running(t))

-------------------------------------------------------------------------------
\* All threads get the same answer to the same question, however the adapters
\* change: the addresses of the moment at which the static was filled, or none if
\* the type is not that of the call that filled it.  So only one type is ever
\* answered with addresses.
AnswersAgree ==
  \A a, b \in answers : a[1] = b[1] \/ (a[2] # {} /\ b[2] # {}) => a = b

\* A thread that has called gets away again if the system fails only finitely
\* often, also one that waits for a thread that throws.
CallsEnd == \A t \in Threads : step[t] = "called" ~> step[t] \in {"returned", "thrown"}
===============================================================================
