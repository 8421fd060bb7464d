---------------------------- MODULE ThreadPlacement ----------------------------
(***************************************************************************)
(* utils/thread.hpp: at which priority and on which cpus threads run, in   *)
(* its implementations for posix and for windows.                          *)
(*                                                                         *)
(* A priority is one call of the system on posix.  On windows it is two,   *)
(* and the first of them, SetPriorityClass, is about the whole process:    *)
(* each thread runs at the level that was set for it, counted from the     *)
(* class that all of them share.                                           *)
(*                                                                         *)
(* The set of cpus of a thread is modelled for posix, where cpus are bits  *)
(* of a set that the caller allocates; SizedQueries has the other one.     *)
(***************************************************************************)
EXTENDS Integers, FiniteSets, SequencesExt

CONSTANTS
  Threads,
  Machines,   \* which cpus a machine may have; get_nprocs_conf is their number
  Ids,        \* the ids that callers may pass
  Byte, Word, \* the bits of a byte and of a word of a cpu_set_t: 8 and 64
  SetSize     \* the bits of a cpu_set_t, CPU_SETSIZE

Priority == {"low", "normal", "highest"}
Rank == [low |-> 1, normal |-> 2, highest |-> 3]

ASSUME MachinesAssumption ==
  /\ \A present \in Machines : present # {} /\ IsFiniteSet(present) /\ present \subseteq Nat
  /\ Ids \subseteq Nat
  /\ Byte \in Nat \ {0} /\ Word \in Nat \ {0} /\ Byte <= Word /\ SetSize \in Nat

VARIABLES
  platform,   \* which of the two implementations
  present,    \* the cpus of the machine
  online,     \* those that run at the moment
  class,      \* windows: the class of the process, "normal", "high" or "realtime"
  policy,     \* posix: the policy of each thread, "other" or "rr"
  level,      \* windows: the level of each thread; posix: its sched_priority
  call,       \* the call that each thread is in the middle of
  asked,      \* history: the priority that the last call for a thread asked for
  cpus,       \* the cpus that the kernel lets each thread run on
  chosen      \* history: the ids in the last call that set them, {} if it was undone

prioVars == <<class, policy, level, call, asked>>
cpuVars == <<online, cpus, chosen>>
vars == <<platform, present, prioVars, cpuVars>>

NoCall == [target |-> "none"]
Unknown == "unknown"

TypeOK ==
  /\ platform \in {"posix", "windows"}
  /\ present \in Machines
  /\ online \subseteq present /\ online # {}
  /\ class \in {"normal", "high", "realtime"}
  /\ policy \in [Threads -> {"other", "rr"}]
  /\ level \in [Threads -> Int]
  /\ call \in [Threads -> {NoCall} \cup [target : Threads, priority : Priority]]
  /\ asked \in [Threads -> Priority \cup {Unknown}]
  /\ cpus \in [Threads -> SUBSET present]
  /\ chosen \in [Threads -> SUBSET Ids]

Init ==
  /\ platform \in {"posix", "windows"}
  /\ present \in Machines
  /\ online = present
  /\ class = "normal"
  /\ policy = [t \in Threads |-> "other"]
  /\ level = [t \in Threads |-> 0]
  /\ call = [t \in Threads |-> NoCall]
  /\ asked = [t \in Threads |-> Unknown]
  /\ cpus = [t \in Threads |-> present]
  /\ chosen = [t \in Threads |-> {}]

-------------------------------------------------------------------------------
(* Priorities on windows (win/thread.cpp). *)

TimeCritical == 15

\* What set_thread_priority makes of a priority (lines 44-55).
ClassOf(p) == IF p = "highest" THEN "realtime" ELSE "normal"

\* The class alone is taken to be enough.
LevelOf_ClassIsEnough(p) == IF p = "low" THEN -1 ELSE 0

LevelOf(p) == CASE p = "low" -> -1 [] p = "normal" -> 0 [] p = "highest" -> TimeCritical

\* What the system makes of a class: without the privilege to be in real time a
\* process gets the next class below, and no error.
Granted(c) == IF c = "realtime" THEN {"realtime", "high"} ELSE {c}

\* The priority at which a thread runs on windows, from the table of the system.
BasePriority(c, l) ==
  IF l = TimeCritical THEN IF c = "realtime" THEN 31 ELSE 15
  ELSE l + (CASE c = "normal" -> 8 [] c = "high" -> 13 [] c = "realtime" -> 24)

\* Thread c calls set_thread_priority(p, t).  Line 57, when it succeeds.
SetClass(c, t, p) ==
  /\ platform = "windows"
  /\ call[c] = NoCall
  /\ class' \in Granted(ClassOf(p))
  /\ call' = [call EXCEPT ![c] = [target |-> t, priority |-> p]]
  /\ UNCHANGED <<platform, present, policy, level, asked, cpuVars>>

\* Lines 35-36 and 59.
SetLevel(c) ==
  /\ call[c] # NoCall
  /\ level' = [level EXCEPT ![call[c].target] = LevelOf(call[c].priority)]
  /\ asked' = [asked EXCEPT ![call[c].target] = call[c].priority]
  /\ call' = [call EXCEPT ![c] = NoCall]
  /\ UNCHANGED <<platform, present, class, policy, cpuVars>>

\* Lines 35-38: the call returns an error and the process keeps its new class.
SetLevelFails(c) ==
  /\ call[c] # NoCall
  /\ call' = [call EXCEPT ![c] = NoCall]
  /\ UNCHANGED <<platform, present, class, policy, level, asked, cpuVars>>

-------------------------------------------------------------------------------
(* Priorities on posix (posix/thread.cpp). *)

\* Lines 68-89: SCHED_OTHER has the one priority 0, SCHED_RR has 1 to 99.
SchedOf(p) == IF p = "highest" THEN [policy |-> "rr", priority |-> 99]
                               ELSE [policy |-> "other", priority |-> 0]

\* Lines 91-92; a call that the system refuses changes nothing.
SetSched(t, p) ==
  /\ platform = "posix"
  /\ policy' = [policy EXCEPT ![t] = SchedOf(p).policy]
  /\ level' = [level EXCEPT ![t] = SchedOf(p).priority]
  /\ asked' = [asked EXCEPT ![t] = p]
  /\ UNCHANGED <<platform, present, class, call, cpuVars>>

-------------------------------------------------------------------------------
\* The overload for a number, on both: the level as it is (lines 57-64 of
\* posix/thread.cpp, 35-40 of win/thread.cpp), if the system takes it.
Accepted(t) ==
  CASE platform = "posix" /\ policy[t] = "other" -> {0}
    [] platform = "posix" /\ policy[t] = "rr"    -> {1, 99}
    [] platform = "windows"                      -> {-1, 0, TimeCritical}

SetNumber(t, n) ==
  /\ n \in Accepted(t)
  /\ level' = [level EXCEPT ![t] = n]
  /\ asked' = [asked EXCEPT ![t] = Unknown]
  /\ UNCHANGED <<platform, present, class, policy, call, cpuVars>>

\* The priority at which a thread runs; that of SCHED_OTHER is below SCHED_RR.
RunsAt(t) == IF platform = "posix" THEN level[t] ELSE BasePriority(class, level[t])

-------------------------------------------------------------------------------
(* Cpus on posix (posix/thread.cpp). *)

Configured == Cardinality(present)

\* The bits of a set that CPU_ALLOC makes for so many cpus: whole words.
RoomFor(n) == Word * ((n + Word - 1) \div Word)

\* Lines 96-98 and 124-126.
Room == RoomFor(Configured)

\* The bits that CPU_SET_S and CPU_ISSET_S admit (lines 110 and 145): they take
\* the size of a set in bytes, and are given the number of cpus.
Admitted == 0..(Byte * Configured - 1)

\* The kernel runs a thread on those of the cpus it is given that are online, and
\* refuses to run it nowhere (lines 27 and 118).
SetAffinity(t, mask) ==
  /\ mask \cap online # {}
  /\ cpus' = [cpus EXCEPT ![t] = mask \cap online]

\* The set is made for as many cpus as there are ids (compare line 33).
SetCpuSet_RoomForIds(t, ids) ==
  /\ platform = "posix"
  /\ \/ /\ SetAffinity(t, {id \in ids \cap Admitted : id < RoomFor(Cardinality(ids))})
        /\ chosen' = [chosen EXCEPT ![t] = ids]
     \/ UNCHANGED <<cpus, chosen>>
  /\ UNCHANGED <<platform, present, online, prioVars>>

\* set_thread_cpu_set (lines 95-121).  A bit past the set is no bit of it: that
\* callers pass no such id is taken for granted, and what its write would do is not
\* followed.  A call that finds no memory for the set changes nothing and is left
\* out.
SetCpuSet(t, ids) ==
  /\ platform = "posix"
  /\ \/ /\ SetAffinity(t, {id \in ids \cap Admitted : id < Room})
        /\ chosen' = [chosen EXCEPT ![t] = ids]
     \/ UNCHANGED <<cpus, chosen>>
  /\ UNCHANGED <<platform, present, online, prioVars>>

\* pin_thread_to_core (lines 23-29): a set of fixed size, whose macro knows it.
PinToCore(t, core) ==
  /\ platform = "posix"
  /\ SetAffinity(t, {core} \cap 0..(SetSize - 1))
  /\ chosen' = [chosen EXCEPT ![t] = {core}]
  /\ UNCHANGED <<platform, present, online, prioVars>>

\* The loop of lines 144-147 stops one cpu early.
Listed_LosesLast(set) == {cpu \in 0..(Configured - 2) : cpu \in Admitted /\ cpu \in set}

\* What get_thread_cpu_set lists of a set, in this order (lines 142-148).
Listed(set) == {cpu \in 0..(Configured - 1) : cpu \in Admitted /\ cpu \in set}

\* Line 139: the kernel has a bit for every id up to the last and refuses a set
\* that has not.
Readable == \A id \in present : id < Room

GetCpuSet(t) ==
  LET set == Listed(cpus[t] \cap online)
  IN  [k \in 1..Cardinality(set) |->
         CHOOSE cpu \in set : Cardinality({c \in set : c <= cpu}) = k]

\* A cpu is taken away, not the last one; a thread that ran nowhere else is let
\* run everywhere.
Unplug(cpu) ==
  /\ platform = "posix"
  /\ cpu \in online /\ online # {cpu}
  /\ online' = online \ {cpu}
  /\ LET Stranded(t) == cpus[t] \cap online' = {}
     IN  /\ cpus' = [t \in Threads |-> IF Stranded(t) THEN present ELSE cpus[t]]
         /\ chosen' = [t \in Threads |-> IF Stranded(t) THEN {} ELSE chosen[t]]
  /\ UNCHANGED <<platform, present, prioVars>>

-------------------------------------------------------------------------------
PriorityNext ==
  \/ \E t \in Threads, p \in Priority : SetSched(t, p) \/ \E c \in Threads : SetClass(c, t, p)
  \/ \E c \in Threads : SetLevel(c) \/ SetLevelFails(c)
  \/ \E t \in Threads : \E n \in Accepted(t) : SetNumber(t, n)

CpuNext ==
  \/ \E t \in Threads, ids \in SUBSET Ids : SetCpuSet(t, ids)
  \/ \E t \in Threads, core \in Ids : PinToCore(t, core)
  \/ \E cpu \in online : Unplug(cpu)

Next == PriorityNext \/ CpuNext

Spec == Init /\ [][Next]_vars

-------------------------------------------------------------------------------
\* Threads run in the order of the priorities that were asked for them, through
\* all calls that other threads are in the middle of or that fail half way: on
\* windows strictly, since the class moves all of them; on posix low and normal
\* are the same (the comment of lines 84-85).
OrderAsAsked ==
  \A t, u \in Threads :
    asked[t] # Unknown /\ asked[u] # Unknown /\ Rank[asked[t]] < Rank[asked[u]] =>
      \/ RunsAt(t) < RunsAt(u)
      \/ platform = "posix" /\ asked[u] = "normal" /\ RunsAt(t) = RunsAt(u)

\* What get_thread_cpu_set returns are the cpus that were chosen and are online,
\* in ascending order, but for those with ids past the number of cpus.  The set
\* that was allocated is large enough for that, on each machine without gaps and
\* on those with gaps whose last cpu it has a bit for (lines 98-111 and 126-148).
CpusReadBack ==
  \A t \in Threads :
    platform = "posix" /\ (Readable \/ present = 0..(Configured - 1)) /\ chosen[t] # {} =>
      /\ ToSet(GetCpuSet(t)) = {id \in chosen[t] \cap online : id < Configured}
      /\ \A i, j \in DOMAIN GetCpuSet(t) : i < j => GetCpuSet(t)[i] < GetCpuSet(t)[j]
================================================================================
