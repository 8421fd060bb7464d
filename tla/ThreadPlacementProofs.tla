------------------------- MODULE ThreadPlacementProofs -------------------------
(***************************************************************************)
(* Proofs about ThreadPlacement for any threads, any machine, any sizes of *)
(* words and bytes, and any order of the calls.  That what                 *)
(* get_thread_cpu_set lists is sorted rests on counting the ids up to each.*)
(***************************************************************************)
EXTENDS ThreadPlacement, FiniteSetTheorems, WellFoundedInduction, TLAPS

\* The level of a thread is the one of the priority that was asked for it, and
\* only windows has calls of two steps.
Levels ==
  /\ platform = "posix" => \A c \in Threads : call[c] = NoCall
  /\ \A t \in Threads : asked[t] # Unknown =>
       level[t] = IF platform = "posix" THEN SchedOf(asked[t]).priority ELSE LevelOf(asked[t])

IInv == TypeOK /\ Levels

-------------------------------------------------------------------------------
\* Whole words make room for every bit (the size of CPU_ALLOC).
LEMMA WholeWords ==
  ASSUME NEW n \in Nat, NEW b \in Nat \ {0}
  PROVE  b * ((n + b - 1) \div b) \in Nat /\ b * ((n + b - 1) \div b) >= n
<1> DEFINE x == n + b - 1
           q == x \div b
<1>1. x \in Nat
  BY SMT
<1>2. x = n + b - 1
  OBVIOUS
<1> HIDE DEF x
<1>3. q \in Nat /\ x = b * q + (x % b) /\ x % b \in 0..(b - 1)
  BY <1>1, SMT
<1> HIDE DEF q
<1>4. b * q \in Nat
  BY <1>3, SMT
<1>5. b * q >= n
  <2> DEFINE y == b * q
             r == x % b
  <2>1. y \in Nat /\ r \in 0..(b - 1) /\ n + b - 1 = y + r
    BY <1>2, <1>3, <1>4
  <2> HIDE DEF y, r
  <2>2. y >= n
    BY <2>1, SMT
  <2> QED BY <2>2 DEF y
<1>6. (n + b - 1) \div b = q
  BY <1>2 DEF q
<1> QED BY <1>4, <1>5, <1>6

LEMMA RoomForConfigured ==
  ASSUME TypeOK
  PROVE  Room \in Nat /\ Configured \in Nat /\ Room >= Configured
<1>1. IsFiniteSet(present)
  BY MachinesAssumption DEF TypeOK
<1>2. Configured \in Nat
  BY <1>1, FS_CardinalityType DEF Configured
<1>3. Word \in Nat \ {0}
  BY MachinesAssumption
<1> QED BY <1>2, <1>3, WholeWords DEF Room, RoomFor

\* The call that a thread is in.
LEMMA InCall ==
  ASSUME TypeOK, NEW c \in Threads, call[c] # NoCall
  PROVE  call[c].target \in Threads /\ call[c].priority \in Priority
BY DEF TypeOK

-------------------------------------------------------------------------------
LEMMA InitInv == Init => IInv
<1> SUFFICES ASSUME Init PROVE IInv
  OBVIOUS
<1>1. TypeOK
  BY MachinesAssumption DEF Init, TypeOK
<1>2. Levels
  BY DEF Init, Levels
<1> QED BY <1>1, <1>2 DEF IInv

\* Setting the class changes no level and no cpu.
LEMMA SetClassInv ==
  ASSUME IInv, NEW c \in Threads, NEW t \in Threads, NEW p \in Priority, SetClass(c, t, p)
  PROVE  IInv'
<1>0. TypeOK /\ Levels
  BY DEF IInv
<1>1. class' \in {"normal", "high", "realtime"}
  BY DEF SetClass, Granted, ClassOf, Priority
<1>2. TypeOK'
  BY <1>0, <1>1 DEF SetClass, TypeOK, cpuVars
<1>3. Levels'
  BY <1>0 DEF SetClass, Levels, TypeOK
<1> QED BY <1>2, <1>3 DEF IInv

\* The second half of a call is about the priority that its first half wanted.
LEMMA SetLevelInv ==
  ASSUME IInv, NEW c \in Threads, SetLevel(c)
  PROVE  IInv'
<1> DEFINE t == call[c].target
           p == call[c].priority
<1>0. TypeOK /\ Levels
  BY DEF IInv
<1>1. t \in Threads /\ p \in Priority /\ platform = "windows"
  BY <1>0, InCall DEF SetLevel, Levels, TypeOK
<1>2. LevelOf(p) \in Int
  BY <1>1 DEF LevelOf, Priority, TimeCritical
<1>3. /\ level' = [level EXCEPT ![t] = LevelOf(p)]
      /\ asked' = [asked EXCEPT ![t] = p]
      /\ call' = [call EXCEPT ![c] = NoCall]
      /\ UNCHANGED <<platform, present, class, policy, online, cpus, chosen>>
  BY <1>0 DEF SetLevel, cpuVars
<1> HIDE DEF t, p
<1>4. TypeOK'
  BY <1>0, <1>1, <1>2, <1>3 DEF TypeOK
<1>5. Levels'
  <2>1. platform' = "windows" /\ platform' # "posix"
    BY <1>1, <1>3
  <2>2. ASSUME NEW u \in Threads, asked'[u] # Unknown
        PROVE  level'[u] = LevelOf(asked'[u])
    <3>1. CASE u = t
      BY <1>0, <1>1, <1>3, <3>1 DEF TypeOK
    <3>2. CASE u # t
      BY <1>0, <1>1, <1>3, <2>1, <2>2, <3>2 DEF Levels, TypeOK
    <3> QED BY <3>1, <3>2
  <2> QED BY <2>1, <2>2 DEF Levels
<1> QED BY <1>4, <1>5 DEF IInv

LEMMA SetLevelFailsInv ==
  ASSUME IInv, NEW c \in Threads, SetLevelFails(c)
  PROVE  IInv'
<1>0. TypeOK /\ Levels
  BY DEF IInv
<1>1. TypeOK'
  BY <1>0 DEF SetLevelFails, TypeOK, cpuVars
<1>2. Levels'
  BY <1>0 DEF SetLevelFails, Levels, TypeOK
<1> QED BY <1>1, <1>2 DEF IInv

\* On posix one call sets the priority.
LEMMA SetSchedInv ==
  ASSUME IInv, NEW t \in Threads, NEW p \in Priority, SetSched(t, p)
  PROVE  IInv'
<1>0. TypeOK /\ Levels
  BY DEF IInv
<1>1. SchedOf(p).policy \in {"other", "rr"} /\ SchedOf(p).priority \in Int
  BY DEF SchedOf
<1>2. TypeOK'
  BY <1>0, <1>1 DEF SetSched, TypeOK, cpuVars
<1>3. Levels'
  BY <1>0 DEF SetSched, Levels, TypeOK, SchedOf
<1> QED BY <1>2, <1>3 DEF IInv

\* A thread that was given a number is no longer compared.
LEMMA SetNumberInv ==
  ASSUME IInv, NEW t \in Threads, NEW n \in Accepted(t), SetNumber(t, n)
  PROVE  IInv'
<1>0. TypeOK /\ Levels
  BY DEF IInv
<1>1. n \in Int
  BY <1>0 DEF Accepted, TimeCritical, TypeOK
<1>2. TypeOK'
  BY <1>0, <1>1 DEF SetNumber, TypeOK, cpuVars
<1>3. Levels'
  BY <1>0 DEF SetNumber, Levels, TypeOK
<1> QED BY <1>2, <1>3 DEF IInv

\* The cpus have to do with none of the priorities.
LEMMA CpuStepInv ==
  ASSUME IInv, UNCHANGED <<platform, present, prioVars>>,
         online' \subseteq present, online' # {},
         cpus' \in [Threads -> SUBSET present], chosen' \in [Threads -> SUBSET Ids]
  PROVE  IInv'
<1>0. TypeOK /\ Levels
  BY DEF IInv
<1>1. TypeOK'
  BY <1>0 DEF TypeOK, prioVars
<1>2. Levels'
  BY <1>0 DEF Levels, prioVars
<1> QED BY <1>1, <1>2 DEF IInv

LEMMA SetCpuSetInv ==
  ASSUME IInv, NEW t \in Threads, NEW ids \in SUBSET Ids, SetCpuSet(t, ids)
  PROVE  IInv'
<1>0. TypeOK
  BY DEF IInv
<1>1. cpus' \in [Threads -> SUBSET present] /\ chosen' \in [Threads -> SUBSET Ids]
  BY <1>0 DEF SetCpuSet, SetAffinity, TypeOK
<1> QED BY <1>0, <1>1, CpuStepInv DEF SetCpuSet, TypeOK

LEMMA PinToCoreInv ==
  ASSUME IInv, NEW t \in Threads, NEW core \in Ids, PinToCore(t, core)
  PROVE  IInv'
<1>0. TypeOK
  BY DEF IInv
<1>1. cpus' \in [Threads -> SUBSET present] /\ chosen' \in [Threads -> SUBSET Ids]
  BY <1>0 DEF PinToCore, SetAffinity, TypeOK
<1> QED BY <1>0, <1>1, CpuStepInv DEF PinToCore, TypeOK

LEMMA UnplugInv ==
  ASSUME IInv, NEW cpu \in online, Unplug(cpu)
  PROVE  IInv'
<1>0. TypeOK
  BY DEF IInv
<1>1. online' \subseteq present /\ online' # {}
  BY <1>0 DEF Unplug, TypeOK
<1>2. cpus' \in [Threads -> SUBSET present] /\ chosen' \in [Threads -> SUBSET Ids]
  BY <1>0 DEF Unplug, TypeOK
<1> QED BY <1>0, <1>1, <1>2, CpuStepInv DEF Unplug, TypeOK

LEMMA StutterInv == ASSUME IInv, UNCHANGED vars PROVE IInv'
BY DEF IInv, TypeOK, Levels, vars, prioVars, cpuVars

LEMMA NextInv == IInv /\ [Next]_vars => IInv'
<1> SUFFICES ASSUME IInv, [Next]_vars PROVE IInv'
  OBVIOUS
<1>1. CASE PriorityNext
  BY <1>1, SetSchedInv, SetClassInv, SetLevelInv, SetLevelFailsInv, SetNumberInv DEF PriorityNext
<1>2. CASE CpuNext
  BY <1>2, SetCpuSetInv, PinToCoreInv, UnplugInv DEF CpuNext
<1>3. CASE UNCHANGED vars
  BY <1>3, StutterInv
<1> QED BY <1>1, <1>2, <1>3 DEF Next

\* Levels are what the last calls made of them, also of threads between the
\* two calls of line 57 and line 59 of win/thread.cpp.
THEOREM InductiveInvariant == Spec => []IInv
<1> QED BY InitInv, NextInv, PTL DEF Spec

-------------------------------------------------------------------------------
\* Classes, levels, calls and sets of cpus stay of their types.
THEOREM TypeCorrect == Spec => []TypeOK
<1>1. IInv => TypeOK
  BY DEF IInv
<1> QED BY <1>1, InductiveInvariant, PTL

\* In every class that windows may grant, a level that was asked for above another
\* runs above it.
LEMMA BaseInOrder ==
  ASSUME NEW c \in {"normal", "high", "realtime"}, NEW p \in Priority, NEW q \in Priority,
         Rank[p] < Rank[q]
  PROVE  BasePriority(c, LevelOf(p)) < BasePriority(c, LevelOf(q))
<1>1. \/ p = "low" /\ q = "normal"
      \/ p = "low" /\ q = "highest"
      \/ p = "normal" /\ q = "highest"
  BY DEF Priority, Rank
<1>2. LevelOf("low") = -1 /\ LevelOf("normal") = 0 /\ LevelOf("highest") = 15
  BY DEF LevelOf, TimeCritical
<1>3. CASE c = "normal"
  <2>1. BasePriority(c, -1) = 7 /\ BasePriority(c, 0) = 8 /\ BasePriority(c, 15) = 15
    BY <1>3, SMT DEF BasePriority, TimeCritical
  <2> QED BY <1>1, <1>2, <2>1
<1>4. CASE c = "high"
  <2>1. BasePriority(c, -1) = 12 /\ BasePriority(c, 0) = 13 /\ BasePriority(c, 15) = 15
    BY <1>4, SMT DEF BasePriority, TimeCritical
  <2> QED BY <1>1, <1>2, <2>1
<1>5. CASE c = "realtime"
  <2>1. BasePriority(c, -1) = 23 /\ BasePriority(c, 0) = 24 /\ BasePriority(c, 15) = 31
    BY <1>5, SMT DEF BasePriority, TimeCritical
  <2> QED BY <1>1, <1>2, <2>1
<1> QED BY <1>3, <1>4, <1>5

\* Threads run in the order of the priorities that were asked for them, whatever
\* class the last call left the process in (lines 57-59 of win/thread.cpp).
THEOREM InOrder == Spec => []OrderAsAsked
<1>1. IInv => OrderAsAsked
  <2> SUFFICES ASSUME IInv, NEW t \in Threads, NEW u \in Threads,
                      asked[t] # Unknown, asked[u] # Unknown, Rank[asked[t]] < Rank[asked[u]]
               PROVE  \/ RunsAt(t) < RunsAt(u)
                      \/ platform = "posix" /\ asked[u] = "normal" /\ RunsAt(t) = RunsAt(u)
    BY DEF OrderAsAsked
  <2>1. /\ asked[t] \in Priority /\ asked[u] \in Priority
        /\ class \in {"normal", "high", "realtime"}
        /\ platform \in {"posix", "windows"}
    BY DEF IInv, TypeOK
  <2>2. CASE platform = "posix"
    <3>1. RunsAt(t) = SchedOf(asked[t]).priority /\ RunsAt(u) = SchedOf(asked[u]).priority
      BY <2>2 DEF IInv, Levels, RunsAt
    <3>2. \/ asked[t] = "low" /\ asked[u] = "normal"
          \/ asked[t] \in {"low", "normal"} /\ asked[u] = "highest"
      BY <2>1 DEF Priority, Rank
    <3> QED BY <2>2, <3>1, <3>2 DEF SchedOf
  <2>3. CASE platform = "windows"
    <3>1. /\ RunsAt(t) = BasePriority(class, LevelOf(asked[t]))
          /\ RunsAt(u) = BasePriority(class, LevelOf(asked[u]))
      BY <2>3 DEF IInv, Levels, RunsAt
    <3> QED BY <2>1, <3>1, BaseInOrder
  <2> QED BY <2>1, <2>2, <2>3
<1> QED BY <1>1, InductiveInvariant, PTL

-------------------------------------------------------------------------------
(* The cpus that are read back. *)

\* Of the cpus online below their number, a thread may run on those that were
\* chosen for it.
Selected ==
  \A t \in Threads : chosen[t] # {} =>
    \A id \in online : id < Configured => (id \in cpus[t] <=> id \in chosen[t])

LEMMA SelectedInit == Init => Selected
BY DEF Init, Selected

\* The bits that are set for those cpus are all within the set that was allocated.
LEMMA SelectedSet ==
  ASSUME TypeOK, Selected, NEW t \in Threads, NEW ids \in SUBSET Ids, SetCpuSet(t, ids)
  PROVE  Selected'
<1> DEFINE mask == {id \in ids \cap Admitted : id < Room}
<1>1. /\ online' = online /\ present' = present
      /\ \/ /\ cpus' = [cpus EXCEPT ![t] = mask \cap online]
            /\ chosen' = [chosen EXCEPT ![t] = ids]
         \/ cpus' = cpus /\ chosen' = chosen
  BY DEF SetCpuSet, SetAffinity
<1>2. Configured' = Configured
  BY <1>1 DEF Configured
<1>3. ASSUME cpus' = [cpus EXCEPT ![t] = mask \cap online],
             chosen' = [chosen EXCEPT ![t] = ids]
      PROVE  Selected'
  <2>1. ASSUME NEW id \in ids, id < Configured PROVE id \in mask
    <3>1. id \in Nat /\ Room \in Nat /\ Configured \in Nat /\ Room >= Configured /\ Byte \in Nat \ {0}
      BY RoomForConfigured, MachinesAssumption
    <3>2. Byte * Configured >= Configured /\ Byte * Configured \in Nat
      BY <3>1
    <3>3. id \in 0..(Byte * Configured - 1) /\ id < Room
      BY <2>1, <3>1, <3>2
    <3> QED BY <3>3 DEF Admitted
  <2>2. ASSUME NEW u \in Threads, chosen'[u] # {}, NEW id \in online, id < Configured
        PROVE  id \in cpus'[u] <=> id \in chosen'[u]
    <3>1. CASE u = t
      <4>1. cpus'[u] = mask \cap online /\ chosen'[u] = ids
        BY <1>3, <3>1 DEF TypeOK
      <4> QED BY <2>1, <2>2, <4>1
    <3>2. CASE u # t
      <4>1. cpus'[u] = cpus[u] /\ chosen'[u] = chosen[u]
        BY <1>3, <3>2 DEF TypeOK
      <4> QED BY <2>2, <4>1 DEF Selected
    <3> QED BY <3>1, <3>2
  <2> QED BY <1>1, <1>2, <2>2 DEF Selected
<1>4. ASSUME cpus' = cpus, chosen' = chosen PROVE Selected'
  BY <1>1, <1>2, <1>4 DEF Selected
<1> QED BY <1>1, <1>3, <1>4

LEMMA SelectedPin ==
  ASSUME TypeOK, Selected, NEW t \in Threads, NEW core \in Ids, PinToCore(t, core)
  PROVE  Selected'
<1>1. /\ ({core} \cap 0..(SetSize - 1)) \cap online # {}
      /\ cpus' = [cpus EXCEPT ![t] = ({core} \cap 0..(SetSize - 1)) \cap online]
      /\ chosen' = [chosen EXCEPT ![t] = {core}]
      /\ online' = online /\ present' = present
  BY DEF PinToCore, SetAffinity
<1>2. Configured' = Configured
  BY <1>1 DEF Configured
<1>3. ASSUME NEW u \in Threads, chosen'[u] # {}, NEW id \in online, id < Configured
      PROVE  id \in cpus'[u] <=> id \in chosen'[u]
  <2>1. CASE u = t
    <3>1. cpus'[u] = {core} /\ chosen'[u] = {core}
      BY <1>1, <2>1 DEF TypeOK
    <3> QED BY <3>1
  <2>2. CASE u # t
    <3>1. cpus'[u] = cpus[u] /\ chosen'[u] = chosen[u]
      BY <1>1, <2>2 DEF TypeOK
    <3> QED BY <1>3, <3>1 DEF Selected
  <2> QED BY <2>1, <2>2
<1> QED BY <1>1, <1>2, <1>3 DEF Selected

\* Fewer cpus are online; what the kernel chose itself is not looked at.
LEMMA SelectedUnplug ==
  ASSUME TypeOK, Selected, NEW cpu \in online, Unplug(cpu)
  PROVE  Selected'
<1> DEFINE Stranded(t) == cpus[t] \cap online' = {}
<1>1. /\ online' \subseteq online /\ present' = present
      /\ cpus' = [t \in Threads |-> IF Stranded(t) THEN present ELSE cpus[t]]
      /\ chosen' = [t \in Threads |-> IF Stranded(t) THEN {} ELSE chosen[t]]
  BY DEF Unplug
<1>2. Configured' = Configured
  BY <1>1 DEF Configured
<1>3. ASSUME NEW u \in Threads, chosen'[u] # {}
      PROVE  cpus'[u] = cpus[u] /\ chosen'[u] = chosen[u]
  BY <1>1, <1>3
<1> QED BY <1>1, <1>2, <1>3 DEF Selected

LEMMA SelectedInv == TypeOK /\ Selected /\ [Next]_vars => Selected'
<1> SUFFICES ASSUME TypeOK, Selected, [Next]_vars PROVE Selected'
  OBVIOUS
<1>1. ASSUME UNCHANGED <<present, online, cpus, chosen>> PROVE Selected'
  BY <1>1 DEF Selected, Configured
<1>2. CASE PriorityNext
  BY <1>1, <1>2 DEF PriorityNext, SetSched, SetClass, SetLevel, SetLevelFails, SetNumber, cpuVars
<1>3. CASE CpuNext
  BY <1>3, SelectedSet, SelectedPin, SelectedUnplug DEF CpuNext
<1>4. CASE UNCHANGED vars
  BY <1>1, <1>4 DEF vars, cpuVars
<1> QED BY <1>2, <1>3, <1>4 DEF Next

-------------------------------------------------------------------------------
\* Every set of natural numbers has a least one.
LEMMA NatMin ==
  ASSUME NEW T, T \subseteq Nat, T # {}
  PROVE  \E x \in T : \A y \in T : x <= y
<1> DEFINE R == {ss \in Nat \X Nat : ss[1] < ss[2]}
<1>1. IsWellFoundedOn(R, Nat)
  BY NatLessThanWellFounded DEF OpToRel
<1> HIDE DEF R
<1>2. PICK x \in T : \A y \in T : ~(<<y, x>> \in R)
  BY <1>1, WFMin
<1>3. \A y \in T : ~(y < x)
  BY <1>2 DEF R
<1> QED BY <1>3

\* How many ids of a set there are up to one of them.
Place(F, i) == Cardinality({c \in F : c <= i})

LEMMA PlaceType ==
  ASSUME NEW n \in Nat, NEW F \in SUBSET (0..n)
  PROVE  /\ IsFiniteSet(F)
         /\ \A c \in F : c \in Nat /\ c <= n
         /\ \A i : IsFiniteSet({c \in F : c <= i}) /\ Place(F, i) \in Nat
<1>1. IsFiniteSet(F)
  <2>1. IsFiniteSet(0..n)
    BY FS_Interval
  <2> QED BY <2>1, FS_Subset
<1>2. \A i : {c \in F : c <= i} \in SUBSET F
  OBVIOUS
<1> QED BY <1>1, <1>2, FS_Subset, FS_CardinalityType DEF Place

\* A larger id has more up to it.
LEMMA PlaceGrows ==
  ASSUME NEW n \in Nat, NEW F \in SUBSET (0..n), NEW a \in F, NEW b \in F, a < b
  PROVE  Place(F, a) < Place(F, b)
<1> DEFINE A == {c \in F : c <= a}
           B == {c \in F : c <= b}
<1>1. IsFiniteSet(B) /\ Cardinality(A) \in Nat /\ Cardinality(B) \in Nat
  <2>1. IsFiniteSet(B)
    BY PlaceType
  <2>2. Place(F, a) \in Nat /\ Place(F, b) \in Nat
    BY PlaceType
  <2> QED BY <2>1, <2>2 DEF Place
<1>2. A \in SUBSET B /\ b \in B /\ b \notin A
  <2>1. a \in Nat /\ b \in Nat /\ \A c \in F : c \in Nat
    BY PlaceType
  <2>2. \A c \in F : c <= a => c <= b
    BY <2>1
  <2>3. b <= b /\ ~(b <= a)
    BY <2>1
  <2> QED BY <2>2, <2>3
<1>3. Place(F, a) = Cardinality(A) /\ Place(F, b) = Cardinality(B)
  BY DEF Place
<1> HIDE DEF A, B
<1>4. Cardinality(A) <= Cardinality(B) /\ Cardinality(A) # Cardinality(B)
  BY <1>1, <1>2, FS_Subset
<1> QED BY <1>1, <1>3, <1>4

\* Each of the places from the first to the last is that of an id.
LEMMA PlaceExists ==
  ASSUME NEW n \in Nat, NEW F \in SUBSET (0..n), NEW k \in 1..Cardinality(F)
  PROVE  \E i \in F : Place(F, i) = k
<1> DEFINE Below(i) == {c \in F : c < i}
           T == {i \in Nat : Cardinality(Below(i)) >= k}
<1>f. IsFiniteSet(F) /\ (\A c \in F : c \in Nat /\ c <= n) /\ Cardinality(F) \in Nat
  BY PlaceType, FS_CardinalityType
<1>1. \A i \in Nat : IsFiniteSet(Below(i)) /\ Cardinality(Below(i)) \in Nat
  <2>1. \A i \in Nat : Below(i) \in SUBSET F
    OBVIOUS
  <2> HIDE DEF Below
  <2> QED BY <1>f, <2>1, FS_Subset, FS_CardinalityType
<1>2. PICK i \in T : \A x \in T : i <= x
  <2>1. Below(n + 1) = F
    <3>1. \A c \in F : c < n + 1
      BY <1>f
    <3> QED BY <3>1
  <2>2. n + 1 \in T
    <3> HIDE DEF Below
    <3> QED BY <1>f, <2>1
  <2>3. T \subseteq Nat /\ T # {}
    BY <2>2
  <2> HIDE DEF T
  <2> QED BY <2>3, NatMin
<1>3. i \in Nat /\ i # 0
  <2>1. Below(0) = {}
    <3>1. \A c \in F : ~(c < 0)
      BY <1>f
    <3> QED BY <3>1
  <2>2. 0 \notin T
    <3> HIDE DEF Below
    <3> QED BY <2>1, FS_EmptySet
  <2> QED BY <1>2, <2>2
<1>4. i - 1 \in Nat /\ i - 1 \notin T
  <2>1. i - 1 \in Nat /\ ~(i <= i - 1)
    BY <1>3
  <2> HIDE DEF T
  <2> QED BY <1>2, <2>1
<1>5. /\ Cardinality(Below(i - 1)) < k /\ Cardinality(Below(i)) >= k
      /\ Cardinality(Below(i)) \in Nat /\ Cardinality(Below(i - 1)) \in Nat
  <2> HIDE DEF Below
  <2> QED BY <1>1, <1>2, <1>3, <1>4
<1>6. i - 1 \in F
  <2> SUFFICES ASSUME i - 1 \notin F PROVE FALSE
    OBVIOUS
  <2>1. \A c \in F : c < i <=> c < i - 1
    BY <1>f, <1>3
  <2>2. Below(i) = Below(i - 1)
    BY <2>1
  <2> HIDE DEF Below
  <2> QED BY <1>5, <2>2
<1>7. Cardinality(Below(i)) = Cardinality(Below(i - 1)) + 1
  <2>1. \A c \in F : c < i <=> c < i - 1 \/ c = i - 1
    BY <1>f, <1>3
  <2>2. Below(i) = Below(i - 1) \cup {i - 1} /\ i - 1 \notin Below(i - 1)
    <3>1. ~(i - 1 < i - 1)
      BY <1>3
    <3> QED BY <1>6, <2>1, <3>1
  <2> HIDE DEF Below
  <2> QED BY <1>1, <1>4, <2>2, FS_AddElement
<1>8. Place(F, i - 1) = k
  <2>1. {c \in F : c <= i - 1} = Below(i)
    <3>1. \A c \in F : c <= i - 1 <=> c < i
      BY <1>f, <1>3
    <3> QED BY <3>1
  <2>2. Cardinality(Below(i)) = k
    <3> HIDE DEF Below
    <3> QED BY <1>5, <1>7
  <2> QED BY <2>1, <2>2 DEF Place
<1> QED BY <1>6, <1>8

LEMMA ListHas ==
  ASSUME NEW list, NEW F, \A k \in DOMAIN list : list[k] \in F,
         \A c \in F : \E k \in DOMAIN list : list[k] = c
  PROVE  ToSet(list) = F
<1>1. ASSUME NEW c PROVE c \in ToSet(list) <=> c \in F
  BY DEF ToSet
<1> QED BY <1>1

\* The list that names at each place the id that has it consists of the ids, in
\* ascending order.
LEMMA SortedList ==
  ASSUME NEW n \in Nat, NEW F \in SUBSET (0..n), NEW list,
         DOMAIN list = 1..Cardinality(F),
         \A k \in 1..Cardinality(F) :
           list[k] = CHOOSE cpu \in F : Cardinality({c \in F : c <= cpu}) = k
  PROVE  /\ ToSet(list) = F
         /\ \A i, j \in DOMAIN list : i < j => list[i] < list[j]
<1>0. IsFiniteSet(F) /\ Cardinality(F) \in Nat /\ DOMAIN list = 1..Cardinality(F)
  BY PlaceType, FS_CardinalityType
<1>1. ASSUME NEW k \in 1..Cardinality(F) PROVE list[k] \in F /\ Place(F, list[k]) = k
  <2>1. list[k] = CHOOSE cpu \in F : Place(F, cpu) = k
    BY DEF Place
  <2>2. \E cpu \in F : Place(F, cpu) = k
    BY PlaceExists
  <2> QED BY <2>1, <2>2
<1>2. ASSUME NEW i \in 1..Cardinality(F), NEW j \in 1..Cardinality(F), i < j PROVE list[i] < list[j]
  <2> DEFINE x == list[i]
             y == list[j]
  <2>1. x \in F /\ y \in F /\ Place(F, x) = i /\ Place(F, y) = j
    BY <1>1
  <2> HIDE DEF x, y
  <2>2. x \in Nat /\ y \in Nat /\ i \in Nat /\ j \in Nat /\ i < j
    BY <1>0, <1>2, <2>1, PlaceType
  <2>3. x # y
    BY <2>1, <2>2
  <2>4. ~(y < x)
    <3>1. y < x => Place(F, y) < Place(F, x)
      BY <2>1, PlaceGrows
    <3> QED BY <2>1, <2>2, <3>1
  <2>5. x < y
    BY <2>2, <2>3, <2>4
  <2> QED BY <2>5 DEF x, y
<1>3. ASSUME NEW cpu \in F PROVE \E k \in 1..Cardinality(F) : list[k] = cpu
  <2> DEFINE k == Place(F, cpu)
  <2>1. k \in 1..Cardinality(F)
    <3> DEFINE A == {c \in F : c <= cpu}
    <3>0. cpu \in Nat /\ cpu <= cpu
      BY PlaceType
    <3>1. A \in SUBSET F /\ cpu \in A /\ k = Cardinality(A) /\ IsFiniteSet(A) /\ k \in Nat
      <4>1. k = Cardinality(A)
        BY DEF Place
      <4>2. IsFiniteSet(A) /\ k \in Nat
        BY PlaceType
      <4> QED BY <3>0, <4>1, <4>2
    <3> HIDE DEF A, k
    <3>2. Cardinality(A) <= Cardinality(F)
      BY <1>0, <3>1, FS_Subset
    <3>3. Cardinality(A) # 0
      BY <3>1, FS_EmptySet
    <3> QED BY <1>0, <3>1, <3>2, <3>3
  <2>2. list[k] \in F /\ Place(F, list[k]) = k
    BY <1>1, <2>1
  <2>3. ~(list[k] < cpu) /\ ~(cpu < list[k])
    <3>1. Place(F, cpu) = k /\ k \in Nat
      BY PlaceType
    <3> HIDE DEF k
    <3>2. list[k] < cpu => Place(F, list[k]) < k
      BY <2>2, <3>1, PlaceGrows
    <3>3. cpu < list[k] => k < Place(F, list[k])
      BY <2>2, <3>1, PlaceGrows
    <3> QED BY <2>2, <3>1, <3>2, <3>3
  <2>4. list[k] \in Nat /\ cpu \in Nat
    BY <2>2, PlaceType
  <2>5. list[k] = cpu
    <3> DEFINE x == list[k]
    <3>1. x \in Nat /\ cpu \in Nat /\ ~(x < cpu) /\ ~(cpu < x)
      BY <2>3, <2>4
    <3> HIDE DEF x
    <3>2. x = cpu
      BY <3>1
    <3> QED BY <3>2 DEF x
  <2> QED BY <2>1, <2>5
<1>4. ToSet(list) = F
  <2>1. /\ \A k \in DOMAIN list : list[k] \in F
        /\ \A cpu \in F : \E k \in DOMAIN list : list[k] = cpu
    <3>1. \A k \in 1..Cardinality(F) : list[k] \in F
      BY <1>1
    <3>2. \A cpu \in F : \E k \in 1..Cardinality(F) : list[k] = cpu
      BY <1>3
    <3> QED BY <1>0, <3>1, <3>2
  <2> QED BY <2>1, ListHas
<1> QED BY <1>0, <1>2, <1>4

\* get_thread_cpu_set lists the cpus that were chosen and are online, in ascending
\* order, on machines with any cpus (lines 142-148 of posix/thread.cpp).
THEOREM ReadBack == Spec => []CpusReadBack
<1>1. TypeOK /\ Selected => CpusReadBack
  <2> SUFFICES ASSUME TypeOK, Selected, NEW t \in Threads, chosen[t] # {}
               PROVE  /\ ToSet(GetCpuSet(t)) = {id \in chosen[t] \cap online : id < Configured}
                      /\ \A i, j \in DOMAIN GetCpuSet(t) : i < j => GetCpuSet(t)[i] < GetCpuSet(t)[j]
    BY DEF CpusReadBack
  <2> DEFINE F == Listed(cpus[t] \cap online)
  <2>1. Configured \in Nat /\ online \subseteq Nat
    BY RoomForConfigured, MachinesAssumption DEF TypeOK
  <2>2. F \in SUBSET (0..Configured)
    BY <2>1 DEF Listed
  <2>3. F = {id \in chosen[t] \cap online : id < Configured}
    <3>1. \A id \in online : id \in 0..(Configured - 1) <=> id < Configured
      BY <2>1
    <3>2. \A id \in 0..(Configured - 1) : id \in Admitted
      <4>1. Byte * Configured >= Configured
        BY <2>1, MachinesAssumption
      <4>2. Byte * Configured \in Nat
        BY <2>1, MachinesAssumption
      <4> QED BY <2>1, <4>1, <4>2 DEF Admitted
    <3> QED BY <3>1, <3>2 DEF Listed, Selected
  <2>4. GetCpuSet(t) = [k \in 1..Cardinality(F) |->
                          CHOOSE cpu \in F : Cardinality({c \in F : c <= cpu}) = k]
    BY DEF GetCpuSet
  <2> HIDE DEF F
  <2>5. /\ DOMAIN GetCpuSet(t) = 1..Cardinality(F)
        /\ \A k \in 1..Cardinality(F) :
             GetCpuSet(t)[k] = CHOOSE cpu \in F : Cardinality({c \in F : c <= cpu}) = k
    BY <2>4
  <2>6. /\ ToSet(GetCpuSet(t)) = F
        /\ \A i, j \in DOMAIN GetCpuSet(t) : i < j => GetCpuSet(t)[i] < GetCpuSet(t)[j]
    BY <2>1, <2>2, <2>5, SortedList
  <2> QED BY <2>3, <2>6
<1>2. Spec => []Selected
  BY SelectedInit, SelectedInv, TypeCorrect, PTL DEF Spec
<1> QED BY <1>1, <1>2, TypeCorrect, PTL
================================================================================
