----------------------------- MODULE OptionsProofs -----------------------------
(***************************************************************************)
(* Proofs about OptionNames for any characters, any descriptions and any   *)
(* files: std::string's order puts whatever goes on after a prefix right   *)
(* behind it, so that one neighbour in the ordered set tells about all.    *)
(* And about OptionValues for any alphabet, texts of any length and any    *)
(* units: reading a text from left to right, with what a failed attempt    *)
(* leaves in the object, stores what the format says the text means.       *)
(***************************************************************************)
EXTENDS OptionNames, OptionValues, FiniteSetTheorems, WellFoundedInduction, TLAPS

-------------------------------------------------------------------------------
(* The order of strings. *)

\* Numbers are well-founded: what the proofs below use in place of induction.
LEMMA NatMin ==
  ASSUME NEW T, T \subseteq Nat, T # {}
  PROVE  \E x \in T : \A y \in T : x <= y
<1> DEFINE R == {ss \in Nat \X Nat : ss[1] < ss[2]}
<1>1. IsWellFoundedOn(R, Nat)
  BY NatLessThanWellFounded DEF OpToRel
<1> HIDE DEF R
<1>2. PICK x \in T : \A y \in T : ~(<<y, x>> \in R)
  BY <1>1, WFMin
<1>3. \A y \in T : ~(y < x)
  BY <1>2 DEF R
<1> QED BY <1>3

\* The characters of a string are numbers.
LEMMA Chars ==
  ASSUME NEW s \in String
  PROVE  Len(s) \in Nat /\ \A i \in 1..Len(s) : s[i] \in Int
<1>1. Len(s) \in Nat /\ \A i \in 1..Len(s) : s[i] \in Char
  BY DEF String
<1> QED BY <1>1, OptionAssumption

\* A prefix has the same characters where it has any.
LEMMA PrefixChars ==
  ASSUME NEW s \in String, NEW t \in String
  PROVE  IsPrefix(s, t) <=> Len(s) <= Len(t) /\ \A j \in 1..Len(s) : s[j] = t[j]
<1>0. Len(s) \in Nat /\ Len(t) \in Nat
  BY Chars
<1>1. ASSUME Len(s) <= Len(t)
      PROVE  SubSeq(s, 1, Len(s)) = SubSeq(t, 1, Len(s)) <=> \A j \in 1..Len(s) : s[j] = t[j]
  <2>1. /\ SubSeq(s, 1, Len(s)) = [j \in 1..Len(s) |-> s[j]]
        /\ SubSeq(t, 1, Len(s)) = [j \in 1..Len(s) |-> t[j]]
    BY <1>0, <1>1 DEF String
  <2> QED BY <2>1
<1> QED BY <1>1 DEF IsPrefix

\* Strings that are prefixes of each other are the same.
LEMMA PrefixBoth ==
  ASSUME NEW s \in String, NEW t \in String, IsPrefix(s, t), Len(t) <= Len(s)
  PROVE  s = t
<1>1. Len(s) = Len(t) /\ \A j \in 1..Len(s) : s[j] = t[j]
  BY PrefixChars, Chars
<1> QED BY <1>1 DEF String

\* The strings differ first at k, where s has the smaller character.
DiffersAt(s, t, k) ==
  /\ k \in 1..Len(s) /\ k \in 1..Len(t)
  /\ s[k] < t[k]
  /\ \A j \in 1..(k - 1) : s[j] = t[j]

LEMMA LessMeans ==
  ASSUME NEW s \in String, NEW t \in String
  PROVE  Less(s, t) <=> \/ IsPrefix(s, t) /\ Len(s) < Len(t)
                        \/ \E k \in Nat : DiffersAt(s, t, k)
<1>0. Len(s) \in Nat /\ Len(t) \in Nat
  BY Chars
<1>1. IsStrictPrefix(s, t) <=> IsPrefix(s, t) /\ Len(s) < Len(t)
  <2>1. IsPrefix(s, t) => Len(s) <= Len(t)
    BY PrefixChars
  <2>2. IsPrefix(s, t) /\ s # t => Len(s) < Len(t)
    BY <1>0, <2>1, PrefixBoth
  <2> QED BY <1>0, <2>2 DEF IsStrictPrefix
<1>2. (\E k \in 1..Len(s) : k <= Len(t) /\ s[k] < t[k] /\ \A j \in 1..(k - 1) : s[j] = t[j])
        <=> \E k \in Nat : DiffersAt(s, t, k)
  BY <1>0 DEF DiffersAt
<1> QED BY <1>1, <1>2 DEF Less

LEMMA LessIrreflexive ==
  ASSUME NEW s \in String
  PROVE  ~Less(s, s)
<1>1. \A k \in Nat : ~DiffersAt(s, s, k)
  BY Chars DEF DiffersAt
<1>2. ~(Len(s) < Len(s))
  BY Chars
<1> QED BY <1>1, <1>2, LessMeans

LEMMA LessTotal ==
  ASSUME NEW s \in String, NEW t \in String
  PROVE  s = t \/ Less(s, t) \/ Less(t, s)
<1>0. Len(s) \in Nat /\ Len(t) \in Nat
  BY Chars
<1> DEFINE D == {k \in Nat : k \in 1..Len(s) /\ k \in 1..Len(t) /\ s[k] # t[k]}
<1>1. CASE D = {}
  <2>1. \A k \in 1..Len(s) : k <= Len(t) => s[k] = t[k]
    BY <1>0, <1>1
  <2>2. CASE Len(s) <= Len(t)
    <3>1. IsPrefix(s, t)
      BY <1>0, <2>1, <2>2, PrefixChars
    <3> QED BY <1>0, <2>2, <3>1, LessMeans, PrefixBoth
  <2>3. CASE Len(t) <= Len(s)
    <3>1. IsPrefix(t, s)
      BY <1>0, <2>1, <2>3, PrefixChars
    <3> QED BY <1>0, <2>3, <3>1, LessMeans, PrefixBoth
  <2> QED BY <1>0, <2>2, <2>3
<1>2. CASE D # {}
  <2>1. PICK k \in D : \A j \in D : k <= j
    <3> HIDE DEF D
    <3>1. D \subseteq Nat
      BY DEF D
    <3> QED BY <1>2, <3>1, NatMin
  <2>2. \A j \in 1..(k - 1) : s[j] = t[j]
    BY <1>0, <2>1
  <2>3. s[k] \in Int /\ t[k] \in Int /\ s[k] # t[k]
    BY <2>1, Chars
  <2>4. DiffersAt(s, t, k) \/ DiffersAt(t, s, k)
    BY <2>1, <2>2, <2>3 DEF DiffersAt
  <2> QED BY <2>1, <2>4, LessMeans
<1> QED BY <1>1, <1>2

LEMMA LessTransitive ==
  ASSUME NEW s \in String, NEW t \in String, NEW u \in String, Less(s, t), Less(t, u)
  PROVE  Less(s, u)
<1>0. Len(s) \in Nat /\ Len(t) \in Nat /\ Len(u) \in Nat
  BY Chars
<1>1. CASE IsPrefix(s, t) /\ Len(s) < Len(t) /\ IsPrefix(t, u) /\ Len(t) < Len(u)
  <2>1. IsPrefix(s, u) /\ Len(s) < Len(u)
    BY <1>0, <1>1, PrefixChars
  <2> QED BY <2>1, LessMeans
<1>2. ASSUME IsPrefix(s, t), NEW k \in Nat, DiffersAt(t, u, k) PROVE Less(s, u)
  <2>0. Len(s) <= Len(t) /\ \A j \in 1..Len(s) : s[j] = t[j]
    BY <1>2, PrefixChars
  <2>1. CASE k <= Len(s)
    <3>1. DiffersAt(s, u, k)
      BY <1>0, <1>2, <2>0, <2>1 DEF DiffersAt
    <3> QED BY <3>1, LessMeans
  <2>2. CASE Len(s) < k
    <3>1. Len(s) < Len(u) /\ \A j \in 1..Len(s) : s[j] = u[j]
      BY <1>0, <1>2, <2>0, <2>2 DEF DiffersAt
    <3>2. IsPrefix(s, u)
      BY <1>0, <3>1, PrefixChars
    <3> QED BY <3>1, <3>2, LessMeans
  <2> QED BY <1>0, <2>1, <2>2
<1>3. ASSUME NEW k \in Nat, DiffersAt(s, t, k), IsPrefix(t, u) PROVE Less(s, u)
  <2>1. Len(t) <= Len(u) /\ \A j \in 1..Len(t) : t[j] = u[j]
    BY <1>3, PrefixChars
  <2>2. DiffersAt(s, u, k)
    BY <1>0, <1>3, <2>1 DEF DiffersAt
  <2> QED BY <2>2, LessMeans
<1>4. ASSUME NEW k \in Nat, DiffersAt(s, t, k), NEW m \in Nat, DiffersAt(t, u, m) PROVE Less(s, u)
  <2>0. \A i \in 1..Len(s) : s[i] \in Int
    BY Chars
  <2>1. (\A i \in 1..Len(t) : t[i] \in Int) /\ (\A i \in 1..Len(u) : u[i] \in Int)
    BY Chars
  <2>2. CASE k < m
    <3>1. DiffersAt(s, u, k)
      BY <1>0, <1>4, <2>2 DEF DiffersAt
    <3> QED BY <3>1, LessMeans
  <2>3. CASE m < k
    <3>1. DiffersAt(s, u, m)
      BY <1>0, <1>4, <2>3 DEF DiffersAt
    <3> QED BY <3>1, LessMeans
  <2>4. CASE m = k
    <3>1. DiffersAt(s, u, k)
      BY <1>0, <1>4, <2>0, <2>1, <2>4 DEF DiffersAt
    <3> QED BY <3>1, LessMeans
  <2> QED BY <2>2, <2>3, <2>4
<1>5. \/ IsPrefix(s, t) /\ Len(s) < Len(t)
      \/ \E k \in Nat : DiffersAt(s, t, k)
  BY LessMeans
<1>6. \/ IsPrefix(t, u) /\ Len(t) < Len(u)
      \/ \E k \in Nat : DiffersAt(t, u, k)
  BY LessMeans
<1> QED BY <1>1, <1>2, <1>3, <1>4, <1>5, <1>6

\* What starts with p is one piece of the order: nothing else comes in between.
LEMMA PrefixConvex ==
  ASSUME NEW p \in String, NEW s \in String, NEW t \in String,
         IsPrefix(p, t), p = s \/ Less(p, s), s = t \/ Less(s, t)
  PROVE  IsPrefix(p, s)
<1>0. Len(p) \in Nat /\ Len(s) \in Nat /\ Len(t) \in Nat
  BY Chars
<1>1. Len(p) <= Len(t) /\ \A j \in 1..Len(p) : p[j] = t[j]
  BY PrefixChars
<1>2. ASSUME NEW k \in Nat, DiffersAt(p, s, k) PROVE FALSE
  <2>1. DiffersAt(t, s, k)
    BY <1>0, <1>1, <1>2 DEF DiffersAt
  <2>2. Less(t, s)
    BY <2>1, LessMeans
  <2>3. Less(s, s)
    BY <2>2, LessTransitive
  <2> QED BY <2>3, LessIrreflexive
<1>3. IsPrefix(p, p)
  BY <1>0, PrefixChars
<1> QED BY <1>2, <1>3, LessMeans

-------------------------------------------------------------------------------
(* The ordered set. *)

\* Element x of the set has the fewest elements before it.
LEMMA LeastExists ==
  ASSUME NEW S \in SUBSET String, IsFiniteSet(S), S # {}
  PROVE  \E s \in S : \A t \in S : s = t \/ Less(s, t)
<1> DEFINE Smaller(s) == {u \in S : Less(u, s)}
<1> DEFINE T == {Cardinality(Smaller(s)) : s \in S}
<1>0. \A s \in S : Smaller(s) \in SUBSET S
  OBVIOUS
<1>1. \A s \in S : IsFiniteSet(Smaller(s)) /\ Cardinality(Smaller(s)) \in Nat
  <2> HIDE DEF Smaller
  <2> QED BY <1>0, FS_Subset, FS_CardinalityType
<1>2. PICK s \in S : \A t \in S : Cardinality(Smaller(s)) <= Cardinality(Smaller(t))
  <2>1. T \subseteq Nat /\ T # {}
    BY <1>1
  <2>2. PICK x \in T : \A y \in T : x <= y
    <3> HIDE DEF T
    <3> QED BY <2>1, NatMin
  <2>3. PICK s \in S : x = Cardinality(Smaller(s))
    OBVIOUS
  <2> QED BY <2>2, <2>3
<1>3. ASSUME NEW t \in S, Less(t, s) PROVE FALSE
  <2>1. Smaller(t) \in SUBSET Smaller(s)
    BY <1>3, LessTransitive
  <2>2. t \in Smaller(s) /\ t \notin Smaller(t)
    BY <1>3, LessIrreflexive
  <2>3. /\ Cardinality(Smaller(t)) <= Cardinality(Smaller(s))
        /\ Cardinality(Smaller(t)) = Cardinality(Smaller(s)) => Smaller(s) = Smaller(t)
    <3> HIDE DEF Smaller
    <3> QED BY <1>1, <2>1, FS_Subset
  <2>4. Cardinality(Smaller(t)) \in Nat /\ Cardinality(Smaller(s)) \in Nat
    BY <1>1
  <2> HIDE DEF Smaller
  <2> QED BY <1>2, <2>2, <2>3, <2>4
<1> QED BY <1>3, LessTotal

LEMMA GreatestExists ==
  ASSUME NEW S \in SUBSET String, IsFiniteSet(S), S # {}
  PROVE  \E s \in S : \A t \in S : s = t \/ Less(t, s)
<1> DEFINE Greater(s) == {u \in S : Less(s, u)}
<1> DEFINE T == {Cardinality(Greater(s)) : s \in S}
<1>0. \A s \in S : Greater(s) \in SUBSET S
  OBVIOUS
<1>1. \A s \in S : IsFiniteSet(Greater(s)) /\ Cardinality(Greater(s)) \in Nat
  <2> HIDE DEF Greater
  <2> QED BY <1>0, FS_Subset, FS_CardinalityType
<1>2. PICK s \in S : \A t \in S : Cardinality(Greater(s)) <= Cardinality(Greater(t))
  <2>1. T \subseteq Nat /\ T # {}
    BY <1>1
  <2>2. PICK x \in T : \A y \in T : x <= y
    <3> HIDE DEF T
    <3> QED BY <2>1, NatMin
  <2>3. PICK s \in S : x = Cardinality(Greater(s))
    OBVIOUS
  <2> QED BY <2>2, <2>3
<1>3. ASSUME NEW t \in S, Less(s, t) PROVE FALSE
  <2>1. Greater(t) \in SUBSET Greater(s)
    BY <1>3, LessTransitive
  <2>2. t \in Greater(s) /\ t \notin Greater(t)
    BY <1>3, LessIrreflexive
  <2>3. /\ Cardinality(Greater(t)) <= Cardinality(Greater(s))
        /\ Cardinality(Greater(t)) = Cardinality(Greater(s)) => Greater(s) = Greater(t)
    <3> HIDE DEF Greater
    <3> QED BY <1>1, <2>1, FS_Subset
  <2>4. Cardinality(Greater(t)) \in Nat /\ Cardinality(Greater(s)) \in Nat
    BY <1>1
  <2> HIDE DEF Greater
  <2> QED BY <1>2, <2>2, <2>3, <2>4
<1> QED BY <1>3, LessTotal

\* *lower_bound(p) is the least element that is not below p.
LEMMA LeastFrom ==
  ASSUME NEW S \in SUBSET String, IsFiniteSet(S), NEW p \in String, From(S, p) # {}
  PROVE  /\ Least(From(S, p)) \in S
         /\ ~Less(Least(From(S, p)), p)
         /\ \A t \in From(S, p) : Least(From(S, p)) = t \/ Less(Least(From(S, p)), t)
<1>1. From(S, p) \in SUBSET String /\ IsFiniteSet(From(S, p))
  <2>1. From(S, p) \in SUBSET S
    BY DEF From
  <2> QED BY <2>1, FS_Subset
<1>2. \E s \in From(S, p) : \A t \in From(S, p) : s = t \/ Less(s, t)
  BY <1>1, LeastExists
<1>3. /\ Least(From(S, p)) \in From(S, p)
      /\ \A t \in From(S, p) : Least(From(S, p)) = t \/ Less(Least(From(S, p)), t)
  BY <1>2 DEF Least
<1> QED BY <1>3 DEF From, Below

\* The element before lower_bound(p) is the greatest that is below p.
LEMMA GreatestBelow ==
  ASSUME NEW S \in SUBSET String, IsFiniteSet(S), NEW p \in String, Below(S, p) # {}
  PROVE  /\ Greatest(Below(S, p)) \in S
         /\ Less(Greatest(Below(S, p)), p)
         /\ \A t \in Below(S, p) : Greatest(Below(S, p)) = t \/ Less(t, Greatest(Below(S, p)))
<1>1. Below(S, p) \in SUBSET String /\ IsFiniteSet(Below(S, p))
  <2>1. Below(S, p) \in SUBSET S
    BY DEF Below
  <2> QED BY <2>1, FS_Subset
<1>2. \E s \in Below(S, p) : \A t \in Below(S, p) : s = t \/ Less(t, s)
  BY <1>1, GreatestExists
<1>3. /\ Greatest(Below(S, p)) \in Below(S, p)
      /\ \A t \in Below(S, p) : Greatest(Below(S, p)) = t \/ Less(t, Greatest(Below(S, p)))
  BY <1>2 DEF Greatest
<1> QED BY <1>3 DEF Below

\* What the tests of the neighbours rely on.
Sound == allowed_prefixes \in SUBSET String /\ IsFiniteSet(allowed_prefixes) /\ PrefixFree

\* A string and one that goes on after it.
LEMMA PrefixBelow ==
  ASSUME NEW s \in String, NEW t \in String, IsPrefix(s, t)
  PROVE  s = t \/ Less(s, t)
<1>1. Len(s) <= Len(t)
  BY PrefixChars
<1>2. Len(s) < Len(t) \/ Len(t) <= Len(s)
  BY Chars
<1> QED BY <1>2, LessMeans, PrefixBoth

LEMMA NotBoth ==
  ASSUME NEW s \in String, NEW t \in String, Less(s, t)
  PROVE  s # t /\ ~Less(t, s)
BY LessIrreflexive, LessTransitive

\* The element at lower_bound tells whether any element starts with p.
LEMMA OneAfter ==
  ASSUME Sound, NEW p \in String
  PROVE  ExtendsPrefix(p) <=> \E t \in allowed_prefixes : IsPrefix(p, t)
<1> DEFINE A == From(allowed_prefixes, p)
<1>1. ASSUME A # {}, IsPrefix(p, Least(A)) PROVE \E t \in allowed_prefixes : IsPrefix(p, t)
  BY <1>1, LeastFrom DEF Sound
<1>2. ASSUME NEW t \in allowed_prefixes, IsPrefix(p, t) PROVE A # {} /\ IsPrefix(p, Least(A))
  <2>1. t \in String
    BY DEF Sound
  <2>2. t \in A
    BY <1>2, <2>1, PrefixBelow, NotBoth, LessIrreflexive DEF From, Below
  <2>3. /\ Least(A) \in String /\ ~Less(Least(A), p)
        /\ Least(A) = t \/ Less(Least(A), t)
    BY <2>2, LeastFrom DEF Sound
  <2>4. p = Least(A) \/ Less(p, Least(A))
    BY <2>3, LessTotal
  <2> HIDE DEF A
  <2> QED BY <1>2, <2>1, <2>2, <2>3, <2>4, PrefixConvex
<1> QED BY <1>1, <1>2 DEF ExtendsPrefix

\* The element before lower_bound tells whether p goes on after any element, as no
\* element goes on after another.
LEMMA OneBefore ==
  ASSUME Sound, NEW p \in String
  PROVE  /\ Below(allowed_prefixes, p) # {} /\ IsPrefix(Greatest(Below(allowed_prefixes, p)), p)
            <=> \E t \in allowed_prefixes : IsStrictPrefix(t, p)
<1> DEFINE B == Below(allowed_prefixes, p)
<1>1. ASSUME B # {}, IsPrefix(Greatest(B), p) PROVE \E t \in allowed_prefixes : IsStrictPrefix(t, p)
  <2>1. Greatest(B) \in allowed_prefixes /\ Less(Greatest(B), p)
    BY <1>1, GreatestBelow DEF Sound
  <2>2. Greatest(B) # p
    BY <2>1, NotBoth DEF Sound
  <2> QED BY <1>1, <2>1, <2>2 DEF IsStrictPrefix
<1>2. ASSUME NEW t \in allowed_prefixes, IsStrictPrefix(t, p) PROVE B # {} /\ IsPrefix(Greatest(B), p)
  <2>1. t \in String /\ IsPrefix(t, p) /\ t # p
    BY <1>2 DEF Sound, IsStrictPrefix
  <2>2. t \in B
    BY <2>1, PrefixBelow DEF Below
  <2>3. /\ Greatest(B) \in allowed_prefixes /\ Greatest(B) \in String
        /\ Less(Greatest(B), p)
        /\ Greatest(B) = t \/ Less(t, Greatest(B))
    BY <2>2, GreatestBelow DEF Sound
  <2>4. IsPrefix(t, Greatest(B))
    <3> HIDE DEF B
    <3> QED BY <2>1, <2>3, PrefixConvex
  <2>5. t = Greatest(B)
    BY <2>3, <2>4 DEF Sound, PrefixFree
  <2> QED BY <2>1, <2>2, <2>5
<1> QED BY <1>1, <1>2

-------------------------------------------------------------------------------
(* The inductive invariant. *)

\* The sets hold what the first n options of the description put there.
Collected(n) ==
  /\ allowed_options = {description[i] : i \in 1..n}
  /\ allowed_prefixes = {Front(description[i]) : i \in Wildcards(n)}

Clash(n) ==
  \E i, j \in Wildcards(n) : i < j /\ Comparable(Front(description[i]), Front(description[j]))

Building ==
  /\ phase = "building" => Collected(next - 1) /\ ~Clash(next - 1)
  /\ phase = "overlap" => next \in 2..(Len(description) + 1) /\ Clash(next - 1)
  /\ phase \in {"matching", "done", "unknown"} => Collected(Len(description))

\* The options of the result are the first keys of the file, each with the answer
\* that the whole description gives.
Matching ==
  /\ phase \in {"building", "overlap", "abbreviated"} => options = << >> /\ keys = << >>
  /\ phase = "matching" => Len(options) = next - 1
  /\ phase = "done" => Len(options) = Len(keys)
  /\ phase = "unknown" =>
       /\ Len(options) = next - 1 /\ next <= Len(keys)
       /\ ~allow_unregistered /\ ~Described(keys[next])
  /\ Len(options) <= Len(keys)
  /\ \A i \in 1..Len(options) :
       /\ options[i].key = keys[i]
       /\ ~options[i].unregistered <=> Described(keys[i])
       /\ ~allow_unregistered => ~options[i].unregistered

IInv == TypeOK /\ Sound /\ Building /\ Matching

\* A name that ends in '*' and what is left of it.
LEMMA FrontOf ==
  ASSUME NEW s \in String, s # << >>
  PROVE  Front(s) \in String /\ Last(s) \in Char
BY DEF String, Front, Last

LEMMA NameType ==
  ASSUME TypeOK, phase = "building", next <= Len(description)
  PROVE  Name \in String /\ next \in 1..Len(description) /\ Len(description) \in Nat
BY DEF TypeOK, Name

\* An option of the description is a wildcard or it is not, whatever comes after.
LEMMA WildcardsGrow ==
  ASSUME TypeOK, next \in 1..Len(description)
  PROVE  /\ Wildcards(next) =
              IF Name # << >> /\ Last(Name) = Star THEN Wildcards(next - 1) \cup {next}
                                                   ELSE Wildcards(next - 1)
         /\ \A i \in Wildcards(next - 1) : i \in 1..(next - 1) /\ i < next
<1>1. next \in Nat /\ 1..next = 1..(next - 1) \cup {next}
  BY DEF TypeOK
<1> QED BY <1>1 DEF Wildcards, Name

\* The sets tell about a key what the description does.
LEMMA RegisteredMeansDescribed ==
  ASSUME TypeOK, Sound, Collected(Len(description)), NEW key \in String
  PROVE  Registered(key) <=> Described(key)
<1>1. Registered(key) <=>
        key \in allowed_options \/ \E t \in allowed_prefixes : IsStrictPrefix(t, key)
  BY OneBefore DEF Registered
<1>2. ToSet(description) = {description[i] : i \in 1..Len(description)}
  BY DEF ToSet, TypeOK
<1> QED BY <1>1, <1>2 DEF Described, Collected

LEMMA InitInv == Init => IInv
<1> SUFFICES ASSUME Init PROVE IInv
  OBVIOUS
<1>1. description \in Seq(String)
  BY OptionAssumption DEF Init, String
<1>2. TypeOK
  BY <1>1 DEF Init, TypeOK
<1>3. Sound
  BY FS_EmptySet DEF Init, Sound, PrefixFree
<1>4. Building
  <2>1. 1..(next - 1) = {} /\ Wildcards(next - 1) = {}
    BY DEF Init, Wildcards
  <2> QED BY <2>1 DEF Init, Building, Collected, Clash
<1>5. Matching
  BY DEF Init, Matching
<1> QED BY <1>2, <1>3, <1>4, <1>5 DEF IInv

\* The two tests of lines 33-42 find any prefix in the set that the new one may be
\* confused with.
LEMMA TestsFindOverlap ==
  ASSUME Sound, NEW p \in String
  PROVE  ExtendsPrefix(p) \/ ExtendedByPrefix(p) <=> \E t \in allowed_prefixes : Comparable(t, p)
<1>1. ExtendsPrefix(p) <=> \E t \in allowed_prefixes : IsPrefix(p, t)
  BY OneAfter
<1>2. ExtendedByPrefix(p) <=> \E t \in allowed_prefixes : IsStrictPrefix(t, p)
  BY OneBefore DEF ExtendedByPrefix
<1>3. IsPrefix(p, p)
  BY PrefixChars, Chars
<1>4. \A t \in allowed_prefixes : IsPrefix(t, p) => IsStrictPrefix(t, p) \/ IsPrefix(p, t)
  BY <1>3 DEF IsStrictPrefix
<1>5. \A t \in allowed_prefixes : IsStrictPrefix(t, p) => IsPrefix(t, p)
  BY DEF IsStrictPrefix
<1> QED BY <1>1, <1>2, <1>4, <1>5 DEF Comparable

\* Lines 18-49.
LEMMA AddOptionInv == IInv /\ AddOption => IInv'
<1> SUFFICES ASSUME IInv, AddOption PROVE IInv'
  OBVIOUS
<1>0. /\ TypeOK /\ Sound /\ Building /\ Matching
      /\ phase = "building" /\ Name # << >>
      /\ Name \in String /\ next \in 1..Len(description) /\ Len(description) \in Nat
      /\ allowed_options' = allowed_options \cup {Name}
      /\ next' = next + 1 /\ next' - 1 = next
      /\ UNCHANGED <<description, allow_unregistered, keys, options>>
  <2>1. next \in Nat
    BY DEF IInv, TypeOK
  <2> QED BY <2>1, NameType DEF IInv, AddOption
<1>1. /\ Collected(next - 1) /\ ~Clash(next - 1)
      /\ Wildcards(next) =
           IF Last(Name) = Star THEN Wildcards(next - 1) \cup {next} ELSE Wildcards(next - 1)
      /\ \A i \in Wildcards(next - 1) : i \in 1..(next - 1) /\ i < next
      /\ options = << >> /\ keys = << >>
  BY <1>0, WildcardsGrow DEF Building, Matching
<1>2. Wildcards(next - 1)' = Wildcards(next) /\ (Clash(next - 1)' <=> Clash(next))
  BY <1>0 DEF Wildcards, Clash
<1>3. allowed_options' = {description[i] : i \in 1..next}
  <2>1. 1..next = 1..(next - 1) \cup {next}
    BY <1>0
  <2> QED BY <1>0, <1>1, <2>1 DEF Collected, Name
<1>4. CASE Last(Name) # Star
  <2>1. UNCHANGED <<allowed_prefixes, phase, named>>
    BY <1>4 DEF AddOption
  <2>2. Wildcards(next) = Wildcards(next - 1)
    BY <1>1, <1>4
  <2>3. TypeOK'
    BY <1>0, <2>1 DEF TypeOK
  <2>4. Sound'
    BY <1>0, <2>1 DEF Sound, PrefixFree
  <2>5. Collected(next - 1)'
    <3>1. allowed_prefixes' = {Front(description[i]) : i \in Wildcards(next)}
      BY <1>1, <2>1, <2>2 DEF Collected
    <3> QED BY <1>0, <1>2, <1>3, <3>1 DEF Collected
  <2>6. ~Clash(next)
    BY <1>1, <2>2 DEF Clash
  <2>8. Building'
    BY <1>0, <1>2, <2>1, <2>5, <2>6 DEF Building
  <2>7. Matching'
    BY <1>0, <1>1, <2>1 DEF Matching
  <2> QED BY <2>3, <2>4, <2>7, <2>8 DEF IInv
<1>5. CASE Last(Name) = Star /\ ~(ExtendsPrefix(Front(Name)) \/ ExtendedByPrefix(Front(Name)))
  <2> DEFINE p == Front(Name)
  <2>0. p \in String
    BY <1>0, FrontOf
  <2>1. allowed_prefixes' = allowed_prefixes \cup {p} /\ UNCHANGED <<phase, named>>
    BY <1>5 DEF AddOption
  <2>2. \A t \in allowed_prefixes : ~Comparable(t, p)
    BY <1>0, <1>5, <2>0, TestsFindOverlap
  <2>3. TypeOK'
    BY <1>0, <2>0, <2>1 DEF TypeOK
  <2>4. Sound'
    <3>1. allowed_prefixes' \in SUBSET String /\ IsFiniteSet(allowed_prefixes')
      BY <1>0, <2>0, <2>1, FS_AddElement DEF Sound
    <3>2. PrefixFree'
      BY <1>0, <2>1, <2>2 DEF Sound, PrefixFree, Comparable
    <3> QED BY <3>1, <3>2 DEF Sound
  <2>5. Wildcards(next) = Wildcards(next - 1) \cup {next} /\ description[next] = Name
    BY <1>1, <1>5 DEF Name
  <2>6. Collected(next - 1)'
    <3>1. allowed_prefixes' = {Front(description[i]) : i \in Wildcards(next)}
      BY <1>1, <2>1, <2>5 DEF Collected
    <3> QED BY <1>0, <1>2, <1>3, <3>1 DEF Collected
  <2>7. ~Clash(next)
    <3> SUFFICES ASSUME NEW i \in Wildcards(next), NEW j \in Wildcards(next), i < j,
                        Comparable(Front(description[i]), Front(description[j]))
                 PROVE  FALSE
      BY DEF Clash
    <3>1. i \in Wildcards(next - 1)
      BY <1>0, <1>1, <2>5
    <3>2. CASE j \in Wildcards(next - 1)
      BY <1>1, <3>1, <3>2 DEF Clash
    <3>3. CASE j = next
      BY <1>1, <2>2, <2>5, <3>1, <3>3 DEF Collected
    <3> QED BY <2>5, <3>2, <3>3
  <2>8. Building'
    <3>1. ~Clash(next - 1)'
      BY <1>2, <2>7
    <3> QED BY <1>0, <2>1, <2>6, <3>1 DEF Building
  <2>9. Matching'
    BY <1>0, <1>1, <2>1 DEF Matching
  <2> QED BY <2>3, <2>4, <2>8, <2>9 DEF IInv
<1>6. CASE Last(Name) = Star /\ (ExtendsPrefix(Front(Name)) \/ ExtendedByPrefix(Front(Name)))
  <2> DEFINE p == Front(Name)
  <2>0. p \in String
    BY <1>0, FrontOf
  <2>1. phase' = "overlap" /\ named' = <<p, NamedInMessage(p)>> /\ UNCHANGED allowed_prefixes
    BY <1>6 DEF AddOption
  <2>2. PICK t \in allowed_prefixes : Comparable(t, p)
    BY <1>0, <1>6, <2>0, TestsFindOverlap
  <2>3. NamedInMessage(p) \in String
    <3>1. CASE Below(allowed_prefixes, p) # {}
      BY <1>0, <2>0, <3>1, GreatestBelow DEF NamedInMessage, Sound
    <3>2. CASE Below(allowed_prefixes, p) = {}
      <4>1. From(allowed_prefixes, p) # {}
        BY <2>2, <3>2 DEF From
      <4> QED BY <1>0, <2>0, <3>2, <4>1, LeastFrom DEF NamedInMessage, Sound
    <3> QED BY <3>1, <3>2
  <2>4. TypeOK'
    BY <1>0, <2>0, <2>1, <2>3 DEF TypeOK
  <2>5. Sound'
    BY <1>0, <2>1 DEF Sound, PrefixFree
  <2>6. Clash(next)
    <3>1. PICK i \in Wildcards(next - 1) : t = Front(description[i])
      BY <1>1 DEF Collected
    <3>2. i \in Wildcards(next) /\ next \in Wildcards(next) /\ i < next
      BY <1>1, <1>6
    <3> QED BY <2>2, <3>1, <3>2 DEF Clash, Name
  <2>7. Building'
    <3>1. Clash(next - 1)'
      BY <1>2, <2>6
    <3> QED BY <1>0, <2>1, <3>1 DEF Building
  <2>8. Matching'
    BY <1>0, <1>1, <2>1 DEF Matching
  <2> QED BY <2>4, <2>5, <2>7, <2>8 DEF IInv
<1> QED BY <1>4, <1>5, <1>6

\* Lines 53-71.
LEMMA MatchKeyInv == IInv /\ MatchKey => IInv'
<1> SUFFICES ASSUME IInv, MatchKey PROVE IInv'
  OBVIOUS
<1>0. /\ TypeOK /\ Sound /\ Building /\ Matching
      /\ phase = "matching" /\ next <= Len(keys) /\ Len(options) = next - 1
      /\ Collected(Len(description))
      /\ UNCHANGED <<description, allow_unregistered, allowed_options, allowed_prefixes, keys, named>>
  BY DEF IInv, MatchKey, Building, Matching
<1>1. next \in 1..Len(keys) /\ keys[next] \in String /\ Len(keys) \in Nat
  BY <1>0 DEF TypeOK
<1>2. Registered(keys[next]) <=> Described(keys[next])
  BY <1>0, <1>1, RegisteredMeansDescribed
<1>3. Sound'
  BY <1>0 DEF Sound, PrefixFree
<1>4. \A i : Described(keys[i])' <=> Described(keys[i])
  BY <1>0 DEF Described, Wildcards
<1>5. Collected(Len(description))'
  BY <1>0 DEF Collected, Wildcards
<1>6. CASE Registered(keys[next]) \/ allow_unregistered
  <2> DEFINE option == [key |-> keys[next], unregistered |-> ~Registered(keys[next])]
  <2>1. options' = Append(options, option) /\ next' = next + 1 /\ phase' = "matching"
    BY <1>0, <1>6 DEF MatchKey
  <2>2. option \in [key : String, unregistered : BOOLEAN]
    BY <1>1
  <2>3. /\ options' \in Seq([key : String, unregistered : BOOLEAN])
        /\ Len(options') = next
        /\ \A i \in 1..(next - 1) : options'[i] = options[i]
        /\ options'[next] = option
    <3>1. options \in Seq([key : String, unregistered : BOOLEAN])
      BY <1>0 DEF TypeOK
    <3> HIDE DEF option
    <3> QED BY <1>0, <1>1, <2>1, <2>2, <3>1
  <2>4. TypeOK'
    BY <1>0, <1>1, <2>1, <2>3 DEF TypeOK
  <2>5. Building'
    BY <1>5, <2>1 DEF Building
  <2>6. Matching'
    <3>1. ASSUME NEW i \in 1..next
          PROVE  /\ options'[i].key = keys[i]
                 /\ ~options'[i].unregistered <=> Described(keys[i])
                 /\ ~allow_unregistered => ~options'[i].unregistered
      <4>1. CASE i = next
        BY <1>2, <1>6, <2>3, <4>1
      <4>2. CASE i # next
        BY <1>0, <1>1, <2>3, <4>2 DEF Matching
      <4> QED BY <4>1, <4>2
    <3>2. \A i \in 1..Len(options)' :
                 /\ options'[i].key = keys'[i]
                 /\ ~options'[i].unregistered <=> Described(keys[i])'
                 /\ ~allow_unregistered' => ~options'[i].unregistered
      BY <1>0, <1>4, <2>3, <3>1
    <3>3. Len(options') = next' - 1 /\ Len(options') <= Len(keys')
      BY <1>0, <1>1, <2>1, <2>3
    <3> QED BY <2>1, <3>2, <3>3 DEF Matching
  <2> QED BY <1>3, <2>4, <2>5, <2>6 DEF IInv
<1>7. CASE ~(Registered(keys[next]) \/ allow_unregistered)
  <2>1. phase' = "unknown" /\ UNCHANGED <<options, next>>
    BY <1>0, <1>7 DEF MatchKey
  <2>2. TypeOK'
    BY <1>0, <2>1 DEF TypeOK
  <2>3. Building'
    BY <1>5, <2>1 DEF Building
  <2>4. Matching'
    <3>1. ~Described(keys[next])'
      BY <1>0, <1>2, <1>7, <2>1 DEF Described, Wildcards
    <3>2. \A i \in 1..Len(options) : Described(keys[i])' <=> Described(keys[i])
      BY <1>4
    <3>3. \A i \in 1..Len(options)' :
                 /\ options'[i].key = keys'[i]
                 /\ ~options'[i].unregistered <=> Described(keys[i])'
                 /\ ~allow_unregistered' => ~options'[i].unregistered
      BY <1>0, <2>1, <3>2 DEF Matching
    <3>4. Len(options') = next' - 1 /\ next' <= Len(keys') /\ Len(options') <= Len(keys') /\ ~allow_unregistered'
      BY <1>0, <1>1, <1>7, <2>1 DEF Matching
    <3> QED BY <2>1, <3>1, <3>3, <3>4 DEF Matching
  <2> QED BY <1>3, <2>2, <2>3, <2>4 DEF IInv
<1> QED BY <1>6, <1>7

LEMMA NextInv == IInv /\ [Next]_vars => IInv'
<1> SUFFICES ASSUME IInv, [Next]_vars PROVE IInv'
  OBVIOUS
<1>0. TypeOK /\ Sound /\ Building /\ Matching
  BY DEF IInv
<1>1. CASE RejectAbbreviated
  <2>1. /\ phase = "building" /\ phase' = "abbreviated"
        /\ UNCHANGED <<description, allow_unregistered, next, allowed_options, allowed_prefixes,
                       keys, options, named>>
    BY <1>1 DEF RejectAbbreviated
  <2>2. TypeOK'
    BY <1>0, <2>1 DEF TypeOK
  <2>3. Sound' /\ Building'
    BY <1>0, <2>1 DEF Sound, PrefixFree, Building
  <2>4. Matching'
    BY <1>0, <2>1 DEF Matching, Described, Wildcards
  <2> QED BY <2>2, <2>3, <2>4 DEF IInv
<1>2. ASSUME NEW file \in Files, ReadFile(file) PROVE IInv'
  <2>1. /\ phase = "building" /\ next > Len(description) /\ keys' = file /\ next' = 1 /\ phase' = "matching"
        /\ UNCHANGED <<description, allow_unregistered, allowed_options, allowed_prefixes, options, named>>
    BY <1>2 DEF ReadFile
  <2>2. file \in Seq(String) /\ Len(file) \in Nat
    BY OptionAssumption DEF String
  <2>3. TypeOK'
    BY <1>0, <2>1, <2>2 DEF TypeOK
  <2>4. Sound'
    BY <1>0, <2>1 DEF Sound, PrefixFree
  <2>5. next - 1 = Len(description)
    BY <1>0, <2>1 DEF TypeOK
  <2>6. Building'
    BY <1>0, <2>1, <2>5 DEF Building, Collected, Wildcards
  <2>7. Matching'
    BY <1>0, <2>1, <2>2 DEF Matching
  <2> QED BY <2>3, <2>4, <2>6, <2>7 DEF IInv
<1>3. CASE Return
  <2>1. /\ phase = "matching" /\ next > Len(keys) /\ phase' = "done"
        /\ UNCHANGED <<description, allow_unregistered, next, allowed_options, allowed_prefixes,
                       keys, options, named>>
    BY <1>3 DEF Return
  <2>2. TypeOK'
    BY <1>0, <2>1 DEF TypeOK
  <2>3. Sound'
    BY <1>0, <2>1 DEF Sound, PrefixFree
  <2>4. Building'
    BY <1>0, <2>1 DEF Building, Collected, Wildcards
  <2>5. Len(options) = Len(keys)
    BY <1>0, <2>1 DEF Matching, TypeOK
  <2>6. Matching'
    BY <1>0, <2>1, <2>5 DEF Matching, Described, Wildcards
  <2> QED BY <2>2, <2>3, <2>4, <2>6 DEF IInv
<1>4. CASE UNCHANGED vars
  <2>1. TypeOK'
    BY <1>0, <1>4 DEF vars, TypeOK
  <2>2. Sound'
    BY <1>0, <1>4 DEF vars, Sound, PrefixFree
  <2>3. Building'
    BY <1>0, <1>4 DEF vars, Building, Collected, Clash, Wildcards
  <2>4. Matching'
    BY <1>0, <1>4 DEF vars, Matching, Described, Wildcards
  <2> QED BY <2>1, <2>2, <2>3, <2>4 DEF IInv
<1> QED BY <1>1, <1>2, <1>3, <1>4, AddOptionInv, MatchKeyInv DEF Next

LEMMA InductiveInvariant == Spec => []IInv
BY InitInv, NextInv, PTL DEF Spec

-------------------------------------------------------------------------------
\* The description, the sets and the options stay of their types, for any
\* characters, any descriptions and any files.
THEOREM TypeCorrect == Spec => []TypeOK
<1>1. IInv => TypeOK
  BY DEF IInv
<1> QED BY <1>1, InductiveInvariant, PTL

\* The invariant that line 59 depends on: no allowed prefix is the start of another,
\* although lines 33-42 compare a new one with its two neighbours only.
THEOREM NoPrefixOfAnother == Spec => []PrefixFree
<1>1. IInv => PrefixFree
  BY DEF IInv, Sound
<1> QED BY <1>1, InductiveInvariant, PTL

\* Lines 33-48 refuse a description exactly if two of its options with '*' would
\* match the same key, in whichever order they were added.
THEOREM OverlapFound == Spec => []OverlapIffAmbiguous
<1>1. IInv => OverlapIffAmbiguous
  BY DEF IInv, Building, Clash, OverlapIffAmbiguous
<1> QED BY <1>1, InductiveInvariant, PTL

\* What is known at each key amounts to the property.
LEMMA MatchingMeans == IInv => RegisteredIffDescribed
<1> SUFFICES ASSUME IInv PROVE RegisteredIffDescribed
  OBVIOUS
<1>0. TypeOK /\ Matching
  BY DEF IInv
<1>1. ToSet(options) = {options[i] : i \in 1..Len(options)}
  BY <1>0 DEF ToSet, TypeOK
<1>2. \A i \in 1..Len(options) :
        /\ options[i].key = keys[i]
        /\ ~options[i].unregistered <=> Described(keys[i])
        /\ ~allow_unregistered => ~options[i].unregistered
  BY <1>0 DEF Matching
<1>3. \A option \in ToSet(options) :
        /\ ~option.unregistered <=> Described(option.key)
        /\ ~allow_unregistered => ~option.unregistered
  BY <1>1, <1>2
<1>4. [i \in 1..Len(options) |-> options[i].key] = SubSeq(keys, 1, Len(options))
  <2>1. Len(options) \in Nat /\ Len(keys) \in Nat /\ Len(options) <= Len(keys)
    BY <1>0 DEF TypeOK, Matching
  <2>2. SubSeq(keys, 1, Len(options)) = [i \in 1..Len(options) |-> keys[i]]
    BY <1>0, <2>1 DEF TypeOK
  <2> QED BY <1>2, <2>2
<1>5. phase = "unknown" => ~allow_unregistered /\ ~Described(keys[Len(options) + 1])
  <2>1. phase = "unknown" => Len(options) + 1 = next
    BY <1>0 DEF Matching, TypeOK
  <2> QED BY <1>0, <2>1 DEF Matching
<1>6. phase = "done" => Len(options) = Len(keys)
  BY <1>0 DEF Matching
<1> QED BY <1>3, <1>4, <1>5, <1>6 DEF RegisteredIffDescribed

\* The options of the result are the keys of the file in their order, each
\* registered exactly if the description has it, and parse_ini throws at the first
\* that it does not have and that may not be there (lines 53-73).
THEOREM KeysMatched == Spec => []RegisteredIffDescribed
BY MatchingMeans, InductiveInvariant, PTL

-------------------------------------------------------------------------------
(* The grammars of OptionValues.  A text is read from a position on; what  *)
(* stands there is compared with what a format says of a part of the text. *)

\* The part of a sequence from i to j.
LEMMA Part ==
  ASSUME NEW S, NEW s \in Seq(S), NEW i \in 1..(Len(s) + 1), NEW j \in (i - 1)..Len(s)
  PROVE  /\ SubSeq(s, i, j) \in Seq(S)
         /\ Len(SubSeq(s, i, j)) = j - i + 1
         /\ \A k \in 1..(j - i + 1) : SubSeq(s, i, j)[k] = s[i + k - 1]
<1>1. Len(s) \in Nat /\ i \in Nat /\ j \in Int /\ j - i + 1 \in Nat
  OBVIOUS
<1>2. SubSeq(s, i, j) = [k \in 1..(j - i + 1) |-> s[i + k - 1]]
  BY <1>1
<1>3. \A k \in 1..(j - i + 1) : s[i + k - 1] \in S
  BY <1>1
<1>4. SubSeq(s, i, j) \in [1..(j - i + 1) -> S]
  BY <1>2, <1>3
<1>5. SubSeq(s, i, j) \in Seq(S)
  BY <1>1, <1>4
<1>6. Len(SubSeq(s, i, j)) = j - i + 1
  BY <1>1, <1>4, <1>5
<1> QED BY <1>2, <1>5, <1>6

\* Sequences of the same length with the same elements are the same.
LEMMA SameElements ==
  ASSUME NEW S, NEW T, NEW s \in Seq(S), NEW t \in Seq(T), Len(s) = Len(t),
         \A k \in 1..Len(s) : s[k] = t[k]
  PROVE  s = t
OBVIOUS

\* A part of a part.
LEMMA PartOfPart ==
  ASSUME NEW S, NEW s \in Seq(S), NEW i \in 1..(Len(s) + 1), NEW j \in (i - 1)..Len(s),
         NEW k \in 1..(j - i + 2), NEW l \in (k - 1)..(j - i + 1)
  PROVE  SubSeq(SubSeq(s, i, j), k, l) = SubSeq(s, i + k - 1, i + l - 1)
<1> DEFINE t == SubSeq(s, i, j)
<1>0. Len(s) \in Nat /\ i \in Nat /\ j \in Int /\ k \in Nat /\ l \in Int
  OBVIOUS
<1>1. t \in Seq(S) /\ Len(t) = j - i + 1 /\ \A m \in 1..(j - i + 1) : t[m] = s[i + m - 1]
  BY Part
<1> HIDE DEF t
<1>2. /\ SubSeq(t, k, l) \in Seq(S)
      /\ Len(SubSeq(t, k, l)) = l - k + 1
      /\ \A m \in 1..(l - k + 1) : SubSeq(t, k, l)[m] = t[k + m - 1]
  BY <1>0, <1>1, Part
<1>3. i + k - 1 \in 1..(Len(s) + 1) /\ i + l - 1 \in (i + k - 2)..Len(s)
  BY <1>0
<1>4. /\ SubSeq(s, i + k - 1, i + l - 1) \in Seq(S)
      /\ Len(SubSeq(s, i + k - 1, i + l - 1)) = l - k + 1
      /\ \A m \in 1..(l - k + 1) : SubSeq(s, i + k - 1, i + l - 1)[m] = s[i + k - 1 + m - 1]
  <2>1. (i + l - 1) - (i + k - 1) + 1 = l - k + 1 /\ (i + k - 1) - 1 = i + k - 2
    BY <1>0
  <2> HIDE <1>1, <1>2
  <2>2. i + k - 1 \in 1..(Len(s) + 1) /\ i + l - 1 \in ((i + k - 1) - 1)..Len(s)
    BY <1>3, <2>1
  <2>3. /\ SubSeq(s, i + k - 1, i + l - 1) \in Seq(S)
        /\ Len(SubSeq(s, i + k - 1, i + l - 1)) = (i + l - 1) - (i + k - 1) + 1
        /\ \A m \in 1..((i + l - 1) - (i + k - 1) + 1) :
             SubSeq(s, i + k - 1, i + l - 1)[m] = s[i + k - 1 + m - 1]
    BY <2>2, Part
  <2> QED BY <2>1, <2>3
<1>5. \A m \in 1..(l - k + 1) : SubSeq(t, k, l)[m] = SubSeq(s, i + k - 1, i + l - 1)[m]
  <2> TAKE m \in 1..(l - k + 1)
  <2>1. k + m - 1 \in 1..(j - i + 1) /\ i + (k + m - 1) - 1 = i + k - 1 + m - 1
    BY <1>0
  <2>2. SubSeq(t, k, l)[m] = t[k + m - 1]
    BY <1>2
  <2>3. t[k + m - 1] = s[i + (k + m - 1) - 1]
    BY <1>1, <2>1
  <2>4. SubSeq(s, i + k - 1, i + l - 1)[m] = s[i + k - 1 + m - 1]
    BY <1>4
  <2> QED BY <2>1, <2>2, <2>3, <2>4
<1>6. SubSeq(t, k, l) = SubSeq(s, i + k - 1, i + l - 1)
  <2> DEFINE v == SubSeq(t, k, l)  w == SubSeq(s, i + k - 1, i + l - 1)
  <2>1. v \in Seq(S) /\ w \in Seq(S) /\ Len(v) = Len(w) /\ Len(v) = l - k + 1
    BY <1>2, <1>4, Zenon
  <2>2. \A m \in 1..Len(v) : v[m] = w[m]
    BY <1>5, <2>1, Zenon
  <2> HIDE DEF v, w
  <2>3. v = w
    BY <2>1, <2>2, SameElements
  <2> QED BY <2>3 DEF v, w
<1> QED BY <1>6 DEF t

LEMMA TextMeans ==
  ASSUME NEW t \in Text
  PROVE  /\ t \in Seq(Character) /\ Len(t) \in Nat /\ DOMAIN t = 1..Len(t)
         /\ \A i \in 1..Len(t) : t[i] \in Character
BY DEF Text

\* After is the end of the characters that are passed over.
LEMMA AfterMeans ==
  ASSUME value \in Text, NEW p \in 1..End, NEW chars
  PROVE  /\ After(p, chars) \in p..End
         /\ \A i \in p..(After(p, chars) - 1) : value[i] \in chars
         /\ After(p, chars) = End \/ value[After(p, chars)] \notin chars
<1>0. Len(value) \in Nat /\ End \in Nat /\ End = Len(value) + 1
  BY TextMeans DEF End
<1> DEFINE S == {i \in p..End : i = End \/ value[i] \notin chars}
<1>1. S \subseteq Nat /\ End \in S
  BY <1>0
<1>2. PICK x \in S : \A y \in S : x <= y
  BY <1>1, NatMin
<1>3. After(p, chars) \in S /\ \A y \in S : After(p, chars) <= y
  BY <1>2 DEF After, Min
<1> HIDE DEF S
<1> DEFINE a == After(p, chars)
<1> HIDE DEF a
<1>4. a \in p..End /\ (a = End \/ value[a] \notin chars)
  BY <1>3 DEF S, a
<1>5. ASSUME NEW i \in p..(a - 1) PROVE value[i] \in chars
  <2>1. i \in p..End /\ i < a
    BY <1>0, <1>4
  <2>2. i \notin S
    BY <1>0, <1>3, <1>4, <2>1 DEF a
  <2> QED BY <2>1, <2>2 DEF S
<1> QED BY <1>4, <1>5 DEF a

LEMMA AfterIs ==
  ASSUME value \in Text, NEW p \in 1..End, NEW chars, NEW e \in p..End,
         \A i \in p..(e - 1) : value[i] \in chars, e = End \/ value[e] \notin chars
  PROVE  After(p, chars) = e
<1>0. Len(value) \in Nat /\ End \in Nat /\ p \in Nat /\ e \in Nat
  BY TextMeans DEF End
<1> DEFINE a == After(p, chars)
<1>1. /\ a \in p..End
      /\ \A i \in p..(a - 1) : value[i] \in chars
      /\ a = End \/ value[a] \notin chars
  BY AfterMeans
<1> HIDE DEF a
<1>2. ~(a < e)
  <2> SUFFICES ASSUME a < e PROVE FALSE
    OBVIOUS
  <2>1. a \in p..(e - 1) /\ a # End
    BY <1>0, <1>1
  <2> QED BY <1>1, <2>1
<1>3. ~(e < a)
  <2> SUFFICES ASSUME e < a PROVE FALSE
    OBVIOUS
  <2>1. e \in p..(a - 1) /\ e # End
    BY <1>0, <1>1
  <2> QED BY <1>1, <2>1
<1>4. a = e
  BY <1>0, <1>1, <1>2, <1>3
<1> QED BY <1>4 DEF a

\* A symbol stands at a position if its characters do.
LEMMA AtMeans ==
  ASSUME value \in Text, NEW p \in 1..End, NEW S, NEW text \in Seq(S)
  PROVE  At(p, text) <=> /\ p + Len(text) <= End
                         /\ \A i \in 1..Len(text) : value[p + i - 1] = text[i]
<1>0. Len(value) \in Nat /\ End = Len(value) + 1 /\ Len(text) \in Nat /\ value \in Seq(Character)
  BY TextMeans DEF End
<1> DEFINE rest == SubSeq(value, p, Len(value))
           n == Len(text)
<1>1. /\ rest \in Seq(Character)
      /\ Len(rest) = Len(value) - p + 1
      /\ \A k \in 1..(Len(value) - p + 1) : rest[k] = value[p + k - 1]
  BY <1>0, Part
<1> HIDE DEF rest
<1>2. Len(text) <= Len(rest) <=> p + n <= End
  BY <1>0, <1>1
<1>3. ASSUME n <= Len(rest)
      PROVE  SubSeq(text, 1, n) = SubSeq(rest, 1, n) <=> \A i \in 1..n : value[p + i - 1] = text[i]
  <2>1. SubSeq(text, 1, n) = [k \in 1..n |-> text[k]]
    BY <1>0
  <2>2. /\ SubSeq(rest, 1, n) \in Seq(Character) /\ Len(SubSeq(rest, 1, n)) = n
        /\ \A k \in 1..n : SubSeq(rest, 1, n)[k] = rest[k]
    BY <1>0, <1>1, <1>3, Part
  <2>3. \A k \in 1..n : SubSeq(rest, 1, n)[k] = value[p + k - 1]
    BY <1>0, <1>1, <1>3, <2>2
  <2>4. SubSeq(text, 1, n) \in Seq(S) /\ Len(SubSeq(text, 1, n)) = n /\ \A k \in 1..n : SubSeq(text, 1, n)[k] = text[k]
    BY <1>0, Part
  <2>5. SubSeq(text, 1, n) = SubSeq(rest, 1, n) <=> \A k \in 1..n : SubSeq(text, 1, n)[k] = SubSeq(rest, 1, n)[k]
    BY <2>2, <2>4, SameElements
  <2> QED BY <2>3, <2>4, <2>5
<1> QED BY <1>2, <1>3 DEF At, IsPrefix, rest

\* Division: what is divided is the quotient times the divisor, and a rest.
LEMMA DivMeans ==
  ASSUME NEW a \in Nat, NEW b \in Nat \ {0}
  PROVE  /\ a \div b \in Nat /\ a % b \in 0..(b - 1)
         /\ a = (a \div b) * b + (a % b)
<1> DEFINE q == a \div b  r == a % b
<1>1. a = b * q + r /\ r \in 0..(b - 1) /\ q \in Int
  OBVIOUS
<1> HIDE DEF q, r
<1>2. q >= 0
  <2> SUFFICES ASSUME q <= -1 PROVE FALSE
    BY <1>1
  <2>1. b * q <= b * (-1)
    BY <1>1
  <2> QED BY <1>1, <2>1
<1>3. b * q = q * b
  BY <1>1
<1>4. q \in Nat /\ r \in 0..(b - 1) /\ a = q * b + r
  BY <1>1, <1>2, <1>3
<1> QED BY <1>4 DEF q, r

\* There is one quotient only.
LEMMA DivIs ==
  ASSUME NEW a \in Nat, NEW b \in Nat \ {0}, NEW q \in Nat, NEW r \in 0..(b - 1), a = q * b + r
  PROVE  a \div b = q
<1> DEFINE d == a \div b  s == a % b
<1>1. d \in Nat /\ s \in 0..(b - 1) /\ a = d * b + s
  BY DivMeans
<1> HIDE DEF d, s
<1>2. ASSUME NEW x \in Nat, NEW y \in Nat, NEW u \in 0..(b - 1), NEW v \in 0..(b - 1),
             x * b + u = y * b + v
      PROVE  ~(x < y)
  <2> SUFFICES ASSUME x + 1 <= y PROVE FALSE
    OBVIOUS
  <2>1. (x + 1) * b <= y * b
    OBVIOUS
  <2>2. (x + 1) * b = x * b + b
    OBVIOUS
  <2>3. x * b \in Int /\ y * b \in Int
    OBVIOUS
  <2> QED BY <1>2, <2>1, <2>2, <2>3
<1>3. ~(d < q) /\ ~(q < d)
  BY <1>1, <1>2
<1>4. d = q
  BY <1>1, <1>3
<1> QED BY <1>4 DEF d

\* Cancelling a factor leaves the quotient alone.
LEMMA DivCancels ==
  ASSUME NEW x \in Nat, NEW b \in Nat \ {0}, NEW g \in Nat \ {0}
  PROVE  (g * x) \div (g * b) = x \div b
<1> DEFINE q == x \div b  r == x % b
<1>1. q \in Nat /\ r \in 0..(b - 1) /\ x = q * b + r
  BY DivMeans
<1> HIDE DEF q, r
<1>2. g * x \in Nat /\ g * b \in Nat \ {0} /\ g * r \in Nat
  BY <1>1
<1>3. g * r <= g * (b - 1) /\ g * (b - 1) = g * b - g
  BY <1>1
<1>4. g * r \in 0..(g * b - 1)
  BY <1>2, <1>3
<1>5. g * x = q * (g * b) + g * r
  BY <1>1
<1>6. (g * x) \div (g * b) = q
  BY <1>1, <1>2, <1>4, <1>5, DivIs
<1> QED BY <1>6 DEF q

LEMMA GcdDivides ==
  ASSUME NEW a \in Nat \ {0}, NEW b \in Nat \ {0}
  PROVE  /\ Gcd(a, b) \in Nat \ {0}
         /\ a = Gcd(a, b) * (a \div Gcd(a, b)) /\ a \div Gcd(a, b) \in Nat \ {0}
         /\ b = Gcd(a, b) * (b \div Gcd(a, b)) /\ b \div Gcd(a, b) \in Nat \ {0}
<1> DEFINE D == {d \in 1..a : a % d = 0 /\ b % d = 0}
           T == {k \in Nat : a - k \in D}
<1>1. a % 1 = 0 /\ b % 1 = 0 /\ 1 \in 1..a
  OBVIOUS
<1>2. 1 \in D /\ D \subseteq 1..a
  BY <1>1
<1> HIDE DEF D
<1>3. a - 1 \in T /\ T \subseteq Nat
  BY <1>2
<1>4. PICK k \in T : \A l \in T : k <= l
  BY <1>3, NatMin
<1>5. a - k \in D /\ k \in Nat
  BY <1>4
<1>6. ASSUME NEW d \in D PROVE a - k >= d
  <2>1. d \in 1..a /\ a - (a - d) = d
    BY <1>2
  <2>2. a - d \in T
    BY <2>1
  <2> QED BY <1>4, <1>5, <2>1, <2>2
<1>7. Gcd(a, b) = CHOOSE x \in D : \A y \in D : x >= y
  BY Zenon DEF Gcd, Max, D
<1>8. Gcd(a, b) \in D
  BY <1>5, <1>6, <1>7
<1> DEFINE g == Gcd(a, b)
<1>9. g \in Nat \ {0} /\ a % g = 0 /\ b % g = 0
  BY <1>8 DEF D
<1> HIDE DEF g
<1>10. ASSUME NEW c \in Nat \ {0}, c % g = 0
       PROVE  c = g * (c \div g) /\ c \div g \in Nat \ {0}
  <2>1. c \div g \in Nat /\ c = (c \div g) * g + (c % g)
    BY <1>9, DivMeans
  <2> DEFINE q == c \div g
  <2> HIDE DEF q
  <2>2. q \in Nat /\ c = q * g
    BY <1>9, <1>10, <2>1 DEF q
  <2>3. q # 0 /\ c = g * q
    BY <1>9, <2>2
  <2> QED BY <2>2, <2>3 DEF q
<1> QED BY <1>9, <1>10 DEF g

\* What a conversion multiplies and divides with, and that it may do so.
LEMMA TicksConverted ==
  ASSUME tick \in Ticks, NEW unit \in Symbols, NEW n \in Nat
  PROVE  /\ n * Factor(unit) \in Nat
         /\ Divisor(unit) \in Nat \ {0}
         /\ (n * Factor(unit)) \div Divisor(unit) = (n * Length[unit]) \div tick
<1> DEFINE a == Length[unit]
<1>1. a \in Nat \ {0} /\ tick \in Nat \ {0}
  BY OptionValuesAssumption
<1> HIDE DEF a
<1> DEFINE g == Gcd(a, tick)  f == a \div g  d == tick \div g
<1>2. g \in Nat \ {0} /\ a = g * f /\ f \in Nat \ {0} /\ tick = g * d /\ d \in Nat \ {0}
  BY <1>1, GcdDivides
<1>3. Factor(unit) = f /\ Divisor(unit) = d
  BY DEF Factor, Divisor, a
<1> HIDE DEF g, f, d
<1>4. n * f \in Nat /\ n * a = g * (n * f)
  BY <1>2
<1>5. (g * (n * f)) \div (g * d) = (n * f) \div d
  BY <1>2, <1>4, DivCancels
<1>6. (n * a) \div tick = (n * f) \div d
  BY <1>2, <1>4, <1>5
<1> QED BY <1>2, <1>3, <1>4, <1>6 DEF a

-------------------------------------------------------------------------------
(* Numbers, units, and the fields of a list of durations. *)

\* f is how the first k digits are read one by one.
Reads(f, digits, k) ==
  /\ f \in [0..Len(digits) -> Nat]
  /\ f[0] = 0
  /\ \A i \in 1..k : f[i] = f[i - 1] * Base + DigitValue[digits[i]]

LEMMA ReadsExists ==
  ASSUME NEW digits \in Seq(Digits)
  PROVE  \E f : Reads(f, digits, Len(digits))
<1> DEFINE n == Len(digits)
           T == {k \in 0..n : ~\E f : Reads(f, digits, k)}
<1>0. n \in Nat /\ Base \in Nat /\ \A i \in 1..n : DigitValue[digits[i]] \in Nat
  <2>1. Base \in Nat
    BY OptionValuesAssumption, FS_CardinalityType DEF Base
  <2> QED BY <2>1, OptionValuesAssumption
<1> SUFFICES ASSUME T # {} PROVE FALSE
  BY <1>0
<1>a. T \subseteq Nat
  BY <1>0
<1>1. PICK k \in T : \A l \in T : k <= l
  <2> HIDE DEF T
  <2> QED BY <1>a, NatMin
<1>2. k \in 0..n /\ ~\E f : Reads(f, digits, k)
  BY <1>1
<1>3. k # 0
  <2> DEFINE f == [i \in 0..n |-> 0]
  <2>1. f \in [0..n -> Nat] /\ f[0] = 0
    BY <1>0
  <2> HIDE DEF f
  <2>2. Reads(f, digits, 0)
    BY <2>1 DEF Reads
  <2> QED BY <1>2, <2>2
<1>4. k - 1 \in 0..n /\ k - 1 \notin T
  <2>1. k - 1 \in 0..n /\ ~(k <= k - 1)
    BY <1>0, <1>2, <1>3
  <2> HIDE DEF T
  <2> QED BY <1>1, <2>1
<1>5. PICK f : Reads(f, digits, k - 1)
  BY <1>4
<1> DEFINE v == f[k - 1] * Base + DigitValue[digits[k]]
           g == [f EXCEPT ![k] = v]
<1>6. /\ f \in [0..n -> Nat] /\ f[0] = 0
      /\ \A i \in 1..(k - 1) : f[i] = f[i - 1] * Base + DigitValue[digits[i]]
  BY <1>5 DEF Reads
<1>7. v \in Nat
  <2>1. f[k - 1] \in Nat /\ DigitValue[digits[k]] \in Nat /\ Base \in Nat
    BY <1>0, <1>2, <1>3, <1>4, <1>6
  <2>2. ASSUME NEW x \in Nat, NEW y \in Nat, NEW z \in Nat PROVE x * y + z \in Nat
    OBVIOUS
  <2> QED BY <2>1, <2>2, Zenon
<1>8. g \in [0..n -> Nat] /\ g[k] = v /\ \A i \in 0..n : i # k => g[i] = f[i]
  BY <1>2, <1>6, <1>7
<1> HIDE DEF g
<1>9. ASSUME NEW i \in 1..k PROVE g[i] = g[i - 1] * Base + DigitValue[digits[i]]
  <2>1. i - 1 \in 0..n /\ i - 1 # k /\ i \in 0..n
    BY <1>0, <1>2
  <2>2. g[i - 1] = f[i - 1]
    BY <1>8, <2>1
  <2>3. CASE i = k
    BY <1>8, <2>2, <2>3
  <2>4. CASE i # k
    <3>1. i \in 1..(k - 1)
      BY <1>0, <1>2, <2>4
    <3> QED BY <1>6, <1>8, <2>1, <2>2, <2>4, <3>1
  <2> QED BY <2>3, <2>4
<1>10. g[0] = 0
  BY <1>0, <1>2, <1>3, <1>6, <1>8
<1>11. Reads(g, digits, k)
  BY <1>8, <1>9, <1>10 DEF Reads
<1> QED BY <1>2, <1>11

LEMMA NumberNat ==
  ASSUME NEW digits \in Seq(Digits)
  PROVE  Number(digits) \in Nat
<1> DEFINE n == Len(digits)
           read == CHOOSE read : read =
             [i \in 0..n |-> IF i = 0 THEN 0 ELSE read[i - 1] * Base + DigitValue[digits[i]]]
<1>0. n \in Nat
  OBVIOUS
<1>1. PICK f : Reads(f, digits, n)
  BY ReadsExists
<1>2. f = [i \in 0..n |-> IF i = 0 THEN 0 ELSE f[i - 1] * Base + DigitValue[digits[i]]]
  <2>1. f = [i \in 0..n |-> f[i]] /\ f[0] = 0
    BY <1>1 DEF Reads
  <2>2. \A i \in 0..n : i # 0 => f[i] = f[i - 1] * Base + DigitValue[digits[i]]
    BY <1>0, <1>1 DEF Reads
  <2> QED BY <2>1, <2>2
<1>3. read = [i \in 0..n |-> IF i = 0 THEN 0 ELSE read[i - 1] * Base + DigitValue[digits[i]]]
  BY <1>2, Zenon
<1>4. Number(digits) = read[n]
  BY Zenon DEF Number
<1> HIDE DEF read
<1> DEFINE T == {k \in 0..n : read[k] \notin Nat}
<1>5. T = {}
  <2> SUFFICES ASSUME T # {} PROVE FALSE
    OBVIOUS
  <2>a. T \subseteq Nat
    BY <1>0
  <2>1. PICK k \in T : \A l \in T : k <= l
    <3> HIDE DEF T
    <3> QED BY <2>a, NatMin
  <2>2. k \in 0..n /\ read[k] \notin Nat
    BY <2>1
  <2>3. k # 0
    BY <1>0, <1>3, <2>2
  <2>4. k - 1 \in 0..n /\ k - 1 \notin T
    BY <1>0, <2>1, <2>2, <2>3
  <2>5. read[k - 1] \in Nat
    BY <2>4
  <2>6. DigitValue[digits[k]] \in Nat /\ Base \in Nat
    <3>1. Base \in Nat
      BY OptionValuesAssumption, FS_CardinalityType DEF Base
    <3> QED BY <1>0, <2>2, <2>3, <3>1, OptionValuesAssumption
  <2>7. read[k] = read[k - 1] * Base + DigitValue[digits[k]]
    BY <1>3, <2>2, <2>3
  <2>8. read[k - 1] * Base \in Nat
    BY <2>5, <2>6
  <2> QED BY <2>2, <2>6, <2>7, <2>8
<1> QED BY <1>0, <1>4, <1>5

LEMMA SymbolMeans ==
  ASSUME NEW sym \in Symbols
  PROVE  /\ sym \in Seq(Character) /\ Len(sym) \in {1, 2}
         /\ \A i \in 1..Len(sym) : sym[i] \notin Digits /\ sym[i] # "," /\ sym[i] # ":"
<1>0. \A i \in DOMAIN sym : sym[i] \in Signs
  <2>1. \A i \in DOMAIN sym : sym[i] \in Range(sym)
    BY Zenon DEF Range
  <2>2. Range(sym) \subseteq UNION {Range(s) : s \in Symbols}
    BY Zenon
  <2> QED BY <2>1, <2>2, Zenon DEF Signs
<1>1. Len(sym) \in {1, 2} /\ DOMAIN sym = 1..Len(sym) /\ sym = [i \in 1..Len(sym) |-> sym[i]]
  <2>1. sym \in {<<"n", "s">>, <<"u", "s">>, <<"m", "s">>} \/ sym \in {<<"s">>, <<"m">>, <<"h">>}
    BY DEF Symbols
  <2>2. CASE sym \in {<<"n", "s">>, <<"u", "s">>, <<"m", "s">>}
    BY <2>2
  <2>3. CASE sym \in {<<"s">>, <<"m">>, <<"h">>}
    BY <2>3
  <2> QED BY <2>1, <2>2, <2>3
<1>2. \A i \in 1..Len(sym) : sym[i] \in Signs
  BY <1>0, <1>1
<1>3. \A i \in 1..Len(sym) : sym[i] # "," /\ sym[i] # ":"
  <2>1. sym \in {<<"n", "s">>, <<"u", "s">>, <<"m", "s">>} \/ sym \in {<<"s">>, <<"m">>, <<"h">>}
    BY DEF Symbols
  <2>2. CASE sym \in {<<"n", "s">>, <<"u", "s">>, <<"m", "s">>}
    <3>1. Len(sym) = 2 /\ sym[1] \in {"n", "u", "m"} /\ sym[2] = "s"
      BY <2>2
    <3>2. \A i \in 1..Len(sym) : i = 1 \/ i = 2
      BY <3>1
    <3> QED BY <3>1, <3>2
  <2>3. CASE sym \in {<<"s">>, <<"m">>, <<"h">>}
    <3>1. Len(sym) = 1 /\ sym[1] \in {"s", "m", "h"}
      BY <2>3
    <3>2. \A i \in 1..Len(sym) : i = 1
      BY <3>1
    <3> QED BY <3>1, <3>2
  <2> QED BY <2>1, <2>2, <2>3
<1>4. Signs \cap Digits = {}
  BY OptionValuesAssumption
<1>5. sym \in [1..Len(sym) -> Character]
  BY <1>1, <1>2 DEF Character
<1>6. sym \in Seq(Character)
  BY <1>1, <1>5
<1> QED BY <1>1, <1>2, <1>3, <1>4, <1>6

\* The longest symbol at a position, if there is one.
LEMMA UnitMeans ==
  ASSUME value \in Text, NEW p \in 1..End
  PROVE  /\ UnitAt(p) # <<>> => UnitAt(p) \in Symbols /\ At(p, UnitAt(p))
         /\ \A sym \in Symbols : At(p, sym) => Len(sym) <= Len(UnitAt(p))
<1> DEFINE found == {sym \in Symbols : At(p, sym)}
<1>0. UnitAt(p) = IF found = {} THEN <<>>
                  ELSE CHOOSE sym \in found : \A s \in found : Len(s) <= Len(sym)
  BY DEF UnitAt
<1>1. \A s \in found : Len(s) \in {1, 2}
  BY SymbolMeans
<1>2. found = {} \/ \E sym \in found : \A s \in found : Len(s) <= Len(sym)
  <2> HIDE DEF found
  <2>1. CASE \E sym \in found : Len(sym) = 2
    <3>1. PICK sym \in found : Len(sym) = 2
      BY <2>1
    <3>2. \A n \in {1, 2} : n <= 2
      OBVIOUS
    <3>3. \A s \in found : Len(s) <= Len(sym)
      BY <1>1, <3>1, <3>2, Zenon
    <3> QED BY <3>3
  <2>2. CASE ~\E sym \in found : Len(sym) = 2
    <3>1. \A s \in found : Len(s) = 1
      BY <1>1, <2>2
    <3>2. \A sym \in found, s \in found : Len(s) <= Len(sym)
      BY <3>1
    <3> QED BY <3>2
  <2> QED BY <2>1, <2>2
<1>3. CASE found = {}
  BY <1>0, <1>3
<1>4. CASE found # {}
  <2>1. UnitAt(p) \in found /\ \A s \in found : Len(s) <= Len(UnitAt(p))
    <3> HIDE DEF found
    <3>1. UnitAt(p) = CHOOSE sym \in found : \A s \in found : Len(s) <= Len(sym)
      BY <1>0, <1>4
    <3>2. \E sym \in found : \A s \in found : Len(s) <= Len(sym)
      BY <1>2, <1>4
    <3> DEFINE Longest(sym) == \A s \in found : Len(s) <= Len(sym)
    <3>3. UnitAt(p) = CHOOSE sym \in found : Longest(sym)
      BY <3>1
    <3>4. \E sym \in found : Longest(sym)
      BY <3>2
    <3> HIDE DEF Longest
    <3>5. UnitAt(p) \in found /\ Longest(UnitAt(p))
      BY <3>3, <3>4
    <3> QED BY <3>5 DEF Longest
  <2> QED BY <2>1
<1> QED BY <1>3, <1>4

\* The unit at a position ends within the text, and has no comma in it.
LEMMA UnitEnds ==
  ASSUME value \in Text, NEW p \in 1..End
  PROVE  /\ UnitAt(p) \in Symbols \cup {<<>>} /\ UnitAt(p) \in Seq(Character)
         /\ Len(UnitAt(p)) \in 0..2 /\ p + Len(UnitAt(p)) <= End
         /\ \A i \in 1..Len(UnitAt(p)) : value[p + i - 1] = UnitAt(p)[i]
         /\ \A i \in p..(p + Len(UnitAt(p)) - 1) : value[i] # ","
<1> SUFFICES ASSUME NEW u, u = UnitAt(p)
             PROVE  /\ u \in Symbols \cup {<<>>} /\ u \in Seq(Character)
                    /\ Len(u) \in 0..2 /\ p + Len(u) <= End
                    /\ \A i \in 1..Len(u) : value[p + i - 1] = u[i]
                    /\ \A i \in p..(p + Len(u) - 1) : value[i] # ","
  BY Zenon
<1>0. End \in Nat /\ p \in Nat /\ p <= End
  BY TextMeans DEF End
<1>1. CASE u = <<>>
  <2>1. Len(u) = 0 /\ u \in Seq(Character) /\ u \in Symbols \cup {<<>>}
    BY <1>1
  <2>2. 1..0 = {} /\ p..(p + 0 - 1) = {} /\ p + 0 <= End /\ 0 \in 0..2
    BY <1>0
  <2>3. 1..Len(u) = {} /\ p..(p + Len(u) - 1) = {} /\ p + Len(u) <= End /\ Len(u) \in 0..2
    BY <2>1, <2>2
  <2> QED BY <2>1, <2>3, Zenon
<1>2. CASE u # <<>>
  <2>1. u \in Symbols /\ At(p, u)
    BY <1>2, UnitMeans
  <2>2. u \in Seq(Character) /\ Len(u) \in {1, 2} /\ \A i \in 1..Len(u) : u[i] # ","
    BY <2>1, SymbolMeans
  <2>3. p + Len(u) <= End /\ \A i \in 1..Len(u) : value[p + i - 1] = u[i]
    BY <2>1, <2>2, AtMeans
  <2>b. Len(u) \in {1, 2}
    BY <2>2
  <2>4. Len(u) \in Nat /\ Len(u) \in 0..2
    BY <2>b
  <2>5. ASSUME NEW i \in p..(p + Len(u) - 1) PROVE value[i] # ","
    <3>1. i - p + 1 \in 1..Len(u) /\ p + (i - p + 1) - 1 = i
      BY <1>0, <2>4
    <3>2. value[i] = u[i - p + 1]
      BY <2>3, <3>1
    <3> QED BY <2>2, <3>1, <3>2
  <2> QED BY <2>1, <2>2, <2>3, <2>4, <2>5
<1> QED BY <1>1, <1>2

LEMMA EndMeans ==
  ASSUME value \in Text
  PROVE  /\ Len(value) \in Nat /\ End = Len(value) + 1 /\ End \in Nat
         /\ value \in Seq(Character) /\ DOMAIN value = 1..Len(value)
BY TextMeans DEF End

LEMMA CommaMeans ==
  ASSUME value \in Text
  PROVE  /\ Commas \subseteq 1..Len(value)
         /\ \A i \in 1..Len(value) : i \in Commas <=> value[i] = ","
BY TextMeans DEF Commas

\* Digits that are passed over are a number.
LEMMA DigitsRead ==
  ASSUME value \in Text, NEW p \in 1..End
  PROVE  /\ After(p, Digits) \in p..End
         /\ SubSeq(value, p, After(p, Digits) - 1) \in Seq(Digits)
         /\ Len(SubSeq(value, p, After(p, Digits) - 1)) = After(p, Digits) - p
         /\ NumberAt(p) \in Nat
<1> DEFINE a == After(p, Digits)
<1>0. Len(value) \in Nat /\ End = Len(value) + 1 /\ value \in Seq(Character)
  BY TextMeans DEF End
<1>1. a \in p..End /\ \A i \in p..(a - 1) : value[i] \in Digits
  BY AfterMeans
<1>b. NumberAt(p) = Number(SubSeq(value, p, a - 1))
  BY DEF NumberAt
<1> HIDE DEF a
<1> DEFINE d == SubSeq(value, p, a - 1)
<1>2. d \in Seq(Character) /\ Len(d) = a - p /\ \A k \in 1..(a - p) : d[k] = value[p + k - 1]
  <2>1. p \in 1..(Len(value) + 1) /\ a - 1 \in (p - 1)..Len(value) /\ a - 1 - p + 1 = a - p
    BY <1>0, <1>1
  <2> QED BY <1>0, <2>1, Part
<1> HIDE DEF d
<1>3. \A k \in 1..Len(d) : d[k] \in Digits
  BY <1>0, <1>1, <1>2
<1>4. d \in Seq(Digits)
  BY <1>2, <1>3
<1>5. Number(d) \in Nat
  BY <1>4, NumberNat
<1> QED BY <1>1, <1>b, <1>2, <1>4, <1>5 DEF a, d

LEMMA FieldMeans ==
  ASSUME value \in Text, NEW i, NEW j
  PROVE  <<i, j>> \in Fields <=>
           /\ i = 0 \/ i \in Commas
           /\ j = End \/ j \in Commas
           /\ i < j /\ \A c \in Commas : c <= i \/ j <= c
BY DEF Fields

LEMMA FieldText ==
  ASSUME value \in Text, NEW i, NEW j, <<i, j>> \in Fields
  PROVE  /\ i \in Nat /\ j \in 1..End /\ i < j
         /\ i + 1 \in 1..End
         /\ Field(<<i, j>>) = SubSeq(value, i + 1, j - 1)
         /\ Field(<<i, j>>) \in Seq(Character)
         /\ Len(Field(<<i, j>>)) = j - i - 1
<1>a. (i = 0 \/ i \in Commas) /\ (j = End \/ j \in Commas) /\ i < j
  BY FieldMeans
<1>b. Len(value) \in Nat /\ End = Len(value) + 1
  BY EndMeans
<1>c. (i = 0 \/ i \in 1..Len(value)) /\ (j = End \/ j \in 1..Len(value))
  BY <1>a, CommaMeans
<1>1. i \in Nat /\ j \in 1..End /\ i < j /\ i + 1 \in 1..End
  BY <1>a, <1>b, <1>c
<1>2. Field(<<i, j>>) = SubSeq(value, i + 1, j - 1)
  BY DEF Field
<1>3. i + 1 \in 1..(Len(value) + 1) /\ j - 1 \in ((i + 1) - 1)..Len(value) /\ (j - 1) - (i + 1) + 1 = j - i - 1
  BY <1>1, <1>b
<1>4. value \in Seq(Character)
  BY TextMeans
<1>5. SubSeq(value, i + 1, j - 1) \in Seq(Character) /\ Len(SubSeq(value, i + 1, j - 1)) = j - i - 1
  BY <1>3, <1>4, Part
<1> QED BY <1>1, <1>2, <1>5

\* What is in front of a position of a field, and what follows from it on.
LEMMA FieldPart ==
  ASSUME value \in Text, NEW i, NEW j, <<i, j>> \in Fields, NEW k \in 1..(j - i)
  PROVE  /\ Before(Field(<<i, j>>), k) = SubSeq(value, i + 1, i + k - 1)
         /\ Rest(Field(<<i, j>>), k) = SubSeq(value, i + k, j - 1)
<1> DEFINE t == Field(<<i, j>>)
           p == i + 1
           q == j - 1
           n == q - p + 1
<1>1. /\ Len(value) \in Nat /\ End = Len(value) + 1 /\ value \in Seq(Character)
      /\ i \in Nat /\ j \in 1..End /\ i < j /\ p \in 1..End
      /\ t = SubSeq(value, p, q) /\ Len(t) = j - i - 1
  BY FieldText, EndMeans
<1>2. /\ p \in 1..(Len(value) + 1) /\ q \in (p - 1)..Len(value)
      /\ 1 \in 1..(q - p + 2) /\ k - 1 \in (1 - 1)..n
      /\ k \in 1..(q - p + 2) /\ n \in (k - 1)..n
      /\ p + 1 - 1 = i + 1 /\ p + (k - 1) - 1 = i + k - 1 /\ p + k - 1 = i + k /\ p + n - 1 = j - 1
      /\ n = Len(t)
  BY <1>1
<1> HIDE DEF t, p, q, n
<1>3. SubSeq(SubSeq(value, p, q), 1, k - 1) = SubSeq(value, p + 1 - 1, p + (k - 1) - 1)
  BY <1>1, <1>2, PartOfPart DEF n
<1>4. SubSeq(SubSeq(value, p, q), k, n) = SubSeq(value, p + k - 1, p + n - 1)
  BY <1>1, <1>2, PartOfPart DEF n
<1>5. Before(t, k) = SubSeq(t, 1, k - 1) /\ Rest(t, k) = SubSeq(t, k, Len(t))
  BY DEF Before, Rest
<1> QED BY <1>1, <1>2, <1>3, <1>4, <1>5 DEF t

\* A comma is not a digit, and no unit starts with one.
LEMMA CommaNoDigit == "," \notin Digits /\ ":" \notin Digits
BY OptionValuesAssumption DEF Signs

\* What splits a field into a number and a unit splits it where the digits end.
LEMMA ReadingOfField ==
  ASSUME value \in Text, NEW i, NEW j, <<i, j>> \in Fields,
         NEW k \in 1..(Len(Field(<<i, j>>)) + 1),
         IsNumber(Before(Field(<<i, j>>), k), MaxRep),
         Rest(Field(<<i, j>>), k) \in Symbols \cup {<<>>}
  PROVE  /\ After(i + 1, Digits) = i + k
         /\ Readable(i + 1, MaxRep)
         /\ j <= i + k + Len(UnitAt(i + k))
<1> DEFINE t == Field(<<i, j>>)
<1>0. /\ Len(value) \in Nat /\ End = Len(value) + 1 /\ value \in Seq(Character)
      /\ i \in Nat /\ j \in 1..End /\ i < j /\ i + 1 \in 1..End
      /\ t = SubSeq(value, i + 1, j - 1)
      /\ t \in Seq(Character) /\ Len(t) = j - i - 1
  BY FieldText, EndMeans
<1>1. k \in 1..(j - i)
  BY <1>0
<1>2. /\ Before(t, k) = SubSeq(value, i + 1, i + k - 1)
      /\ Rest(t, k) = SubSeq(value, i + k, j - 1)
  BY <1>1, FieldPart
<1>b. IsNumber(Before(t, k), MaxRep) /\ Rest(t, k) \in Symbols \cup {<<>>}
  OBVIOUS
<1> DEFINE d == SubSeq(value, i + 1, i + k - 1)
           r == SubSeq(value, i + k, j - 1)
<1>3. d # <<>> /\ (\A m \in DOMAIN d : d[m] \in Digits) /\ Number(d) <= MaxRep
  BY <1>b, <1>2 DEF IsNumber
<1>4. /\ d \in Seq(Character) /\ Len(d) = k - 1
      /\ \A m \in 1..(k - 1) : d[m] = value[i + m]
  <2>1. /\ i + 1 \in 1..(Len(value) + 1) /\ i + k - 1 \in ((i + 1) - 1)..Len(value)
        /\ (i + k - 1) - (i + 1) + 1 = k - 1 /\ \A m \in 1..(k - 1) : (i + 1) + m - 1 = i + m
    BY <1>0, <1>1
  <2>2. /\ d \in Seq(Character) /\ Len(d) = (i + k - 1) - (i + 1) + 1
        /\ \A m \in 1..((i + k - 1) - (i + 1) + 1) : d[m] = value[(i + 1) + m - 1]
    <3> DEFINE p == i + 1  q == i + k - 1
    <3>1. p \in 1..(Len(value) + 1) /\ q \in (p - 1)..Len(value)
      BY <2>1
    <3> HIDE DEF p, q
    <3>2. /\ SubSeq(value, p, q) \in Seq(Character) /\ Len(SubSeq(value, p, q)) = q - p + 1
          /\ \A m \in 1..(q - p + 1) : SubSeq(value, p, q)[m] = value[p + m - 1]
      BY <1>0, <3>1, Part
    <3> QED BY <3>2 DEF p, q
  <2> HIDE DEF d
  <2> QED BY <2>1, <2>2
<1>5. /\ r \in Seq(Character) /\ Len(r) = j - i - k
      /\ \A m \in 1..(j - i - k) : r[m] = value[i + k + m - 1]
  <2>1. /\ i + k \in 1..(Len(value) + 1) /\ j - 1 \in ((i + k) - 1)..Len(value)
        /\ (j - 1) - (i + k) + 1 = j - i - k
    BY <1>0, <1>1
  <2> QED BY <1>0, <2>1, Part
<1>6. r \in Symbols \/ r = <<>>
  BY <1>b, <1>2
<1> HIDE DEF t, d, r
<1>7. k # 1
  <2> SUFFICES ASSUME k = 1 PROVE FALSE
    OBVIOUS
  <2>1. Len(d) = 0
    BY <1>4
  <2> QED BY <1>3, <1>4, <2>1
<1>8. \A m \in (i + 1)..(i + k - 1) : value[m] \in Digits
  <2> TAKE m \in (i + 1)..(i + k - 1)
  <2>1. m - i \in 1..(k - 1) /\ i + (m - i) = m
    BY <1>0, <1>1
  <2>2. DOMAIN d = 1..(k - 1)
    BY <1>4
  <2>3. d[m - i] \in Digits /\ d[m - i] = value[i + (m - i)]
    BY <1>3, <1>4, <2>1, <2>2
  <2> QED BY <2>1, <2>3
<1>9. i + k = End \/ value[i + k] \notin Digits
  <2>1. CASE r \in Symbols
    <3>1. Len(r) \in {1, 2} /\ \A m \in 1..Len(r) : r[m] \notin Digits
      BY <2>1, SymbolMeans
    <3>2. r[1] = value[i + k + 1 - 1] /\ r[1] \notin Digits
      BY <1>5, <3>1
    <3>3. i + k + 1 - 1 = i + k
      BY <1>0, <1>1
    <3> QED BY <3>2, <3>3
  <2>2. CASE r = <<>>
    <3>1. Len(r) = 0
      BY <2>2
    <3>2. i + k = j
      BY <1>0, <1>1, <1>5, <3>1
    <3>3. j = End \/ value[j] = ","
      <4>1. j = End \/ j \in Commas
        BY FieldMeans
      <4> QED BY <4>1, CommaMeans
    <3> QED BY <3>2, <3>3, CommaNoDigit
  <2> QED BY <1>6, <2>1, <2>2
<1>10. After(i + 1, Digits) = i + k
  <2> DEFINE p == i + 1
             e == i + k
  <2>1. /\ p \in 1..End /\ e \in p..End /\ (e = End \/ value[e] \notin Digits)
        /\ \A m \in p..(e - 1) : value[m] \in Digits
    BY <1>0, <1>1, <1>8, <1>9
  <2> HIDE DEF p, e
  <2>2. After(p, Digits) = e
    BY <2>1, AfterIs
  <2> QED BY <2>2 DEF p, e
<1>11. Readable(i + 1, MaxRep)
  <2>1. i + k > i + 1
    BY <1>0, <1>1, <1>7
  <2>2. NumberAt(i + 1) = Number(d)
    <3>1. NumberAt(i + 1) = Number(SubSeq(value, i + 1, After(i + 1, Digits) - 1))
      BY Zenon DEF NumberAt
    <3>2. d = SubSeq(value, i + 1, After(i + 1, Digits) - 1)
      <4>1. i + k - 1 = After(i + 1, Digits) - 1
        BY <1>0, <1>1, <1>10
      <4> QED BY <4>1 DEF d
    <3> QED BY <3>1, <3>2
  <2> QED BY <1>3, <1>10, <2>1, <2>2 DEF Readable
<1>12. j <= i + k + Len(UnitAt(i + k))
  <2>0. i + k \in 1..End
    BY <1>0, <1>1
  <2>1. Len(UnitAt(i + k)) \in 0..2
    BY <2>0, UnitEnds
  <2>2. CASE r \in Symbols
    <3>1. At(i + k, r)
      <4>1. i + k + Len(r) <= End /\ \A m \in 1..Len(r) : value[i + k + m - 1] = r[m]
        BY <1>0, <1>1, <1>5
      <4> QED BY <1>5, <2>0, <4>1, AtMeans
    <3>2. Len(r) <= Len(UnitAt(i + k))
      BY <2>0, <2>2, <3>1, UnitMeans
    <3> QED BY <1>0, <1>1, <1>5, <2>1, <3>2
  <2>3. CASE r = <<>>
    <3>1. Len(r) = 0
      BY <2>3
    <3>2. i + k = j
      BY <1>0, <1>1, <1>5, <3>1
    <3> QED BY <1>0, <2>1, <3>2
  <2> QED BY <1>6, <2>2, <2>3
<1> QED BY <1>10, <1>11, <1>12

\* Where the number and the unit that start a field end.
ReadTo(i) == After(i + 1, Digits) + Len(UnitAt(After(i + 1, Digits)))

\* A field is no duration if no number starts it or something follows the unit.
LEMMA FieldNotRead ==
  ASSUME value \in Text, NEW i, NEW j, <<i, j>> \in Fields,
         ~Readable(i + 1, MaxRep) \/ ReadTo(i) < j
  PROVE  AsDuration(Field(<<i, j>>)) = {}
<1> DEFINE t == Field(<<i, j>>)
<1> SUFFICES ASSUME NEW k \in 1..(Len(t) + 1), IsNumber(Before(t, k), MaxRep),
                    Rest(t, k) \in Symbols \cup {<<>>}
             PROVE  FALSE
  BY DEF AsDuration
<1>1. /\ After(i + 1, Digits) = i + k
      /\ Readable(i + 1, MaxRep)
      /\ j <= i + k + Len(UnitAt(i + k))
  BY ReadingOfField
<1>2. i \in Nat /\ j \in 1..End /\ i < j /\ Len(t) = j - i - 1 /\ End \in Nat
  <2>1. i \in Nat /\ j \in 1..End /\ i < j /\ Len(t) = j - i - 1
    BY FieldText
  <2>2. End \in Nat
    BY EndMeans
  <2> QED BY <2>1, <2>2
<1>3. Len(UnitAt(i + k)) \in 0..2
  <2>1. i + k \in 1..End
    BY <1>2
  <2> QED BY <2>1, UnitEnds
<1>4. j <= ReadTo(i) /\ ReadTo(i) \in Nat
  BY <1>1, <1>2, <1>3 DEF ReadTo
<1> QED BY <1>1, <1>2, <1>4

\* It is one if they end where the field does.
LEMMA FieldRead ==
  ASSUME value \in Text, NEW i, NEW j, <<i, j>> \in Fields,
         Readable(i + 1, MaxRep), ReadTo(i) = j
  PROVE  <<NumberAt(i + 1), UnitAt(After(i + 1, Digits))>> \in AsDuration(Field(<<i, j>>))
<1> DEFINE t == Field(<<i, j>>)
           a == After(i + 1, Digits)
           u == UnitAt(a)
           k == a - i
<1>0. /\ Len(value) \in Nat /\ End = Len(value) + 1 /\ value \in Seq(Character)
      /\ i \in Nat /\ j \in 1..End /\ i < j /\ i + 1 \in 1..End
      /\ t = SubSeq(value, i + 1, j - 1)
      /\ t \in Seq(Character) /\ Len(t) = j - i - 1
  BY FieldText, EndMeans
<1>1. a \in (i + 1)..End /\ SubSeq(value, i + 1, a - 1) \in Seq(Digits)
      /\ Len(SubSeq(value, i + 1, a - 1)) = a - (i + 1)
  BY <1>0, DigitsRead
<1>2. a > i + 1 /\ NumberAt(i + 1) <= MaxRep /\ NumberAt(i + 1) = Number(SubSeq(value, i + 1, a - 1))
  BY DEF Readable, NumberAt
<1>3. a + Len(u) = j
  BY DEF ReadTo
<1> HIDE DEF a
<1>4. a \in 1..End
  BY <1>0, <1>1
<1>5. /\ u \in Symbols \cup {<<>>} /\ u \in Seq(Character) /\ Len(u) \in 0..2
      /\ \A m \in 1..Len(u) : value[a + m - 1] = u[m]
  BY <1>4, UnitEnds
<1> HIDE DEF t, u
<1>6. /\ Before(t, k) = SubSeq(value, i + 1, a - 1)
      /\ Rest(t, k) = SubSeq(value, a, j - 1)
  <2>1. k \in 1..(j - i) /\ i + k = a /\ i + k - 1 = a - 1
    BY <1>0, <1>1, <1>3, <1>5
  <2>2. ASSUME NEW l \in 1..(j - i)
        PROVE  /\ Before(t, l) = SubSeq(value, i + 1, i + l - 1)
               /\ Rest(t, l) = SubSeq(value, i + l, j - 1)
    BY FieldPart DEF t
  <2> HIDE DEF k
  <2>3. /\ Before(t, k) = SubSeq(value, i + 1, i + k - 1)
        /\ Rest(t, k) = SubSeq(value, i + k, j - 1)
    BY <2>1, <2>2, Zenon
  <2> QED BY <2>1, <2>3, Zenon
<1>7. SubSeq(value, a, j - 1) = u
  <2>1. /\ a \in 1..(Len(value) + 1) /\ j - 1 \in (a - 1)..Len(value) /\ (j - 1) - a + 1 = Len(u)
    BY <1>0, <1>4, <1>3, <1>5
  <2>2. /\ SubSeq(value, a, j - 1) \in Seq(Character) /\ Len(SubSeq(value, a, j - 1)) = Len(u)
        /\ \A m \in 1..Len(u) : SubSeq(value, a, j - 1)[m] = value[a + m - 1]
    <3>1. /\ SubSeq(value, a, j - 1) \in Seq(Character)
          /\ Len(SubSeq(value, a, j - 1)) = (j - 1) - a + 1
          /\ \A m \in 1..((j - 1) - a + 1) : SubSeq(value, a, j - 1)[m] = value[a + m - 1]
      BY <1>0, <2>1, Part
    <3> QED BY <2>1, <3>1
  <2> DEFINE w == SubSeq(value, a, j - 1)
  <2> HIDE DEF w
  <2>3. w \in Seq(Character) /\ Len(w) = Len(u) /\ \A m \in 1..Len(w) : w[m] = u[m]
    BY <1>5, <2>2 DEF w
  <2>4. w = u
    BY <1>5, <2>3, SameElements
  <2> QED BY <2>4 DEF w
<1>8. IsNumber(Before(t, k), MaxRep)
  <2> DEFINE d == SubSeq(value, i + 1, a - 1)
  <2>1. d \in Seq(Digits) /\ Len(d) = a - (i + 1) /\ Number(d) <= MaxRep
    BY <1>1, <1>2
  <2>b. Before(t, k) = d
    BY <1>6
  <2> HIDE DEF d, k
  <2>2. Len(d) > 0 /\ Len(<<>>) = 0
    BY <1>0, <1>1, <1>2, <2>1
  <2>3. d # <<>> /\ \A m \in DOMAIN d : d[m] \in Digits
    BY <2>1, <2>2
  <2> QED BY <2>1, <2>b, <2>3 DEF IsNumber
<1>9. k \in 1..(Len(t) + 1)
  BY <1>0, <1>1, <1>3, <1>5
<1>10. <<Number(Before(t, k)), Rest(t, k)>> = <<NumberAt(i + 1), u>>
  BY <1>2, <1>6, <1>7
<1>11. Rest(t, k) \in Symbols \cup {<<>>}
  BY <1>5, <1>6, <1>7
<1>12. <<NumberAt(i + 1), u>> \in AsDuration(t)
  <2> HIDE DEF k
  <2> QED BY <1>8, <1>9, <1>10, <1>11 DEF AsDuration
<1> QED BY <1>12 DEF t, u, a

\* A duration is what its number and its unit say, and fits.
LEMMA ConvertedMeans ==
  ASSUME tick \in Ticks, NEW n \in 0..MaxRep, NEW unit \in Symbols \cup {<<>>},
         NEW d \in Converted(n, unit)
  PROVE  d \in Reps /\ Ticking(n, unit, d)
<1>0. MaxRep \in Nat /\ n \in Nat /\ n <= MaxRep
  BY OptionValuesAssumption
<1>1. CASE unit = <<>>
  <2>1. d = n
    BY <1>1 DEF Converted
  <2>2. d \in Reps
    BY <1>0, <2>1 DEF Reps
  <2>3. Ticking(n, unit, d)
    BY <1>1, <2>1, Zenon DEF Ticking
  <2> QED BY <2>2, <2>3
<1>2. CASE unit # <<>> /\ n * Factor(unit) <= MaxRep
  <2>0. unit \in Symbols
    BY <1>2
  <2>1. d = (n * Factor(unit)) \div Divisor(unit)
    BY <1>2 DEF Converted
  <2>2. /\ n * Factor(unit) \in Nat /\ Divisor(unit) \in Nat \ {0}
        /\ d = (n * Length[unit]) \div tick
    BY <1>0, <2>0, <2>1, TicksConverted
  <2> DEFINE x == n * Factor(unit)  v == Divisor(unit)
  <2>3. x \in Nat /\ v \in Nat \ {0} /\ x <= MaxRep /\ d = x \div v
    BY <1>2, <2>1, <2>2
  <2>4. Ticking(n, unit, d)
    BY <1>2, <2>2 DEF Ticking
  <2> HIDE DEF x, v
  <2> DEFINE q == x \div v  r == x % v
  <2>5. q \in Nat /\ r \in 0..(v - 1) /\ x = q * v + r /\ d = q
    BY <2>3, DivMeans
  <2> HIDE DEF q, r
  <2>6. q * v >= q
    BY <2>3, <2>5
  <2>7. d \in 0..MaxRep
    <3>1. q * v \in Nat
      BY <2>3, <2>5
    <3> QED BY <1>0, <2>3, <2>5, <2>6, <3>1
  <2> QED BY <1>0, <2>4, <2>7 DEF Reps
<1>3. CASE unit # <<>> /\ ~(n * Factor(unit) <= MaxRep)
  BY <1>3 DEF Converted, Ticking
<1> QED BY <1>1, <1>2, <1>3

LEMMA CommasAreNat ==
  ASSUME value \in Text
  PROVE  \A c \in Commas : c \in Nat /\ c \in 1..End
<1>1. Commas \subseteq 1..Len(value)
  BY CommaMeans
<1>2. Len(value) \in Nat /\ End = Len(value) + 1
  BY EndMeans
<1> QED BY <1>1, <1>2

\* No comma is passed over by a number and its unit.
LEMMA ReadToMeans ==
  ASSUME value \in Text, NEW i \in Nat, i + 1 \in 1..End, Readable(i + 1, MaxRep)
  PROVE  /\ ReadTo(i) \in (i + 2)..End
         /\ \A c \in Commas : c <= i \/ ReadTo(i) <= c
         /\ NumberAt(i + 1) \in 0..MaxRep
         /\ UnitAt(After(i + 1, Digits)) \in Symbols \cup {<<>>}
<1> DEFINE p == i + 1
<1>a. p \in 1..End /\ Readable(p, MaxRep)
  OBVIOUS
<1>b. ReadTo(i) = After(p, Digits) + Len(UnitAt(After(p, Digits)))
  BY DEF ReadTo
<1>c. p \in Nat /\ p > i /\ i + 2 = p + 1 /\ \A c \in Nat : c <= i \/ p <= c
  OBVIOUS
<1> HIDE DEF p
<1>0. Len(value) \in Nat /\ End = Len(value) + 1 /\ End \in Nat
  BY EndMeans
<1>1. SUFFICES ASSUME NEW a, a = After(p, Digits), NEW u, u = UnitAt(a)
               PROVE  /\ a + Len(u) \in (i + 2)..End
                      /\ \A c \in Commas : c <= i \/ a + Len(u) <= c
                      /\ NumberAt(p) \in 0..MaxRep
                      /\ u \in Symbols \cup {<<>>}
  BY <1>b, Zenon DEF p
<1>2. a \in p..End /\ NumberAt(p) \in Nat
  BY <1>a, <1>1, DigitsRead
<1>3. \A m \in p..(a - 1) : value[m] \in Digits
  BY <1>a, <1>1, AfterMeans
<1>4. a > p /\ NumberAt(p) <= MaxRep
  BY <1>a, <1>1 DEF Readable
<1>5. a \in 1..End
  BY <1>0, <1>2, <1>a
<1>6. /\ u \in Symbols \cup {<<>>} /\ Len(u) \in 0..2 /\ a + Len(u) <= End
      /\ \A m \in a..(a + Len(u) - 1) : value[m] # ","
  BY <1>1, <1>5, UnitEnds
<1>7. ASSUME NEW c \in Commas PROVE c <= i \/ a + Len(u) <= c
  <2>1. c \in 1..Len(value) /\ value[c] = ","
    BY CommaMeans
  <2>2. c \notin p..(a - 1)
    BY <1>3, <2>1, CommaNoDigit
  <2>3. c \notin a..(a + Len(u) - 1)
    BY <1>6, <2>1
  <2>a. Len(u) \in 0..2
    BY <1>6
  <2>b. Len(u) \in Nat
    BY <2>a
  <2>c. a \in Nat /\ c \in Nat
    BY <1>5, <1>0, CommasAreNat
  <2>4. Len(u) \in Nat /\ a \in Nat /\ c \in Nat
    BY <2>b, <2>c
  <2> QED BY <1>c, <2>2, <2>3, <2>4
<1>8. a + Len(u) \in (i + 2)..End
  <2>0. Len(u) \in 0..2
    BY <1>6
  <2>1. Len(u) \in Nat
    BY <2>0
  <2>2. a + Len(u) <= End
    BY <1>6
  <2> QED BY <1>0, <1>2, <1>4, <1>c, <2>1, <2>2
<1>9. NumberAt(p) \in 0..MaxRep
  BY <1>2, <1>4, OptionValuesAssumption
<1> QED BY <1>6, <1>7, <1>8, <1>9

\* The number of commas up to a position.
Passed(i) == Cardinality({c \in Commas : c <= i})

LEMMA PassedMeans ==
  ASSUME value \in Text, NEW i \in Nat, NEW j \in Nat, i <= j
  PROVE  Passed(i) \in Nat /\ Passed(i) <= Passed(j)
<1>1. IsFiniteSet(1..Len(value))
  BY EndMeans, FS_Interval
<1>2. IsFiniteSet(Commas)
  BY <1>1, CommaMeans, FS_Subset
<1> DEFINE A == {c \in Commas : c <= i}  B == {c \in Commas : c <= j}
<1>3. A \subseteq B /\ B \subseteq Commas
  <2>1. \A c \in Commas : c \in Nat
    BY CommasAreNat
  <2> QED BY <2>1
<1> HIDE DEF A, B
<1>4. IsFiniteSet(B) /\ IsFiniteSet(A) /\ Cardinality(A) <= Cardinality(B)
  BY <1>2, <1>3, FS_Subset
<1>5. Cardinality(A) \in Nat
  BY <1>4, FS_CardinalityType
<1> QED BY <1>4, <1>5 DEF Passed, A, B

LEMMA PassedNext ==
  ASSUME value \in Text, NEW i \in Nat, NEW j \in Commas, i < j, \A c \in Commas : c <= i \/ j <= c
  PROVE  Passed(j) = Passed(i) + 1
<1>1. IsFiniteSet(1..Len(value))
  BY EndMeans, FS_Interval
<1>2. IsFiniteSet(Commas)
  BY <1>1, CommaMeans, FS_Subset
<1>a. \A c \in Commas : c \in Nat
  BY CommasAreNat
<1> DEFINE A == {c \in Commas : c <= i}  B == {c \in Commas : c <= j}
<1>3. A \subseteq Commas /\ j \notin A /\ B = A \cup {j}
  BY <1>a
<1> HIDE DEF A, B
<1>4. IsFiniteSet(A)
  BY <1>2, <1>3, FS_Subset
<1>5. Cardinality(B) = Cardinality(A) + 1
  BY <1>3, <1>4, FS_AddElement
<1> QED BY <1>5 DEF Passed, A, B

\* All commas are passed at the end.
LEMMA PassedAll ==
  ASSUME value \in Text, NEW i \in Nat, \A c \in Commas : c <= i
  PROVE  Passed(i) = Cardinality(Commas)
<1>1. {c \in Commas : c <= i} = Commas
  OBVIOUS
<1> QED BY <1>1, Zenon DEF Passed

\* A field starts at the start of the text and at every comma.
LEMMA NextField ==
  ASSUME value \in Text, NEW i \in {0} \cup Commas
  PROVE  \E j \in 1..End : <<i, j>> \in Fields
<1>0. End \in Nat /\ 1 <= End /\ \A c \in Commas : c \in Nat /\ c \in 1..End
  BY EndMeans, CommasAreNat
<1> DEFINE S == {j \in Commas \cup {End} : i < j}
<1>a. i < End
  <2>1. i = 0 \/ i \in 1..Len(value)
    BY CommaMeans
  <2> QED BY <2>1, EndMeans
<1>1. S \subseteq Nat /\ End \in S /\ S \subseteq 1..End
  BY <1>0, <1>a
<1>2. PICK j \in S : \A k \in S : j <= k
  <2> HIDE DEF S
  <2> QED BY <1>1, NatMin
<1>3. (i = 0 \/ i \in Commas) /\ (j = End \/ j \in Commas) /\ i < j
  OBVIOUS
<1>4. ASSUME NEW c \in Commas PROVE c <= i \/ j <= c
  <2>1. c \in Nat /\ i \in Nat
    BY <1>0
  <2> QED BY <1>2, <2>1
<1>5. <<i, j>> \in Fields
  BY <1>3, <1>4, FieldMeans
<1> QED BY <1>1, <1>5

-------------------------------------------------------------------------------
(* Durations are read one after another. *)

\* A field that was read has its duration in the object.
Told(f) == \E r \in AsDuration(Field(f)) : Ticking(r[1], r[2], res[Index(f)])

\* The duration behind s is the last one that was read, and those before it are
\* what the fields before it say.
ReadFrom(s) ==
  /\ s \in {0} \cup Commas
  /\ type = "duration" => s = 0
  /\ Readable(s + 1, MaxRep) /\ begin = ReadTo(s)
  /\ Len(res) = Passed(s) + 1
  /\ Ticking(NumberAt(s + 1), UnitAt(After(s + 1, Digits)), res[Len(res)])
  /\ \A f \in Fields : f[2] <= s => Told(f)

DurationInv ==
  type \in {"duration", "durations"} =>
    /\ step # "second"
    /\ step = "first" => begin = 1 /\ res = <<>>
    /\ step = "more" => \E s \in {0} \cup Commas : ReadFrom(s)

LEMMA StartMeans ==
  ASSUME value \in Text, NEW s \in {0} \cup Commas
  PROVE  s \in Nat /\ s + 1 \in 1..End
<1>1. s = 0 \/ s \in 1..Len(value)
  BY CommaMeans
<1>2. Len(value) \in Nat /\ End = Len(value) + 1
  BY EndMeans
<1> QED BY <1>1, <1>2

\* A field is a pair of positions.
LEMMA FieldPair ==
  ASSUME NEW f \in Fields
  PROVE  f = <<f[1], f[2]>>
BY DEF Fields

\* The field behind s is told if what was read of it ends where it does.
LEMMA LastTold ==
  ASSUME value \in Text, NEW s, NEW j, <<s, j>> \in Fields, ReadFrom(s), ReadTo(s) = j
  PROVE  Told(<<s, j>>)
<1>1. /\ Readable(s + 1, MaxRep) /\ Len(res) = Passed(s) + 1
      /\ Ticking(NumberAt(s + 1), UnitAt(After(s + 1, Digits)), res[Len(res)])
  BY DEF ReadFrom
<1>2. <<NumberAt(s + 1), UnitAt(After(s + 1, Digits))>> \in AsDuration(Field(<<s, j>>))
  BY <1>1, FieldRead
<1>3. Index(<<s, j>>) = Len(res)
  BY <1>1 DEF Index, Passed
<1> QED BY <1>1, <1>2, <1>3 DEF Told

\* All fields up to where the last one that was read ends are told.
LEMMA ToldUpTo ==
  ASSUME value \in Text, NEW s, ReadFrom(s), begin = End \/ begin \in Commas,
         NEW f \in Fields, f[2] <= begin
  PROVE  Told(f)
<1>1. s \in {0} \cup Commas /\ Readable(s + 1, MaxRep) /\ begin = ReadTo(s)
  BY DEF ReadFrom
<1>2. s \in Nat /\ s + 1 \in 1..End
  BY <1>1, StartMeans
<1>3. begin \in (s + 2)..End /\ \A c \in Commas : c <= s \/ begin <= c
  BY <1>1, <1>2, ReadToMeans
<1> DEFINE i == f[1]  j == f[2]
<1>4. f = <<i, j>>
  BY FieldPair
<1> HIDE DEF i, j
<1>5. /\ i = 0 \/ i \in Commas
      /\ j = End \/ j \in Commas
      /\ i < j /\ \A c \in Commas : c <= i \/ j <= c
  BY <1>4, FieldMeans
<1>6. i \in Nat /\ j \in 1..End
  BY <1>4, FieldText
<1>7. CASE j <= s
  <2>1. f[2] <= s
    BY <1>7 DEF j
  <2> QED BY <2>1 DEF ReadFrom
<1>8. CASE ~(j <= s)
  <2>0. End \in Nat
    BY EndMeans
  <2>b. j <= begin
    BY DEF j
  <2>1. j = begin
    <3>1. j = End \/ begin <= j
      BY <1>3, <1>5, <1>8
    <3> QED BY <2>0, <1>3, <1>6, <2>b, <3>1, <1>2
  <2>2. i <= s
    <3>1. CASE i = 0
      BY <1>2, <3>1
    <3>2. CASE i \in Commas
      <4>1. i <= s \/ begin <= i
        BY <1>3, <3>2
      <4> QED BY <1>2, <1>3, <1>5, <1>6, <2>1, <4>1
    <3> QED BY <1>5, <3>1, <3>2
  <2>3. s <= i
    <3>1. CASE s = 0
      BY <1>6, <3>1
    <3>2. CASE s \in Commas
      <4>1. s <= i \/ j <= s
        BY <1>5, <3>2
      <4> QED BY <1>8, <4>1
    <3> QED BY <1>1, <3>1, <3>2
  <2>4. i = s
    BY <1>2, <1>6, <2>2, <2>3
  <2> QED BY <1>1, <1>4, <2>1, <2>4, LastTold
<1> QED BY <1>7, <1>8

\* The unit at a position depends on the text only.
LEMMA UnitUnchanged ==
  ASSUME value' = value, NEW p
  PROVE  UnitAt(p)' = UnitAt(p)
<1>1. \A sym : At(p, sym)' <=> At(p, sym)
  BY Zenon DEF At
<1>2. {sym \in Symbols : At(p, sym)'} = {sym \in Symbols : At(p, sym)}
  BY <1>1, Zenon
<1>3. UnitAt(p)' = LET found == {sym \in Symbols : At(p, sym)'}
                   IN  IF found = {} THEN <<>>
                       ELSE CHOOSE sym \in found : \A s \in found : Len(s) <= Len(sym)
  BY DEF UnitAt
<1>4. UnitAt(p) = LET found == {sym \in Symbols : At(p, sym)}
                  IN  IF found = {} THEN <<>>
                      ELSE CHOOSE sym \in found : \A s \in found : Len(s) <= Len(sym)
  BY DEF UnitAt
<1> QED BY <1>2, <1>3, <1>4

\* Reading one more: the object gets a duration more, and all else stays.
LEMMA ReadOneMore ==
  ASSUME ValueTypeOK, type \in {"duration", "durations"}, DurationInv, ReadDuration
  PROVE  ValueTypeOK' /\ DurationInv'
<1>0. /\ value \in Text /\ tick \in Ticks /\ res \in Seq(Reps) /\ begin \in 1..End
      /\ value' = value /\ type' = type /\ tick' = tick /\ step' = "more"
  BY DEF ValueTypeOK, Object, ReadDuration, End
<1>1. PICK s \in {0} \cup Commas :
        /\ Readable(s + 1, MaxRep)
        /\ type = "duration" => s = 0
        /\ begin' = ReadTo(s)
        /\ \E d \in Converted(NumberAt(s + 1), UnitAt(After(s + 1, Digits))) : res' = Append(res, d)
        /\ Len(res) = Passed(s)
        /\ \A f \in Fields : f[2] <= s => Told(f)
  <2>1. CASE step = "first"
    <3>1. begin = 1 /\ res = <<>> /\ 0 + 1 = 1
      BY <2>1 DEF DurationInv
    <3>2. /\ Readable(1, MaxRep) /\ begin' = ReadTo(0)
          /\ \E d \in Converted(NumberAt(1), UnitAt(After(1, Digits))) : res' = Append(res, d)
      BY <2>1, <3>1 DEF ReadDuration, ReadTo
    <3>3. {c \in Commas : c <= 0} = {}
      BY <1>0, CommasAreNat
    <3>4. Passed(0) = 0 /\ Len(res) = 0
      BY <3>1, <3>3, FS_EmptySet DEF Passed
    <3>5. ASSUME NEW f \in Fields, f[2] <= 0 PROVE FALSE
      <4>1. f[2] \in 1..End
        BY <1>0, FieldPair, FieldText
      <4>2. End \in Nat
        BY <1>0, EndMeans
      <4> QED BY <3>5, <4>1, <4>2
    <3> QED BY <3>1, <3>2, <3>4, <3>5
  <2>2. CASE step # "first"
    <3>1. step = "more" /\ GoesOn
      BY <2>2 DEF ReadDuration
    <3>2. PICK s \in {0} \cup Commas : ReadFrom(s)
      BY <3>1 DEF DurationInv
    <3>3. type = "durations" /\ At(begin, <<",">>) /\ Readable(begin + 1, MaxRep)
      BY <3>1 DEF GoesOn
    <3>4. begin \in Commas
      <4>1. begin + Len(<<",">>) <= End /\ \A i \in 1..Len(<<",">>) : value[begin + i - 1] = <<",">>[i]
        <5>1. <<",">> \in Seq({","})
          OBVIOUS
        <5> QED BY <1>0, <3>3, <5>1, AtMeans
      <4>2. Len(<<",">>) = 1 /\ <<",">>[1] = ","
        OBVIOUS
      <4>a. begin \in Nat /\ begin >= 1 /\ begin + 1 - 1 = begin /\ Len(value) \in Nat /\ End = Len(value) + 1
        <5>1. Len(value) \in Nat /\ End = Len(value) + 1
          BY <1>0, EndMeans
        <5> QED BY <1>0, <5>1
      <4>b. begin + 1 <= End
        BY <4>1, <4>2
      <4>c. value[begin + 1 - 1] = <<",">>[1]
        <5>1. 1 \in 1..Len(<<",">>)
          BY <4>2
        <5> HIDE <4>2
        <5> QED BY <4>1, <5>1
      <4>3. begin + 1 <= End /\ value[begin] = ","
        BY <4>2, <4>a, <4>b, <4>c
      <4>4. begin \in 1..Len(value)
        BY <4>a, <4>b
      <4> QED BY <1>0, <4>3, <4>4, CommaMeans
    <3>5. /\ begin' = ReadTo(begin)
          /\ \E d \in Converted(NumberAt(begin + 1), UnitAt(After(begin + 1, Digits))) : res' = Append(res, d)
      BY <2>2, <3>1 DEF ReadDuration, ReadTo
    <3>6. s \in Nat /\ s + 1 \in 1..End /\ Readable(s + 1, MaxRep) /\ begin = ReadTo(s)
      BY <1>0, <3>2, StartMeans DEF ReadFrom
    <3>7. begin \in (s + 2)..End /\ \A c \in Commas : c <= s \/ begin <= c
      BY <1>0, <3>6, ReadToMeans
    <3>8. Len(res) = Passed(begin)
      <4>1. s < begin
        BY <3>6, <3>7
      <4>2. Passed(begin) = Passed(s) + 1
        BY <1>0, <3>4, <3>6, <3>7, <4>1, PassedNext
      <4> QED BY <3>2, <4>2 DEF ReadFrom
    <3>9. \A f \in Fields : f[2] <= begin => Told(f)
      BY <1>0, <3>2, <3>4, ToldUpTo
    <3> QED BY <3>3, <3>4, <3>5, <3>8, <3>9
  <2> QED BY <2>1, <2>2
<1>2. PICK d \in Converted(NumberAt(s + 1), UnitAt(After(s + 1, Digits))) : res' = Append(res, d)
  BY <1>1
<1>3. s \in Nat /\ s + 1 \in 1..End
  BY <1>0, StartMeans
<1>4. /\ ReadTo(s) \in (s + 2)..End
      /\ NumberAt(s + 1) \in 0..MaxRep
      /\ UnitAt(After(s + 1, Digits)) \in Symbols \cup {<<>>}
  BY <1>0, <1>1, <1>3, ReadToMeans
<1>5. d \in Reps /\ Ticking(NumberAt(s + 1), UnitAt(After(s + 1, Digits)), d)
  BY <1>0, <1>2, <1>4, ConvertedMeans
<1>6. /\ res' \in Seq(Reps) /\ Len(res') = Len(res) + 1 /\ res'[Len(res')] = d
      /\ \A i \in 1..Len(res) : res'[i] = res[i]
  BY <1>0, <1>2, <1>5
<1>7. ValueTypeOK'
  <2>1. begin' \in 1..(Len(value) + 1)
    <3>1. End \in Nat /\ End = Len(value) + 1
      BY <1>0, EndMeans
    <3> QED BY <1>1, <1>3, <1>4, <3>1
  <2>2. Object(type) = Seq(Reps)
    BY DEF Object
  <2>3. Object(type)' = Object(type)
    BY <1>0 DEF Object
  <2>4. type \in Types /\ tick \in Ticks /\ value \in Text
    BY DEF ValueTypeOK
  <2> QED BY <1>0, <1>6, <2>1, <2>2, <2>3, <2>4 DEF ValueTypeOK
<1>8. ReadFrom(s)'
  <2>1. /\ (s \in {0} \cup Commas)' /\ (type = "duration" => s = 0)'
        /\ (Readable(s + 1, MaxRep) /\ begin = ReadTo(s))'
        /\ Passed(s)' = Passed(s)
        /\ NumberAt(s + 1)' = NumberAt(s + 1)
        /\ UnitAt(After(s + 1, Digits))' = UnitAt(After(s + 1, Digits))
    <3>1. Commas' = Commas /\ End' = End
      BY <1>0 DEF Commas, End
    <3>2. After(s + 1, Digits)' = After(s + 1, Digits)
      BY <1>0, <3>1, Zenon DEF After
    <3>3. NumberAt(s + 1)' = NumberAt(s + 1)
      BY <1>0, <3>2, Zenon DEF NumberAt
    <3>4. Readable(s + 1, MaxRep)' = Readable(s + 1, MaxRep)
      BY <3>2, <3>3 DEF Readable
    <3>5. UnitAt(After(s + 1, Digits))' = UnitAt(After(s + 1, Digits))
      <4>1. SUFFICES ASSUME NEW p, p = After(s + 1, Digits), p = After(s + 1, Digits)'
                     PROVE  UnitAt(After(s + 1, Digits))' = UnitAt(p)
        BY <3>2
      <4>2. UnitAt(p)' = UnitAt(p)
        BY <1>0, UnitUnchanged
      <4> QED BY <4>1, <4>2
    <3>6. ReadTo(s)' = ReadTo(s)
      BY <3>2, <3>5 DEF ReadTo
    <3>7. Passed(s)' = Passed(s)
      BY <3>1 DEF Passed
    <3> QED BY <1>0, <1>1, <3>1, <3>3, <3>4, <3>5, <3>6, <3>7
  <2>2. Len(res') = Passed(s) + 1
    BY <1>1, <1>6
  <2>3. Ticking(NumberAt(s + 1), UnitAt(After(s + 1, Digits)), res[Len(res)])'
    <3>1. \A n, u : Ticking(n, u, d)' <=> Ticking(n, u, d)
      BY <1>0, Zenon DEF Ticking, Factor
    <3> QED BY <1>0, <1>5, <1>6, <2>1, Zenon DEF Ticking, Factor
  <2>4. ASSUME NEW f \in Fields, f[2] <= s PROVE Told(f)'
    <3>1. Told(f)
      BY <1>1, <2>4
    <3>2. PICK r \in AsDuration(Field(f)) : Ticking(r[1], r[2], res[Index(f)])
      BY <3>1 DEF Told
    <3>3. Index(f) \in 1..Len(res)
      <4>1. PICK i, j : f = <<i, j>>
        BY FieldPair
      <4>2. i \in Nat /\ j \in 1..End /\ i < j /\ j <= s
        BY <1>0, <2>4, <4>1, FieldText
      <4>3. (j = End \/ j \in Commas) /\ \A c \in Commas : c <= i \/ j <= c
        BY <1>0, <4>1, FieldMeans
      <4>4. End \in Nat /\ j \in Nat
        BY <1>0, <4>2, EndMeans
      <4>5. j \in Commas
        BY <1>3, <4>2, <4>3, <4>4
      <4>6. Passed(j) = Passed(i) + 1
        BY <1>0, <4>2, <4>3, <4>5, PassedNext
      <4>7. Passed(i) \in Nat /\ Passed(j) <= Passed(s)
        BY <1>0, <1>3, <4>2, <4>4, PassedMeans
      <4>8. Index(f) = Passed(i) + 1
        BY <4>1 DEF Index, Passed
      <4>9. Passed(s) \in Nat
        BY <1>0, <1>1
      <4> QED BY <1>1, <4>6, <4>7, <4>8, <4>9
    <3>4. res'[Index(f)] = res[Index(f)]
      BY <1>6, <3>3
    <3>5. Index(f)' = Index(f) /\ Field(f)' = Field(f)
      BY <1>0 DEF Index, Commas, Field
    <3>6. r \in AsDuration(Field(f))'
      BY <3>2, <3>5
    <3>7. Ticking(r[1], r[2], res[Index(f)])'
      BY <1>0, <3>2, <3>4, <3>5, Zenon DEF Ticking, Factor
    <3> QED BY <3>6, <3>7 DEF Told
  <2>5. Fields' = Fields
    BY <1>0 DEF Fields, Commas, End
  <2> QED BY <2>1, <2>2, <2>3, <2>4, <2>5 DEF ReadFrom
<1>9. (s \in {0} \cup Commas)'
  BY <1>8 DEF ReadFrom
<1> QED BY <1>0, <1>7, <1>8, <1>9 DEF DurationInv

\* At the end of the text all fields are told.
LEMMA AllTold ==
  ASSUME ValueTypeOK, type \in {"duration", "durations"}, NEW s, ReadFrom(s), begin = End
  PROVE  DurationsAreRead /\ (type = "duration" => Len(res) = 1)
<1>0. value \in Text /\ End \in Nat
  BY EndMeans DEF ValueTypeOK
<1>1. /\ s \in {0} \cup Commas /\ Readable(s + 1, MaxRep) /\ begin = ReadTo(s)
      /\ Len(res) = Passed(s) + 1 /\ (type = "duration" => s = 0)
  BY DEF ReadFrom
<1>2. s \in Nat /\ s + 1 \in 1..End
  BY <1>0, <1>1, StartMeans
<1>3. \A c \in Commas : c <= s \/ begin <= c
  BY <1>0, <1>1, <1>2, ReadToMeans
<1>4. ASSUME NEW c \in Commas PROVE c <= s
  <2>1. c \in 1..Len(value) /\ End = Len(value) + 1 /\ Len(value) \in Nat
    BY <1>0, CommaMeans, EndMeans
  <2>2. ~(End <= c)
    BY <2>1
  <2> QED BY <1>3, <2>2
<1>5. Passed(s) = Cardinality(Commas)
  BY <1>0, <1>2, <1>4, PassedAll
<1>6. ASSUME NEW f \in Fields PROVE \E r \in AsDuration(Field(f)) : Ticking(r[1], r[2], res[Index(f)])
  <2>1. PICK i, j : f = <<i, j>>
    BY FieldPair
  <2>2. f[2] \in 1..End
    BY <1>0, <2>1, FieldText
  <2>3. f[2] <= begin
    BY <1>0, <2>2
  <2> QED BY <1>0, <2>3, ToldUpTo DEF Told
<1>7. type = "duration" => Len(res) = 1
  <2> SUFFICES ASSUME type = "duration" PROVE Len(res) = 1
    OBVIOUS
  <2>1. {c \in Commas : c <= 0} = {}
    BY <1>0, CommasAreNat
  <2>2. Passed(0) = 0
    BY <2>1, FS_EmptySet DEF Passed
  <2> QED BY <1>1, <2>2
<1> QED BY <1>1, <1>5, <1>6, <1>7 DEF DurationsAreRead

\* What is left of the text is in a field that is no duration, or follows a
\* duration that may not be followed.
LEMMA LeftOver ==
  ASSUME ValueTypeOK, type \in {"duration", "durations"}, NEW s, ReadFrom(s), begin # End, ~GoesOn
  PROVE  \/ \E f \in Fields : AsDuration(Field(f)) = {}
         \/ type = "duration" /\ Commas # {}
<1>0. value \in Text /\ End \in Nat /\ begin \in 1..End /\ End = Len(value) + 1 /\ Len(value) \in Nat
  BY EndMeans DEF ValueTypeOK, End
<1>1. s \in {0} \cup Commas /\ Readable(s + 1, MaxRep) /\ begin = ReadTo(s)
  BY DEF ReadFrom
<1>2. s \in Nat /\ s + 1 \in 1..End
  BY <1>0, <1>1, StartMeans
<1>3. begin \in (s + 2)..End /\ \A c \in Commas : c <= s \/ begin <= c
  BY <1>0, <1>1, <1>2, ReadToMeans
<1>4. CASE begin \in Commas
  <2>1. At(begin, <<",">>)
    <3>1. value[begin] = ","
      BY <1>0, <1>4, CommaMeans
    <3>2. Len(<<",">>) = 1 /\ <<",">>[1] = "," /\ <<",">> \in Seq({","})
      OBVIOUS
    <3>3. begin + Len(<<",">>) <= End
      BY <1>0, <3>2
    <3>4. \A i \in 1..Len(<<",">>) : value[begin + i - 1] = <<",">>[i]
      <4>1. \A i \in 1..Len(<<",">>) : i = 1
        BY <3>2
      <4>2. begin + 1 - 1 = begin
        BY <1>0
      <4> QED BY <3>1, <3>2, <4>1, <4>2
    <3> QED BY <1>0, <3>2, <3>3, <3>4, AtMeans
  <2>2. type = "duration" \/ ~Readable(begin + 1, MaxRep)
    BY <2>1 DEF GoesOn
  <2>3. CASE ~Readable(begin + 1, MaxRep)
    <3>1. PICK j \in 1..End : <<begin, j>> \in Fields
      BY <1>0, <1>4, NextField
    <3>2. AsDuration(Field(<<begin, j>>)) = {}
      BY <1>0, <2>3, <3>1, FieldNotRead
    <3> QED BY <3>1, <3>2
  <2> QED BY <1>4, <2>2, <2>3
<1>5. CASE begin \notin Commas
  <2>1. PICK j \in 1..End : <<s, j>> \in Fields
    BY <1>0, <1>1, NextField
  <2>2. (j = End \/ j \in Commas) /\ s < j
    BY <1>0, <2>1, FieldMeans
  <2>3. begin < j
    <3>1. CASE j = End
      BY <1>0, <3>1
    <3>2. CASE j \in Commas
      <4>1. j <= s \/ begin <= j
        BY <1>3, <3>2
      <4>2. begin <= j /\ begin # j
        BY <1>2, <1>5, <2>2, <3>2, <4>1
      <4> QED BY <1>0, <4>2
    <3> QED BY <2>2, <3>1, <3>2
  <2>4. AsDuration(Field(<<s, j>>)) = {}
    BY <1>0, <1>1, <2>1, <2>3, FieldNotRead
  <2> QED BY <2>1, <2>4
<1> QED BY <1>4, <1>5

LEMMA EndDurationsInv ==
  ASSUME ValueTypeOK, type \in {"duration", "durations"}, DurationInv, EndDurations
  PROVE  ValueTypeOK' /\ DurationInv' /\ OutcomeMatchesFormat'
<1>0. /\ value \in Text /\ begin \in 1..End
      /\ UNCHANGED <<type, tick, value, begin, res>>
      /\ step' = IF step = "more" /\ begin' = End THEN "stored" ELSE "thrown"
  BY DEF ValueTypeOK, End, EndDurations, Finish
<1>a. begin' = begin /\ res' = res /\ value' = value /\ type' = type /\ tick' = tick
  BY <1>0
<1>1. step' \in {"stored", "thrown"}
  BY <1>0
<1>2. ValueTypeOK'
  BY <1>a, <1>1 DEF ValueTypeOK, Object
<1>3. DurationInv'
  BY <1>1 DEF DurationInv
<1>4. step' = "stored" => DurationsAreRead /\ (type = "duration" => Len(res) = 1)
  <2> SUFFICES ASSUME step' = "stored" PROVE DurationsAreRead /\ (type = "duration" => Len(res) = 1)
    OBVIOUS
  <2>1. step = "more" /\ begin = End
    BY <1>0, <1>a
  <2>2. PICK s \in {0} \cup Commas : ReadFrom(s)
    BY <2>1 DEF DurationInv
  <2> QED BY <2>1, <2>2, AllTold
<1>5. step' = "thrown" => \/ \E f \in Fields : AsDuration(Field(f)) = {}
                          \/ type = "duration" /\ Commas # {}
  <2> SUFFICES ASSUME step' = "thrown"
               PROVE  \/ \E f \in Fields : AsDuration(Field(f)) = {}
                      \/ type = "duration" /\ Commas # {}
    OBVIOUS
  <2>1. CASE step = "more"
    <3>1. begin # End /\ ~GoesOn
      BY <1>0, <1>a, <2>1 DEF EndDurations
    <3>2. PICK s \in {0} \cup Commas : ReadFrom(s)
      BY <2>1 DEF DurationInv
    <3> QED BY <3>1, <3>2, LeftOver
  <2>2. CASE step # "more"
    <3>1. step = "first" /\ ~Readable(begin, MaxRep) /\ begin = 1
      BY <2>2 DEF EndDurations, DurationInv
    <3>2. PICK j \in 1..End : <<0, j>> \in Fields
      BY <1>0, NextField
    <3>3. ~Readable(0 + 1, MaxRep)
      <4>1. 0 + 1 = 1
        OBVIOUS
      <4> QED BY <3>1, <4>1
    <3>4. AsDuration(Field(<<0, j>>)) = {}
      BY <1>0, <3>2, <3>3, FieldNotRead
    <3> QED BY <3>2, <3>4
  <2> QED BY <2>1, <2>2
<1>6. Fields' = Fields /\ Commas' = Commas /\ \A f : Field(f)' = Field(f) /\ Index(f)' = Index(f)
  <2>1. Commas' = Commas /\ End' = End
    BY <1>a DEF Commas, End
  <2>2. Fields' = Fields
    BY <2>1 DEF Fields
  <2>3. \A f : Field(f)' = Field(f)
    BY <1>a, Zenon DEF Field
  <2>4. \A f : Index(f)' = Index(f)
    BY <2>1, Zenon DEF Index
  <2> QED BY <2>1, <2>2, <2>3, <2>4
<1>7. DurationsAreRead => DurationsAreRead'
  <2> SUFFICES ASSUME DurationsAreRead PROVE DurationsAreRead'
    OBVIOUS
  <2>1. Len(res') = Cardinality(Commas') + 1
    BY <1>a, <1>6 DEF DurationsAreRead
  <2>2. ASSUME NEW f \in Fields
        PROVE  \E r \in AsDuration(Field(f))' : Ticking(r[1], r[2], res[Index(f)])'
    <3>1. PICK r \in AsDuration(Field(f)) : Ticking(r[1], r[2], res[Index(f)])
      BY DEF DurationsAreRead
    <3>2. r \in AsDuration(Field(f))'
      BY <1>6, <3>1
    <3>3. Ticking(r[1], r[2], res[Index(f)])'
      BY <1>a, <1>6, <3>1, Zenon DEF Ticking, Factor
    <3> QED BY <3>2, <3>3
  <2> QED BY <1>6, <2>1, <2>2 DEF DurationsAreRead
<1>8. ASSUME NEW f \in Fields, AsDuration(Field(f)) = {}
      PROVE  \E g \in Fields' : AsDuration(Field(g))' = {}
  BY <1>6, <1>8
<1>9. OutcomeMatchesFormat'
  <2>1. step' = "stored" => DurationsAreRead' /\ (type' = "duration" => Len(res') = 1)
    BY <1>4, <1>7, <1>a
  <2>2. step' = "thrown" => \/ \E f \in Fields' : AsDuration(Field(f))' = {}
                            \/ type' = "duration" /\ Commas' # {}
    BY <1>5, <1>6, <1>8, <1>a
  <2>3. type' \in {"duration", "durations"}
    BY <1>a
  <2> QED BY <2>1, <2>2, <2>3 DEF OutcomeMatchesFormat
<1> QED BY <1>2, <1>3, <1>9

-------------------------------------------------------------------------------
(* Endpoints: a text from p on is split at its first colon. *)

\* The rest of the text.
TextFrom(p) == SubSeq(value, p, Len(value))

LEMMA FromMeans ==
  ASSUME value \in Text, NEW p \in 1..End
  PROVE  /\ TextFrom(p) \in Text /\ TextFrom(p) \in Seq(Character) /\ Len(TextFrom(p)) = End - p
         /\ \A k \in 1..(End - p) : TextFrom(p)[k] = value[p + k - 1]
<1>0. Len(value) \in Nat /\ End = Len(value) + 1 /\ value \in Seq(Character)
  BY EndMeans
<1>1. p \in 1..(Len(value) + 1) /\ Len(value) \in (p - 1)..Len(value) /\ Len(value) - p + 1 = End - p
  BY <1>0
<1>2. /\ TextFrom(p) \in Seq(Character) /\ Len(TextFrom(p)) = Len(value) - p + 1
      /\ \A k \in 1..(Len(value) - p + 1) : TextFrom(p)[k] = value[p + k - 1]
  BY <1>0, <1>1, Part DEF TextFrom
<1> QED BY <1>1, <1>2 DEF Text

\* The whole text, and the text from a position of its rest on.
LEMMA FromFrom ==
  ASSUME value \in Text, NEW p \in 1..End, NEW k \in 1..(End - p + 1)
  PROVE  /\ TextFrom(1) = value
         /\ Rest(TextFrom(p), k) = TextFrom(p + k - 1)
         /\ Before(TextFrom(p), k) = SubSeq(value, p, p + k - 2)
<1>0. Len(value) \in Nat /\ End = Len(value) + 1 /\ value \in Seq(Character)
  BY EndMeans
<1>1. TextFrom(1) = value
  <2>1. 1 \in 1..End /\ End - 1 = Len(value) /\ \A m \in 1..(End - 1) : 1 + m - 1 = m
    BY <1>0
  <2>2. TextFrom(1) \in Seq(Character) /\ Len(TextFrom(1)) = Len(value)
        /\ \A m \in 1..(End - 1) : TextFrom(1)[m] = value[1 + m - 1]
    BY <2>1, FromMeans
  <2>3. \A m \in 1..Len(TextFrom(1)) : TextFrom(1)[m] = value[m]
    BY <2>1, <2>2
  <2> QED BY <1>0, <2>2, <2>3, SameElements
<1> DEFINE n == Len(value)
<1>2. Len(TextFrom(p)) = n - p + 1
  BY <1>0, FromMeans
<1>3. /\ p \in 1..(n + 1) /\ n \in (p - 1)..n
      /\ 1 \in 1..(n - p + 2) /\ k - 1 \in (1 - 1)..(n - p + 1)
      /\ k \in 1..(n - p + 2) /\ n - p + 1 \in (k - 1)..(n - p + 1)
      /\ p + 1 - 1 = p /\ p + (k - 1) - 1 = p + k - 2 /\ p + (n - p + 1) - 1 = n
  BY <1>0
<1> DEFINE l == n - p + 1
<1>4. l \in (k - 1)..(n - p + 1) /\ l = Len(TextFrom(p)) /\ p + l - 1 = n
  BY <1>2, <1>3
<1> HIDE DEF n, l
<1>5. SubSeq(SubSeq(value, p, n), k, l) = SubSeq(value, p + k - 1, p + l - 1)
  BY <1>0, <1>3, <1>4, PartOfPart DEF n
<1>6. SubSeq(SubSeq(value, p, n), 1, k - 1) = SubSeq(value, p + 1 - 1, p + (k - 1) - 1)
  BY <1>0, <1>3, PartOfPart DEF n
<1>7. TextFrom(p) = SubSeq(value, p, n) /\ TextFrom(p + k - 1) = SubSeq(value, p + k - 1, n)
  BY DEF TextFrom, n
<1>8. Rest(TextFrom(p), k) = SubSeq(TextFrom(p), k, l) /\ Before(TextFrom(p), k) = SubSeq(TextFrom(p), 1, k - 1)
  BY <1>4 DEF Rest, Before
<1> QED BY <1>1, <1>3, <1>4, <1>5, <1>6, <1>7, <1>8

LEMMA WordMeans ==
  ASSUME value \in Text, NEW p \in 1..End
  PROVE  /\ WordEnd(p) \in p..End
         /\ \A i \in p..(WordEnd(p) - 1) : value[i] # ":"
         /\ WordEnd(p) # End => value[WordEnd(p)] = ":"
<1> DEFINE e == WordEnd(p)
<1>0. Len(value) \in Nat /\ End = Len(value) + 1 /\ \A i \in 1..Len(value) : value[i] \in Character
  BY EndMeans
<1>1. /\ e \in p..End
      /\ \A i \in p..(e - 1) : value[i] \in Character \ {":"}
      /\ e = End \/ value[e] \notin Character \ {":"}
  BY AfterMeans DEF WordEnd
<1> HIDE DEF e
<1>2. e # End => value[e] = ":"
  <2> SUFFICES ASSUME e # End PROVE value[e] = ":"
    OBVIOUS
  <2>1. e \in 1..Len(value)
    BY <1>0, <1>1
  <2> QED BY <1>0, <1>1, <2>1
<1> QED BY <1>1, <1>2 DEF e

\* The splits of the rest of a text are the positions up to its first colon.
LEMMA SplitMeans ==
  ASSUME value \in Text, NEW p \in 1..End
  PROVE  /\ \A k : k \in Splits(TextFrom(p)) <=> k \in 2..(WordEnd(p) - p + 1)
         /\ \A k \in Splits(TextFrom(p)) :
              k <= Len(TextFrom(p)) /\ TextFrom(p)[k] = ":" <=> WordEnd(p) # End /\ k = WordEnd(p) - p + 1
<1> DEFINE e == WordEnd(p)
           t == TextFrom(p)
           m == e - p + 1
<1>0. Len(value) \in Nat /\ End = Len(value) + 1 /\ End \in Nat /\ p \in Nat
  BY EndMeans
<1>1. e \in p..End /\ (\A i \in p..(e - 1) : value[i] # ":") /\ (e # End => value[e] = ":")
  BY WordMeans
<1>2. Len(t) = End - p /\ \A k \in 1..(End - p) : t[k] = value[p + k - 1]
  BY FromMeans
<1>a. \A k : k \in Splits(t) <=> k \in 2..(Len(t) + 1) /\ \A i \in 1..(k - 1) : t[i] # ":"
  BY DEF Splits
<1> HIDE DEF e, t
<1>3. \A i \in 1..(m - 1) : t[i] # ":"
  <2> TAKE i \in 1..(m - 1)
  <2>1. p + i - 1 \in p..(e - 1) /\ i \in 1..(End - p)
    BY <1>0, <1>1
  <2> QED BY <1>1, <1>2, <2>1
<1>4. e # End => t[m] = ":" /\ m \in 1..(End - p)
  <2> SUFFICES ASSUME e # End PROVE t[m] = ":" /\ m \in 1..(End - p)
    OBVIOUS
  <2>1. m \in 1..(End - p) /\ p + m - 1 = e
    BY <1>0, <1>1
  <2> QED BY <1>1, <1>2, <2>1
<1>5. m \in Nat /\ m <= Len(t) + 1 /\ (e = End <=> m = Len(t) + 1) /\ Len(t) \in Nat
  <2>1. e \in Nat /\ p <= e /\ e <= End
    BY <1>0, <1>1
  <2>2. Len(t) = End - p
    BY <1>2
  <2> QED BY <1>0, <2>1, <2>2
<1> HIDE DEF m
<1>6. ASSUME NEW k \in Splits(t) PROVE k \in 2..m
  <2>1. k \in 2..(Len(t) + 1) /\ \A i \in 1..(k - 1) : t[i] # ":"
    BY <1>a
  <2>2. ~(m < k)
    <3> SUFFICES ASSUME m < k PROVE FALSE
      OBVIOUS
    <3>1. e # End
      BY <1>5, <2>1
    <3>2. m \in 1..(k - 1)
      BY <1>4, <1>5, <2>1, <3>1
    <3> QED BY <1>4, <2>1, <3>1, <3>2
  <2> QED BY <1>5, <2>1, <2>2
<1>7. ASSUME NEW k \in 2..m PROVE k \in Splits(t)
  <2>1. k \in 2..(Len(t) + 1)
    BY <1>5
  <2>2. \A i \in 1..(k - 1) : i \in 1..(m - 1)
    BY <1>5
  <2> QED BY <1>3, <1>a, <2>1, <2>2
<1>8. ASSUME NEW k \in Splits(t)
      PROVE  k <= Len(t) /\ t[k] = ":" <=> e # End /\ k = m
  <2>1. k \in 2..m
    BY <1>6
  <2>2. CASE k = m
    <3>1. k <= Len(t) <=> e # End
      BY <1>5, <2>2
    <3> QED BY <1>4, <2>2, <3>1
  <2>3. CASE k # m
    <3>1. k \in 1..(m - 1)
      BY <1>5, <2>1, <2>3
    <3> QED BY <1>3, <2>3, <3>1
  <2> QED BY <2>2, <2>3
<1> QED BY <1>6, <1>7, <1>8 DEF e, t, m

\* The rest of a text is a number if its digits end with it.
LEMMA NumberRest ==
  ASSUME value \in Text, NEW q \in 1..End, NEW limit \in Nat
  PROVE  /\ IsNumber(TextFrom(q), limit) <=> Readable(q, limit) /\ After(q, Digits) = End
         /\ After(q, Digits) = End => NumberAt(q) = Number(TextFrom(q))
<1> DEFINE t == TextFrom(q)  a == After(q, Digits)
<1>0. Len(value) \in Nat /\ End = Len(value) + 1 /\ End \in Nat /\ q \in Nat
  BY EndMeans
<1>1. t \in Seq(Character) /\ Len(t) = End - q /\ \A k \in 1..(End - q) : t[k] = value[q + k - 1]
  BY FromMeans
<1>2. a \in q..End /\ (\A i \in q..(a - 1) : value[i] \in Digits) /\ (a = End \/ value[a] \notin Digits)
  BY AfterMeans
<1>3. a = End => NumberAt(q) = Number(t)
  <2>1. NumberAt(q) = Number(SubSeq(value, q, a - 1))
    BY Zenon DEF NumberAt
  <2>2. End - 1 = Len(value)
    BY <1>0
  <2> QED BY <2>1, <2>2 DEF TextFrom
<1>4. Readable(q, limit) <=> a > q /\ NumberAt(q) <= limit
  BY Zenon DEF Readable
<1>5. IsNumber(t, limit) <=> t # <<>> /\ (\A i \in DOMAIN t : t[i] \in Digits) /\ Number(t) <= limit
  BY Zenon DEF IsNumber
<1> HIDE DEF t, a
<1>6. t # <<>> <=> q < End
  <2>1. t = <<>> => Len(t) = 0
    OBVIOUS
  <2>2. Len(t) = 0 => t = <<>>
    BY <1>1
  <2> QED BY <1>0, <1>1, <2>1, <2>2
<1>7. (\A i \in DOMAIN t : t[i] \in Digits) <=> a = End
  <2>0. DOMAIN t = 1..(End - q)
    BY <1>1
  <2>1. CASE a = End
    <3>1. \A i \in 1..(End - q) : q + i - 1 \in q..(a - 1)
      BY <1>0, <2>1
    <3> QED BY <1>1, <1>2, <2>0, <2>1, <3>1
  <2>2. CASE a # End
    <3>1. a - q + 1 \in 1..(End - q) /\ q + (a - q + 1) - 1 = a
      BY <1>0, <1>2, <2>2
    <3>2. t[a - q + 1] = value[a]
      BY <1>1, <3>1
    <3> QED BY <1>2, <2>0, <2>2, <3>1, <3>2
  <2> QED BY <2>1, <2>2
<1>8. IsNumber(t, limit) <=> Readable(q, limit) /\ a = End
  BY <1>0, <1>2, <1>3, <1>4, <1>5, <1>6, <1>7
<1> QED BY <1>3, <1>8 DEF t, a

\* Reading an endpoint ends in the text, and where it ends does not depend on the
\* host that the object has already.
LEMMA EndpointTyped ==
  ASSUME value \in Text, NEW p \in 1..End, NEW host \in Text
  PROVE  /\ EndpointAt(p, host).ep \in Endpoint
         /\ EndpointAt(p, host).end \in p..End
         /\ EndpointAt(p, host).end = EndpointAt(p, <<>>).end
<1> DEFINE e == WordEnd(p)
           w == SubSeq(value, p, e - 1)
           reads == At(e, <<":">>) /\ Readable(e + 1, MaxPort)
<1>0. Len(value) \in Nat /\ End = Len(value) + 1 /\ End \in Nat /\ p \in Nat /\ value \in Seq(Character)
  BY EndMeans
<1>1. e \in p..End
  BY WordMeans
<1>2. w \in Text
  <2>1. p \in 1..(Len(value) + 1) /\ e - 1 \in (p - 1)..Len(value)
    BY <1>0, <1>1
  <2> QED BY <1>0, <2>1, Part DEF Text
<1>3. ASSUME reads
      PROVE  NumberAt(e + 1) \in 0..MaxPort /\ After(e + 1, Digits) \in p..End
  <2>1. e + Len(<<":">>) <= End
    <3>1. e \in 1..End /\ <<":">> \in Seq({":"})
      BY <1>0, <1>1
    <3> QED BY <1>3, <3>1, AtMeans
  <2>2. e + 1 \in 1..End
    <3>1. Len(<<":">>) = 1
      OBVIOUS
    <3> QED BY <1>0, <1>1, <2>1, <3>1
  <2>3. NumberAt(e + 1) \in Nat /\ After(e + 1, Digits) \in (e + 1)..End
    BY <2>2, DigitsRead
  <2>4. NumberAt(e + 1) <= MaxPort
    BY <1>3 DEF Readable
  <2> QED BY <1>0, <1>1, <2>3, <2>4, OptionValuesAssumption
<1>4. ASSUME NEW h \in Text
      PROVE  EndpointAt(p, h) = IF e = p THEN [ep |-> [host |-> h, port |-> 0], end |-> p]
                                ELSE IF reads
                                  THEN [ep |-> [host |-> h \o w, port |-> NumberAt(e + 1)],
                                        end |-> After(e + 1, Digits)]
                                  ELSE [ep |-> [host |-> h \o w, port |-> 0], end |-> e]
  BY Zenon DEF EndpointAt
<1> HIDE DEF e, w, reads
<1>5. <<>> \in Text /\ 0 \in 0..MaxPort /\ p \in p..End
  BY <1>0, OptionValuesAssumption DEF Text
<1>6. host \o w \in Text /\ <<>> \o w \in Text
  BY <1>2, <1>5 DEF Text
<1>7. CASE e = p
  BY <1>4, <1>5, <1>7 DEF Endpoint
<1>8. CASE e # p /\ reads
  <2>1. ASSUME NEW h \in Text
        PROVE  EndpointAt(p, h) = [ep |-> [host |-> h \o w, port |-> NumberAt(e + 1)],
                                   end |-> After(e + 1, Digits)]
    BY <1>4, <1>8
  <2>2. /\ EndpointAt(p, host).ep = [host |-> host \o w, port |-> NumberAt(e + 1)]
        /\ EndpointAt(p, host).end = After(e + 1, Digits)
        /\ EndpointAt(p, <<>>).end = After(e + 1, Digits)
    <3>1. EndpointAt(p, <<>>) = [ep |-> [host |-> <<>> \o w, port |-> NumberAt(e + 1)],
                                 end |-> After(e + 1, Digits)]
      BY <1>5, <2>1
    <3>2. EndpointAt(p, host) = [ep |-> [host |-> host \o w, port |-> NumberAt(e + 1)],
                                 end |-> After(e + 1, Digits)]
      BY <2>1
    <3> QED BY <3>1, <3>2
  <2>3. [host |-> host \o w, port |-> NumberAt(e + 1)] \in Endpoint
    BY <1>3, <1>6, <1>8 DEF Endpoint
  <2> QED BY <1>3, <1>8, <2>2, <2>3
<1>9. CASE e # p /\ ~reads
  <2>1. ASSUME NEW h \in Text
        PROVE  EndpointAt(p, h) = [ep |-> [host |-> h \o w, port |-> 0], end |-> e]
    BY <1>4, <1>9
  <2>2. /\ EndpointAt(p, host).ep = [host |-> host \o w, port |-> 0]
        /\ EndpointAt(p, host).end = e
        /\ EndpointAt(p, <<>>).end = e
    <3>1. EndpointAt(p, <<>>) = [ep |-> [host |-> <<>> \o w, port |-> 0], end |-> e]
      BY <1>5, <2>1
    <3>2. EndpointAt(p, host) = [ep |-> [host |-> host \o w, port |-> 0], end |-> e]
      BY <2>1
    <3> QED BY <3>1, <3>2
  <2>3. [host |-> host \o w, port |-> 0] \in Endpoint
    BY <1>5, <1>6 DEF Endpoint
  <2> QED BY <1>1, <2>2, <2>3
<1> QED BY <1>7, <1>8, <1>9

\* A colon alone.
LEMMA ColonAt ==
  ASSUME value \in Text, NEW p \in 1..End
  PROVE  At(p, <<":">>) <=> p # End /\ value[p] = ":"
<1>0. Len(value) \in Nat /\ End = Len(value) + 1 /\ End \in Nat /\ p \in Nat /\ p <= End
  BY EndMeans
<1>1. <<":">> \in Seq({":"}) /\ Len(<<":">>) = 1 /\ <<":">>[1] = ":"
  OBVIOUS
<1>2. At(p, <<":">>) <=> p + 1 <= End /\ \A i \in 1..1 : value[p + i - 1] = <<":">>[i]
  BY <1>1, AtMeans
<1>3. (\A i \in 1..1 : value[p + i - 1] = <<":">>[i]) <=> value[p] = ":"
  <2>1. p + 1 - 1 = p /\ \A i \in 1..1 : i = 1
    BY <1>0
  <2> QED BY <1>1, <2>1
<1>4. p + 1 <= End <=> p # End
  BY <1>0
<1> QED BY <1>2, <1>3, <1>4

\* What a format makes an endpoint of is read to its end, and as the same.
LEMMA EndpointMeans ==
  ASSUME value \in Text, NEW p \in 1..End
  PROVE  AsEndpoint(TextFrom(p)) =
           IF EndpointAt(p, <<>>).end > p /\ EndpointAt(p, <<>>).end = End
             THEN {EndpointAt(p, <<>>).ep} ELSE {}
<1> DEFINE e == WordEnd(p)
           t == TextFrom(p)
           m == e - p + 1
           w == SubSeq(value, p, e - 1)
           colon == At(e, <<":">>)
           reads == colon /\ Readable(e + 1, MaxPort)
           found == EndpointAt(p, <<>>)
<1>0. Len(value) \in Nat /\ End = Len(value) + 1 /\ End \in Nat /\ p \in Nat /\ value \in Seq(Character)
  BY EndMeans
<1>1. e \in p..End /\ (e # End => value[e] = ":")
  BY WordMeans
<1>2. colon <=> e # End
  <2>1. e \in 1..End
    BY <1>0, <1>1
  <2> QED BY <1>1, <2>1, ColonAt
<1>3. /\ \A k : k \in Splits(t) <=> k \in 2..m
      /\ \A k \in Splits(t) : k <= Len(t) /\ t[k] = ":" <=> e # End /\ k = m
  BY SplitMeans
<1>4. t \in Text /\ t \in Seq(Character) /\ Len(t) = End - p
  BY FromMeans
<1>5. e # End => Rest(t, m + 1) = TextFrom(e + 1) /\ e + 1 \in 1..End
  <2> SUFFICES ASSUME e # End PROVE Rest(t, m + 1) = TextFrom(e + 1) /\ e + 1 \in 1..End
    OBVIOUS
  <2>1. m + 1 \in 1..(End - p + 1) /\ p + (m + 1) - 1 = e + 1 /\ e + 1 \in 1..End
    BY <1>0, <1>1
  <2> HIDE DEF m
  <2> QED BY <2>1, FromFrom
<1>6. Before(t, m) = w
  <2>1. m \in 1..(End - p + 1) /\ p + m - 2 = e - 1
    BY <1>0, <1>1
  <2> HIDE DEF m
  <2> QED BY <2>1, FromFrom
<1>7. e = End => t = w
  <2>1. e = End => e - 1 = Len(value)
    BY <1>0
  <2> QED BY <2>1 DEF TextFrom
<1>8. \A k \in Splits(t) : IsPrefix(<<":">>, Rest(t, k)) <=> e # End /\ k = m
  <2> TAKE k \in Splits(t)
  <2>1. k \in 2..m
    BY <1>3
  <2>2. k \in 1..(End - p + 1) /\ p + k - 1 \in 1..End
    BY <1>0, <1>1, <2>1
  <2>3. Rest(t, k) = TextFrom(p + k - 1)
    BY <2>2, FromFrom
  <2>4. IsPrefix(<<":">>, Rest(t, k)) <=> At(p + k - 1, <<":">>)
    BY <2>3, Zenon DEF At, TextFrom
  <2>5. At(p + k - 1, <<":">>) <=> p + k - 1 # End /\ value[p + k - 1] = ":"
    BY <2>2, ColonAt
  <2>6. p + k - 1 # End <=> k <= Len(t)
    BY <1>0, <1>4, <2>2
  <2>7. k <= Len(t) => t[k] = value[p + k - 1]
    <3> SUFFICES ASSUME k <= Len(t) PROVE t[k] = value[p + k - 1]
      OBVIOUS
    <3>1. k \in 1..(End - p)
      BY <1>0, <1>4, <2>2
    <3> QED BY <3>1, FromMeans
  <2> QED BY <1>3, <2>4, <2>5, <2>6, <2>7
<1>9. e # End => /\ IsNumber(TextFrom(e + 1), MaxPort)
                      <=> Readable(e + 1, MaxPort) /\ After(e + 1, Digits) = End
                 /\ After(e + 1, Digits) = End => NumberAt(e + 1) = Number(TextFrom(e + 1))
  BY <1>5, NumberRest, OptionValuesAssumption
<1>10. found = IF e = p THEN [ep |-> [host |-> <<>>, port |-> 0], end |-> p]
               ELSE IF reads
                 THEN [ep |-> [host |-> w, port |-> NumberAt(e + 1)], end |-> After(e + 1, Digits)]
                 ELSE [ep |-> [host |-> w, port |-> 0], end |-> e]
  <2>1. <<>> \o w = w
    <3>1. p \in 1..(Len(value) + 1) /\ e - 1 \in (p - 1)..Len(value)
      BY <1>0, <1>1
    <3>2. w \in Seq(Character)
      BY <1>0, <3>1, Part
    <3> QED BY <3>2
  <2>2. found = IF e = p THEN [ep |-> [host |-> <<>>, port |-> 0], end |-> p]
                ELSE IF reads
                  THEN [ep |-> [host |-> <<>> \o w, port |-> NumberAt(e + 1)], end |-> After(e + 1, Digits)]
                  ELSE [ep |-> [host |-> <<>> \o w, port |-> 0], end |-> e]
    BY Zenon DEF EndpointAt
  <2> QED BY <2>1, <2>2
<1>a. AsEndpoint(t) =
        {[host |-> t, port |-> 0] : k \in Splits(t) \cap {Len(t) + 1}} \cup
        {[host |-> Before(t, k), port |-> Number(Rest(t, k + 1))] :
           k \in {k \in Splits(t) : IsPrefix(<<":">>, Rest(t, k)) /\ IsNumber(Rest(t, k + 1), MaxPort)}}
  BY Zenon DEF AsEndpoint
<1>b. m \in Nat /\ (m >= 2 <=> e # p) /\ (Len(t) + 1 = m <=> e = End) /\ Len(t) + 1 >= m
  BY <1>0, <1>1, <1>4
<1> HIDE DEF e, t, m, w, colon, found
<1>11. CASE e = p
  <2>1. Splits(t) = {}
    BY <1>3, <1>b, <1>11
  <2>2. AsEndpoint(t) = {} /\ ~(found.end > p)
    BY <1>0, <1>a, <1>10, <1>11, <2>1
  <2> QED BY <2>2 DEF t, found
<1>12. CASE e # p /\ e = End
  <2>1. m \in Splits(t) /\ Len(t) + 1 = m
    BY <1>3, <1>b, <1>12
  <2>2. {k \in Splits(t) : IsPrefix(<<":">>, Rest(t, k)) /\ IsNumber(Rest(t, k + 1), MaxPort)} = {}
    BY <1>8, <1>12
  <2>3. AsEndpoint(t) = {[host |-> t, port |-> 0]}
    BY <1>a, <2>1, <2>2
  <2>4. found = [ep |-> [host |-> w, port |-> 0], end |-> End] /\ End > p
    BY <1>0, <1>1, <1>2, <1>10, <1>12
  <2>5. found.end = End /\ found.ep = [host |-> t, port |-> 0]
    BY <1>7, <1>12, <2>4
  <2> QED BY <2>3, <2>4, <2>5 DEF t, found
<1>13. CASE e # p /\ e # End
  <2>1. m \in Splits(t) /\ Splits(t) \cap {Len(t) + 1} = {}
    <3>1. m \in Splits(t)
      BY <1>3, <1>b, <1>13
    <3>2. Len(t) + 1 \notin 2..m
      BY <1>b, <1>13
    <3> QED BY <1>3, <3>1, <3>2
  <2>2. CASE Readable(e + 1, MaxPort) /\ After(e + 1, Digits) = End
    <3>1. {k \in Splits(t) : IsPrefix(<<":">>, Rest(t, k)) /\ IsNumber(Rest(t, k + 1), MaxPort)} = {m}
      BY <1>5, <1>8, <1>9, <1>13, <2>1, <2>2
    <3>2. AsEndpoint(t) = {[host |-> w, port |-> NumberAt(e + 1)]}
      BY <1>a, <1>5, <1>6, <1>9, <1>13, <2>1, <2>2, <3>1
    <3>3. found = [ep |-> [host |-> w, port |-> NumberAt(e + 1)], end |-> End] /\ End > p
      BY <1>0, <1>1, <1>2, <1>10, <1>13, <2>2
    <3>4. found.end = End /\ found.ep = [host |-> w, port |-> NumberAt(e + 1)]
      BY <3>3
    <3> QED BY <3>2, <3>3, <3>4 DEF t, found
  <2>3. CASE ~(Readable(e + 1, MaxPort) /\ After(e + 1, Digits) = End)
    <3>1. {k \in Splits(t) : IsPrefix(<<":">>, Rest(t, k)) /\ IsNumber(Rest(t, k + 1), MaxPort)} = {}
      BY <1>5, <1>8, <1>9, <1>13, <2>3
    <3>2. AsEndpoint(t) = {}
      BY <1>a, <2>1, <3>1
    <3>3. found.end # End
      <4>1. CASE reads
        BY <1>10, <1>13, <2>3, <4>1
      <4>2. CASE ~reads
        BY <1>10, <1>13, <4>2
      <4> QED BY <4>1, <4>2
    <3> QED BY <3>2, <3>3 DEF t, found
  <2> QED BY <2>2, <2>3
<1> QED BY <1>11, <1>12, <1>13

Slashes == <<":", "/", "/">>

LEMMA SlashesAt ==
  ASSUME value \in Text, NEW p \in 1..End, At(p, Slashes)
  PROVE  p + 3 \in 1..End /\ p # End /\ value[p] = ":" /\ value[p + 1] \notin Digits
<1>0. Len(value) \in Nat /\ End = Len(value) + 1 /\ End \in Nat /\ p \in Nat /\ p <= End
  BY EndMeans
<1>1. Slashes \in Seq({":", "/"}) /\ Len(Slashes) = 3 /\ Slashes[1] = ":" /\ Slashes[2] = "/"
  BY DEF Slashes
<1>2. p + 3 <= End /\ \A i \in 1..3 : value[p + i - 1] = Slashes[i]
  BY <1>1, AtMeans
<1>3. value[p + 1 - 1] = Slashes[1] /\ value[p + 2 - 1] = Slashes[2]
  <2>1. 1 \in 1..3 /\ 2 \in 1..3
    OBVIOUS
  <2> QED BY <1>2, <2>1
<1>4. p + 1 - 1 = p /\ p + 2 - 1 = p + 1
  BY <1>0
<1>5. "/" \notin Digits
  BY OptionValuesAssumption DEF Signs
<1>6. p + 3 \in 1..End /\ p # End
  BY <1>0, <1>2
<1> QED BY <1>1, <1>3, <1>4, <1>5, <1>6

\* A scheme is an endpoint's only if what follows its colon is no port.
LEMMA SlashesNoPort ==
  ASSUME value \in Text, At(WordEnd(1), Slashes)
  PROVE  EndpointAt(1, <<>>).end # End /\ AsEndpoint(value) = {}
<1> DEFINE e == WordEnd(1)
<1>0. Len(value) \in Nat /\ End = Len(value) + 1 /\ End \in Nat /\ 1 \in 1..End
  BY EndMeans
<1>1. e \in 1..End
  BY <1>0, WordMeans
<1>2. e + 3 \in 1..End /\ e # End /\ value[e + 1] \notin Digits
  BY <1>1, SlashesAt
<1>3. e + 1 \in 1..End /\ e + 1 \in (e + 1)..End
  BY <1>0, <1>1, <1>2
<1>4. After(e + 1, Digits) = e + 1
  <2> DEFINE q == e + 1
  <2>1. q \in 1..End /\ q \in q..End /\ \A i \in q..(q - 1) : value[i] \in Digits
    BY <1>1, <1>3
  <2>2. value[q] \notin Digits
    BY <1>2
  <2> HIDE DEF q
  <2>3. After(q, Digits) = q
    BY <2>1, <2>2, AfterIs
  <2> QED BY <2>3 DEF q
<1>5. ~Readable(e + 1, MaxPort)
  <2>1. ~(e + 1 > e + 1)
    BY <1>1
  <2> QED BY <1>4, <2>1 DEF Readable
<1>6. EndpointAt(1, <<>>).end = IF e = 1 THEN 1 ELSE e
  BY <1>5 DEF EndpointAt
<1>7. EndpointAt(1, <<>>).end # End
  BY <1>1, <1>2, <1>6
<1>8. AsEndpoint(TextFrom(1)) = {}
  BY <1>0, <1>7, EndpointMeans
<1>9. TextFrom(1) = value
  BY <1>0, FromFrom
<1> QED BY <1>7, <1>8, <1>9

\* The whole text is a scheme and what follows it.
Complete == WordEnd(1) > 1 /\ TailAt(WordEnd(1)).end > WordEnd(1) /\ TailAt(WordEnd(1)).end = End

LEMMA TailMeans ==
  ASSUME value \in Text, NEW e \in 1..End
  PROVE  /\ TailAt(e).ep \in Endpoint /\ TailAt(e).end \in e..End
         /\ ~At(e, Slashes) => TailAt(e).ep = NoEndpoint
<1>0. Len(value) \in Nat /\ End = Len(value) + 1 /\ End \in Nat /\ e \in e..End
  BY EndMeans
<1> DEFINE found == EndpointAt(e + 3, <<>>)
<1>1. TailAt(e) = IF At(e, Slashes) /\ found.end > e + 3 THEN found
                  ELSE [ep |-> NoEndpoint, end |-> IF At(e, <<":">>) THEN e + 1 ELSE e]
  BY Zenon DEF TailAt, Slashes
<1>2. <<>> \in Text /\ 0 \in 0..MaxPort
  BY OptionValuesAssumption DEF Text
<1>3. NoEndpoint \in Endpoint
  BY <1>2 DEF NoEndpoint, Endpoint
<1>4. At(e, <<":">>) => e + 1 \in e..End
  <2>1. At(e, <<":">>) => e # End
    BY ColonAt
  <2> QED BY <1>0, <2>1
<1>5. At(e, Slashes) => found.ep \in Endpoint /\ found.end \in e..End
  <2> SUFFICES ASSUME At(e, Slashes) PROVE found.ep \in Endpoint /\ found.end \in e..End
    OBVIOUS
  <2>1. e + 3 \in 1..End
    BY SlashesAt
  <2>2. found.ep \in Endpoint /\ found.end \in (e + 3)..End
    BY <1>2, <2>1, EndpointTyped
  <2> QED BY <1>0, <2>2
<1> HIDE DEF found
<1>6. CASE At(e, Slashes) /\ found.end > e + 3
  BY <1>1, <1>5, <1>6
<1>7. CASE ~(At(e, Slashes) /\ found.end > e + 3)
  <2>1. TailAt(e) = [ep |-> NoEndpoint, end |-> IF At(e, <<":">>) THEN e + 1 ELSE e]
    BY <1>1, <1>7
  <2> QED BY <1>0, <1>3, <1>4, <2>1
<1> QED BY <1>6, <1>7

\* What a format makes a scheme and an endpoint of.
LEMMA SchemeMeans ==
  ASSUME value \in Text
  PROVE  /\ AsSchemeEndpoint(value) =
              {[scheme |-> <<>>, ep |-> x] : x \in AsEndpoint(value)} \cup
              (IF Complete THEN {[scheme |-> Before(value, WordEnd(1)), ep |-> TailAt(WordEnd(1)).ep]}
               ELSE {})
         /\ Complete => AsEndpoint(value) = {}
<1> DEFINE e == WordEnd(1)
           found == EndpointAt(e + 3, <<>>)
           slashed == At(e, Slashes) /\ found.end > e + 3
           S == {k \in Splits(value) : Rest(value, k) = <<":">>}
           T == {k \in Splits(value) : IsPrefix(Slashes, Rest(value, k))}
<1>0. Len(value) \in Nat /\ End = Len(value) + 1 /\ End \in Nat /\ 1 \in 1..End /\ value \in Seq(Character)
  BY EndMeans
<1>1. e \in 1..End /\ (e # End => value[e] = ":")
  BY <1>0, WordMeans
<1>2. TextFrom(1) = value
  BY <1>0, FromFrom
<1>3. /\ \A k : k \in Splits(value) <=> k \in 2..e
      /\ \A k \in Splits(value) : k <= Len(value) /\ value[k] = ":" <=> e # End /\ k = e
  <2>1. /\ \A k : k \in Splits(value) <=> k \in 2..(e - 1 + 1)
        /\ \A k \in Splits(value) : k <= Len(value) /\ value[k] = ":" <=> e # End /\ k = e - 1 + 1
    BY <1>0, <1>2, SplitMeans
  <2>2. e - 1 + 1 = e
    BY <1>1
  <2> QED BY <2>1, <2>2
<1>4. TailAt(e) = IF slashed THEN found
                  ELSE [ep |-> NoEndpoint, end |-> IF At(e, <<":">>) THEN e + 1 ELSE e]
  BY Zenon DEF TailAt, Slashes
<1>5. At(e, <<":">>) <=> e # End
  BY <1>1, ColonAt
<1>6. At(e, Slashes) => e + 3 \in 1..End /\ e # End
  BY <1>1, SlashesAt
<1>7. S = {k \in {e} : e >= 2 /\ e + 1 = End}
  <2>1. ASSUME NEW k \in Splits(value), Rest(value, k) = <<":">> PROVE k = e /\ e >= 2 /\ e + 1 = End
    <3>1. k \in 2..e
      BY <1>3
    <3>2. k \in 1..End
      BY <1>0, <1>1, <3>1
    <3>3. Rest(value, k) = TextFrom(k)
      BY DEF Rest, TextFrom
    <3>4. Len(TextFrom(k)) = End - k /\ \A m \in 1..(End - k) : TextFrom(k)[m] = value[k + m - 1]
      BY <3>2, FromMeans
    <3>5. Len(<<":">>) = 1 /\ <<":">>[1] = ":"
      OBVIOUS
    <3>6. End - k = 1
      BY <2>1, <3>3, <3>4, <3>5
    <3>7. k <= Len(value) /\ 1 \in 1..(End - k) /\ k + 1 - 1 = k
      BY <1>0, <3>2, <3>6
    <3>8. value[k] = ":"
      BY <2>1, <3>3, <3>4, <3>5, <3>7
    <3>9. k = e
      BY <1>3, <3>7, <3>8
    <3> QED BY <1>0, <3>1, <3>2, <3>6, <3>9
  <2>2. ASSUME e >= 2, e + 1 = End PROVE e \in Splits(value) /\ Rest(value, e) = <<":">>
    <3>1. e \in Splits(value) /\ e # End
      BY <1>0, <1>1, <1>3, <2>2
    <3>2. TextFrom(e) \in Seq(Character) /\ Len(TextFrom(e)) = End - e
          /\ \A m \in 1..(End - e) : TextFrom(e)[m] = value[e + m - 1]
      BY <1>1, FromMeans
    <3>3. End - e = 1 /\ e + 1 - 1 = e
      BY <1>0, <1>1, <2>2
    <3>4. Len(TextFrom(e)) = 1 /\ TextFrom(e)[1] = ":"
      <4>1. 1 \in 1..(End - e)
        BY <3>3
      <4>2. TextFrom(e)[1] = value[e + 1 - 1]
        BY <3>2, <4>1
      <4> QED BY <1>1, <3>1, <3>2, <3>3, <4>2
    <3> DEFINE w == TextFrom(e)  v == <<":">>
    <3>5. v \in Seq({":"}) /\ Len(v) = 1 /\ v[1] = ":"
      OBVIOUS
    <3> HIDE DEF w, v
    <3>6. w \in Seq(Character) /\ Len(w) = Len(v) /\ \A m \in 1..Len(w) : w[m] = v[m]
      <4>1. Len(w) = 1 /\ w[1] = ":" /\ w \in Seq(Character)
        BY <3>2, <3>4 DEF w
      <4>2. \A m \in 1..1 : m = 1
        OBVIOUS
      <4> QED BY <3>5, <4>1, <4>2
    <3>7. w = v
      BY <3>5, <3>6, SameElements
    <3>8. Rest(value, e) = w
      BY DEF Rest, TextFrom, w
    <3> QED BY <3>1, <3>7, <3>8 DEF v
  <2> QED BY <2>1, <2>2
<1>8. T = {k \in {e} : e >= 2 /\ At(e, Slashes)}
  <2>1. ASSUME NEW k \in Splits(value), IsPrefix(Slashes, Rest(value, k))
        PROVE  k = e /\ e >= 2 /\ At(e, Slashes)
    <3>1. k \in 2..e /\ k \in 1..End
      BY <1>0, <1>1, <1>3
    <3>2. At(k, Slashes)
      BY <2>1, Zenon DEF At, Rest
    <3>3. k # End /\ value[k] = ":"
      BY <3>1, <3>2, SlashesAt
    <3>4. k <= Len(value)
      BY <1>0, <3>1, <3>3
    <3>5. k = e
      BY <1>3, <3>3, <3>4
    <3> QED BY <3>1, <3>2, <3>5
  <2>2. ASSUME e >= 2, At(e, Slashes) PROVE e \in Splits(value) /\ IsPrefix(Slashes, Rest(value, e))
    <3>1. e \in Splits(value)
      BY <1>0, <1>1, <1>3, <2>2
    <3>2. IsPrefix(Slashes, Rest(value, e))
      BY <2>2, Zenon DEF At, Rest
    <3> QED BY <3>1, <3>2
  <2> QED BY <2>1, <2>2
<1>9. At(e, Slashes) =>
        AsEndpoint(Rest(value, e + 3)) = IF found.end > e + 3 /\ found.end = End THEN {found.ep} ELSE {}
  <2>1. Rest(value, e + 3) = TextFrom(e + 3)
    BY DEF Rest, TextFrom
  <2> QED BY <1>6, <2>1, EndpointMeans
<1>10. At(e, Slashes) => AsEndpoint(value) = {}
  BY SlashesNoPort
<1>a. AsSchemeEndpoint(value) =
        {[scheme |-> <<>>, ep |-> x] : x \in AsEndpoint(value)} \cup
        {[scheme |-> Before(value, k), ep |-> NoEndpoint] : k \in S} \cup
        UNION {{[scheme |-> Before(value, k), ep |-> x] : x \in AsEndpoint(Rest(value, k + 3))} : k \in T}
  BY Zenon DEF AsSchemeEndpoint, Slashes
<1>b. Complete <=> e > 1 /\ TailAt(e).end > e /\ TailAt(e).end = End
  BY Zenon DEF Complete
<1>c. e \in Nat /\ (e > 1 <=> e >= 2)
  BY <1>0, <1>1
<1> HIDE DEF e, found, S, T
<1>11. CASE e >= 2 /\ slashed
  <2>1. S = {}
    <3>1. e + 1 # End
      BY <1>0, <1>6, <1>11, <1>c
    <3> QED BY <1>7, <3>1
  <2>2. T = {e}
    BY <1>8, <1>11
  <2>3. Complete <=> found.end = End
    <3>1. TailAt(e) = found /\ found.end > e + 3
      BY <1>4, <1>11
    <3>2. found.end = End => found.end > e
      BY <1>0, <1>c, <3>1
    <3> QED BY <1>11, <1>b, <1>c, <3>1, <3>2
  <2>4. TailAt(e) = found
    BY <1>4, <1>11
  <2>5. UNION {{[scheme |-> Before(value, k), ep |-> x] : x \in AsEndpoint(Rest(value, k + 3))} : k \in T}
          = {[scheme |-> Before(value, e), ep |-> x] : x \in AsEndpoint(Rest(value, e + 3))}
    BY <2>2
  <2>6. {[scheme |-> Before(value, e), ep |-> x] : x \in AsEndpoint(Rest(value, e + 3))}
          = IF Complete THEN {[scheme |-> Before(value, e), ep |-> found.ep]} ELSE {}
    BY <1>9, <1>11, <2>3
  <2> QED BY <1>10, <1>11, <1>a, <2>1, <2>4, <2>5, <2>6 DEF e
<1>12. CASE e >= 2 /\ ~slashed
  <2>1. UNION {{[scheme |-> Before(value, k), ep |-> x] : x \in AsEndpoint(Rest(value, k + 3))} : k \in T} = {}
    <3>1. ASSUME NEW k \in T PROVE AsEndpoint(Rest(value, k + 3)) = {}
      <4>1. k = e /\ At(e, Slashes)
        BY <1>8
      <4> QED BY <1>9, <1>12, <4>1
    <3> QED BY <3>1
  <2>2. TailAt(e) = [ep |-> NoEndpoint, end |-> IF e # End THEN e + 1 ELSE e]
    BY <1>4, <1>5, <1>12
  <2>3. Complete <=> e + 1 = End
    <3>1. CASE e # End
      <4>1. TailAt(e).end = e + 1
        BY <2>2, <3>1
      <4> QED BY <1>12, <1>b, <1>c, <4>1
    <3>2. CASE e = End
      <4>1. TailAt(e).end = e
        BY <2>2, <3>2
      <4> QED BY <1>0, <1>12, <1>b, <1>c, <3>2, <4>1
    <3> QED BY <3>1, <3>2
  <2>4. {[scheme |-> Before(value, k), ep |-> NoEndpoint] : k \in S}
          = IF Complete THEN {[scheme |-> Before(value, e), ep |-> NoEndpoint]} ELSE {}
    <3>1. Complete => S = {e}
      BY <1>7, <1>12, <2>3
    <3>2. ~Complete => S = {}
      BY <1>7, <2>3
    <3> QED BY <3>1, <3>2
  <2>5. Complete => AsEndpoint(value) = {}
    <3> SUFFICES ASSUME Complete PROVE AsEndpoint(value) = {}
      OBVIOUS
    <3>1. e + 1 = End /\ e # End /\ e + 1 \in 1..End
      BY <1>0, <1>c, <2>3
    <3>2. After(e + 1, Digits) = e + 1
      <4>1. After(e + 1, Digits) \in (e + 1)..End
        BY <3>1, AfterMeans
      <4> QED BY <1>0, <1>c, <3>1, <4>1
    <3>3. ~Readable(e + 1, MaxPort)
      <4>1. ~(e + 1 > e + 1)
        BY <1>c
      <4> QED BY <3>2, <4>1 DEF Readable
    <3>4. EndpointAt(1, <<>>).end = e
      BY <1>12, <1>c, <3>3 DEF EndpointAt, e
    <3>5. AsEndpoint(TextFrom(1)) = {}
      BY <1>0, <3>1, <3>4, EndpointMeans
    <3> QED BY <1>2, <3>5
  <2> QED BY <1>a, <2>1, <2>2, <2>4, <2>5 DEF e
<1>13. CASE ~(e >= 2)
  <2>1. S = {} /\ T = {} /\ ~Complete
    BY <1>7, <1>8, <1>13, <1>b, <1>c
  <2> QED BY <1>a, <2>1
<1> QED BY <1>11, <1>12, <1>13

-------------------------------------------------------------------------------
(* The validators. *)

\* Between the attempts of a scheme_endpoint: all that is left of the first one is
\* an endpoint behind a scheme, of a text that is not read to its end.
SchemeInv ==
  step = "second" =>
    /\ type = "scheme_endpoint"
    /\ ~Complete
    /\ res = [scheme |-> <<>>,
              ep |-> IF WordEnd(1) > 1 THEN TailAt(WordEnd(1)).ep ELSE NoEndpoint]

\* What stands at a position depends on the text only.
LEMMA TextUnchanged ==
  ASSUME value' = value
  PROVE  /\ End' = End /\ \A p : WordEnd(p)' = WordEnd(p)
         /\ \A p : TailAt(p)' = TailAt(p)
<1>1. End' = End
  BY DEF End
<1>2. \A p, chars : After(p, chars)' = After(p, chars)
  BY <1>1, Zenon DEF After
<1>3. \A p : WordEnd(p)' = WordEnd(p)
  BY <1>2, Zenon DEF WordEnd
<1>4. \A p, text : At(p, text)' <=> At(p, text)
  BY Zenon DEF At
<1>5. \A p : NumberAt(p)' = NumberAt(p)
  BY <1>2, Zenon DEF NumberAt
<1>6. \A p, limit : Readable(p, limit)' <=> Readable(p, limit)
  BY <1>2, <1>5, Zenon DEF Readable
<1>7. \A p, host : EndpointAt(p, host)' = EndpointAt(p, host)
  BY <1>2, <1>3, <1>4, <1>5, <1>6, Zenon DEF EndpointAt
<1>8. \A p : TailAt(p)' = TailAt(p)
  BY <1>4, <1>7, Zenon DEF TailAt
<1> QED BY <1>1, <1>3, <1>8

LEMMA CompleteUnchanged ==
  ASSUME value' = value
  PROVE  (Complete' <=> Complete) /\ WordEnd(1)' = WordEnd(1)
         /\ TailAt(WordEnd(1))' = TailAt(WordEnd(1))
<1>1. End' = End /\ WordEnd(1)' = WordEnd(1) /\ \A p : TailAt(p)' = TailAt(p)
  BY TextUnchanged
<1>2. TailAt(WordEnd(1))' = TailAt(WordEnd(1))
  BY <1>1
<1> QED BY <1>1, <1>2 DEF Complete

ValueIInv == ValueTypeOK /\ DurationInv /\ SchemeInv /\ OutcomeMatchesFormat

LEMMA ValueInitInv == ValueInit => ValueIInv
<1> SUFFICES ASSUME ValueInit PROVE ValueIInv
  OBVIOUS
<1>1. /\ type \in Types /\ value \in Inputs[type] /\ begin = 1 /\ res = Fresh(type) /\ step = "first"
      /\ tick \in IF type \in {"duration", "durations"} THEN Ticks ELSE {Min(Ticks)}
  BY DEF ValueInit
<1>2. value \in Text
  BY <1>1, OptionValuesAssumption
<1>3. Min(Ticks) \in Ticks
  <2>1. Ticks \subseteq Nat /\ Ticks # {}
    BY OptionValuesAssumption
  <2>2. PICK x \in Ticks : \A y \in Ticks : x <= y
    BY <2>1, NatMin
  <2> QED BY <2>2 DEF Min
<1>4. tick \in Ticks
  BY <1>1, <1>3
<1>5. begin \in 1..(Len(value) + 1)
  BY <1>1, <1>2, EndMeans
<1>6. Fresh(type) \in Object(type)
  <2>1. <<>> \in Text /\ 0 \in 0..MaxPort
    BY OptionValuesAssumption DEF Text
  <2>2. NoEndpoint \in Endpoint
    BY <2>1 DEF NoEndpoint, Endpoint
  <2>3. <<>> \in Seq(Reps)
    OBVIOUS
  <2>4. type \in {"endpoint", "credentials", "scheme_endpoint", "duration", "durations"}
    BY <1>1 DEF Types
  <2>5. CASE type = "endpoint"
    BY <2>2, <2>5 DEF Fresh, Object
  <2>6. CASE type = "credentials"
    BY <2>1, <2>6 DEF Fresh, Object
  <2>7. CASE type = "scheme_endpoint"
    BY <2>1, <2>2, <2>7 DEF Fresh, Object
  <2>8. CASE type \in {"duration", "durations"}
    BY <2>3, <2>8 DEF Fresh, Object
  <2> QED BY <2>4, <2>5, <2>6, <2>7, <2>8
<1>7. ValueTypeOK
  BY <1>1, <1>2, <1>4, <1>5, <1>6 DEF ValueTypeOK
<1>8. DurationInv
  <2>1. type \in {"duration", "durations"} => res = <<>>
    BY <1>1 DEF Fresh
  <2> QED BY <1>1, <2>1 DEF DurationInv
<1>9. SchemeInv /\ OutcomeMatchesFormat
  BY <1>1 DEF SchemeInv, OutcomeMatchesFormat
<1> QED BY <1>7, <1>8, <1>9 DEF ValueIInv

\* A validator of another type ends with what the format says.
LEMMA OutcomeThen ==
  ASSUME UNCHANGED <<type, value>>, type \in {"endpoint", "credentials", "scheme_endpoint"},
         step' = "stored" => Meanings = {res'},
         step' = "thrown" => Meanings = {}
  PROVE  OutcomeMatchesFormat'
<1>1. Meanings' = Meanings
  BY Zenon DEF Meanings
<1>2. type' \notin {"duration", "durations"}
  OBVIOUS
<1> QED BY <1>1, <1>2 DEF OutcomeMatchesFormat

LEMMA ValidateEndpointInv == ASSUME ValueIInv, ValidateEndpoint PROVE ValueIInv'
<1> DEFINE found == EndpointAt(1, <<>>)
<1>0. /\ step = "first" /\ type = "endpoint" /\ value' = value /\ type' = type /\ tick' = tick
      /\ res' = found.ep /\ begin' = found.end
      /\ step' = IF found.end > 1 /\ begin' = End THEN "stored" ELSE "thrown"
  BY DEF ValidateEndpoint, Finish
<1>1. value \in Text /\ type \in Types /\ tick \in Ticks
  BY DEF ValueIInv, ValueTypeOK
<1>2. Len(value) \in Nat /\ End = Len(value) + 1 /\ 1 \in 1..End /\ <<>> \in Text
  BY <1>1, EndMeans DEF Text
<1>3. found.ep \in Endpoint /\ found.end \in 1..End
  BY <1>1, <1>2, EndpointTyped
<1>4. AsEndpoint(value) = IF found.end > 1 /\ found.end = End THEN {found.ep} ELSE {}
  <2>1. TextFrom(1) = value
    BY <1>1, <1>2, FromFrom
  <2> QED BY <1>1, <1>2, <2>1, EndpointMeans
<1> HIDE DEF found
<1>5. step' \in {"stored", "thrown"}
  BY <1>0
<1>6. Object(type)' = Endpoint
  BY <1>0 DEF Object
<1>7. ValueTypeOK'
  BY <1>0, <1>1, <1>2, <1>3, <1>5, <1>6 DEF ValueTypeOK
<1>8. Meanings = AsEndpoint(value)
  BY <1>0 DEF Meanings
<1>9. OutcomeMatchesFormat'
  <2>1. step' = "stored" => Meanings = {res'}
    BY <1>0, <1>1, <1>4, <1>8
  <2>2. step' = "thrown" => Meanings = {}
    BY <1>0, <1>1, <1>4, <1>8
  <2> QED BY <1>0, <2>1, <2>2, OutcomeThen
<1> QED BY <1>0, <1>5, <1>7, <1>9 DEF ValueIInv, DurationInv, SchemeInv

LEMMA ValidateCredentialsInv == ASSUME ValueIInv, ValidateCredentials PROVE ValueIInv'
<1> DEFINE e == WordEnd(1)
           parsed == e > 1 /\ e < Len(value)
<1>0. /\ step = "first" /\ type = "credentials" /\ value' = value /\ type' = type /\ tick' = tick
      /\ res' = [username |-> SubSeq(value, 1, e - 1),
                 password |-> IF parsed THEN SubSeq(value, e + 1, Len(value)) ELSE <<>>]
      /\ begin' = IF parsed THEN End ELSE 1
      /\ step' = IF parsed /\ begin' = End THEN "stored" ELSE "thrown"
  BY DEF ValidateCredentials, Finish
<1>1. value \in Text /\ type \in Types /\ tick \in Ticks
  BY DEF ValueIInv, ValueTypeOK
<1>2. Len(value) \in Nat /\ End = Len(value) + 1 /\ 1 \in 1..End /\ <<>> \in Text /\ value \in Seq(Character)
  BY <1>1, EndMeans DEF Text
<1>3. e \in 1..End
  BY <1>1, <1>2, WordMeans
<1>4. SubSeq(value, 1, e - 1) \in Text
  <2>1. 1 \in 1..(Len(value) + 1) /\ e - 1 \in (1 - 1)..Len(value)
    BY <1>2, <1>3
  <2> QED BY <1>2, <2>1, Part DEF Text
<1>5. parsed => SubSeq(value, e + 1, Len(value)) \in Text
  <2>1. parsed => e + 1 \in 1..End
    BY <1>2, <1>3
  <2> QED BY <1>1, <2>1, FromMeans DEF TextFrom
<1>6. AsCredentials(value) = IF parsed THEN {[username |-> Before(value, e), password |-> Rest(value, e + 1)]} ELSE {}
  <2>1. TextFrom(1) = value
    BY <1>1, <1>2, FromFrom
  <2>2. /\ \A k : k \in Splits(value) <=> k \in 2..(e - 1 + 1)
        /\ \A k \in Splits(value) : k <= Len(value) /\ value[k] = ":" <=> e # End /\ k = e - 1 + 1
    BY <1>1, <1>2, <2>1, SplitMeans
  <2>3. e - 1 + 1 = e /\ (e > 1 <=> e >= 2)
    BY <1>3
  <2>4. {k \in Splits(value) : k < Len(value) /\ value[k] = ":"} = IF parsed THEN {e} ELSE {}
    <3>1. ASSUME NEW k \in Splits(value), k < Len(value), value[k] = ":" PROVE k = e /\ parsed
      <4>1. k \in 2..e
        BY <2>2, <2>3
      <4>2. k <= Len(value)
        BY <1>2, <1>3, <3>1, <4>1
      <4>3. k = e
        BY <2>2, <2>3, <3>1, <4>2
      <4> QED BY <1>3, <2>3, <3>1, <4>1, <4>3
    <3>2. ASSUME parsed PROVE e \in Splits(value) /\ e < Len(value) /\ value[e] = ":"
      <4>1. e \in Splits(value) /\ e # End
        BY <1>2, <1>3, <2>2, <2>3, <3>2
      <4>2. value[e] = ":"
        BY <1>1, <1>2, <4>1, WordMeans
      <4> QED BY <3>2, <4>1, <4>2
    <3> HIDE DEF parsed, e
    <3> QED BY <3>1, <3>2
  <2>5. AsCredentials(value) =
          {[username |-> Before(value, k), password |-> Rest(value, k + 1)] :
             k \in {k \in Splits(value) : k < Len(value) /\ value[k] = ":"}}
    BY Zenon DEF AsCredentials
  <2> HIDE DEF parsed, e
  <2> QED BY <2>4, <2>5
<1>7. Before(value, e) = SubSeq(value, 1, e - 1) /\ Rest(value, e + 1) = SubSeq(value, e + 1, Len(value))
  BY DEF Before, Rest
<1> HIDE DEF e, parsed
<1>8. step' \in {"stored", "thrown"} /\ begin' \in 1..(Len(value) + 1)
  BY <1>0, <1>2
<1>9. Object(type)' = [username : Text, password : Text]
  BY <1>0 DEF Object
<1>10. ValueTypeOK'
  <2>1. res' \in [username : Text, password : Text]
    BY <1>0, <1>2, <1>4, <1>5
  <2> QED BY <1>0, <1>1, <1>8, <1>9, <2>1 DEF ValueTypeOK
<1>11. Meanings = AsCredentials(value)
  BY <1>0 DEF Meanings
<1>12. OutcomeMatchesFormat'
  <2>1. step' = "stored" => Meanings = {res'}
    BY <1>0, <1>1, <1>6, <1>7, <1>11
  <2>2. step' = "thrown" => Meanings = {}
    BY <1>0, <1>1, <1>6, <1>11
  <2> QED BY <1>0, <2>1, <2>2, OutcomeThen
<1> QED BY <1>0, <1>8, <1>10, <1>12 DEF ValueIInv, DurationInv, SchemeInv

LEMMA ValidateSchemeInv == ASSUME ValueIInv, ValidateScheme PROVE ValueIInv'
<1> DEFINE e == WordEnd(1)
           tail == TailAt(e)
<1>0. /\ step = "first" /\ type = "scheme_endpoint" /\ value' = value /\ type' = type /\ tick' = tick
      /\ res' = [scheme |-> IF Complete THEN SubSeq(value, 1, e - 1) ELSE <<>>,
                 ep |-> IF e > 1 THEN tail.ep ELSE NoEndpoint]
      /\ IF Complete THEN step' = "stored" /\ begin' = End ELSE step' = "second" /\ begin' = 1
  BY DEF ValidateScheme, Complete
<1>1. value \in Text /\ type \in Types /\ tick \in Ticks
  BY DEF ValueIInv, ValueTypeOK
<1>2. Len(value) \in Nat /\ End = Len(value) + 1 /\ 1 \in 1..End /\ <<>> \in Text /\ value \in Seq(Character)
  BY <1>1, EndMeans DEF Text
<1>3. e \in 1..End
  BY <1>1, <1>2, WordMeans
<1>4. SubSeq(value, 1, e - 1) \in Text
  <2>1. 1 \in 1..(Len(value) + 1) /\ e - 1 \in (1 - 1)..Len(value)
    BY <1>2, <1>3
  <2> QED BY <1>2, <2>1, Part DEF Text
<1>5. tail.ep \in Endpoint /\ NoEndpoint \in Endpoint
  <2>1. 0 \in 0..MaxPort
    BY OptionValuesAssumption
  <2>2. NoEndpoint \in Endpoint
    BY <1>2, <2>1 DEF NoEndpoint, Endpoint
  <2> QED BY <1>1, <1>3, <2>2, TailMeans
<1>6. /\ AsSchemeEndpoint(value) =
           {[scheme |-> <<>>, ep |-> x] : x \in AsEndpoint(value)} \cup
           (IF Complete THEN {[scheme |-> Before(value, e), ep |-> tail.ep]} ELSE {})
      /\ Complete => AsEndpoint(value) = {} /\ e > 1
  BY <1>1, SchemeMeans DEF Complete
<1>7. Before(value, e) = SubSeq(value, 1, e - 1)
  BY DEF Before
<1>a. (Complete' <=> Complete) /\ WordEnd(1)' = e /\ TailAt(WordEnd(1))' = tail
  BY <1>0, CompleteUnchanged
<1> HIDE DEF e, tail
<1>8. step' \in {"stored", "second"} /\ begin' \in 1..(Len(value) + 1)
  BY <1>0, <1>2
<1>9. Object(type)' = [scheme : Text, ep : Endpoint]
  BY <1>0 DEF Object
<1>10. ValueTypeOK'
  <2>1. res' \in [scheme : Text, ep : Endpoint]
    BY <1>0, <1>2, <1>4, <1>5
  <2> QED BY <1>0, <1>1, <1>8, <1>9, <2>1 DEF ValueTypeOK
<1>11. Meanings = AsSchemeEndpoint(value)
  BY <1>0 DEF Meanings
<1>12. OutcomeMatchesFormat'
  <2>1. step' = "stored" => Meanings = {res'}
    BY <1>0, <1>6, <1>7, <1>11
  <2>2. step' # "thrown"
    BY <1>8
  <2> QED BY <1>0, <2>1, <2>2, OutcomeThen
<1>13. SchemeInv'
  <2> SUFFICES ASSUME step' = "second"
               PROVE  /\ type' = "scheme_endpoint" /\ ~Complete'
                      /\ res' = [scheme |-> <<>>,
                                 ep |-> IF WordEnd(1)' > 1 THEN TailAt(WordEnd(1))'.ep ELSE NoEndpoint]
    BY DEF SchemeInv
  <2>1. ~Complete
    BY <1>0
  <2> QED BY <1>0, <1>a, <2>1
<1>14. DurationInv'
  BY <1>0 DEF DurationInv
<1> QED BY <1>10, <1>12, <1>13, <1>14 DEF ValueIInv

LEMMA ValidateWithoutSchemeInv == ASSUME ValueIInv, ValidateWithoutScheme PROVE ValueIInv'
<1> DEFINE e == WordEnd(1)
           found == EndpointAt(1, res.ep.host)
           plain == EndpointAt(1, <<>>)
<1>0. /\ step = "second" /\ value' = value /\ type' = type /\ tick' = tick
      /\ res' = [res EXCEPT !.ep = found.ep] /\ begin' = found.end
      /\ step' = IF found.end > 1 /\ begin' = End THEN "stored" ELSE "thrown"
  BY DEF ValidateWithoutScheme, Finish
<1>1. value \in Text /\ type \in Types /\ tick \in Ticks /\ res \in Object(type)
  BY DEF ValueIInv, ValueTypeOK
<1>2. /\ type = "scheme_endpoint" /\ ~Complete
      /\ res = [scheme |-> <<>>, ep |-> IF e > 1 THEN TailAt(e).ep ELSE NoEndpoint]
  BY <1>0 DEF ValueIInv, SchemeInv
<1>3. Len(value) \in Nat /\ End = Len(value) + 1 /\ 1 \in 1..End /\ <<>> \in Text
  BY <1>1, EndMeans DEF Text
<1>4. e \in 1..End
  BY <1>1, <1>3, WordMeans
<1>5. res \in [scheme : Text, ep : Endpoint]
  BY <1>1, <1>2 DEF Object
<1>6. res.ep.host \in Text
  BY <1>5 DEF Endpoint
<1>7. found.ep \in Endpoint /\ found.end \in 1..End /\ found.end = plain.end
  BY <1>1, <1>3, <1>6, EndpointTyped
<1>8. At(e, Slashes) => plain.end # End
  BY <1>1, SlashesNoPort
<1>9. ~At(e, Slashes) => found = plain
  <2> SUFFICES ASSUME ~At(e, Slashes) PROVE found = plain
    OBVIOUS
  <2>1. TailAt(e).ep = NoEndpoint
    BY <1>1, <1>4, TailMeans
  <2>2. res.ep = NoEndpoint
    BY <1>2, <2>1
  <2>3. res.ep.host = <<>>
    BY <2>2 DEF NoEndpoint
  <2> QED BY <2>3
<1>10. AsEndpoint(value) = IF plain.end > 1 /\ plain.end = End THEN {plain.ep} ELSE {}
  <2>1. TextFrom(1) = value
    BY <1>1, <1>3, FromFrom
  <2> QED BY <1>1, <1>3, <2>1, EndpointMeans
<1>11. AsSchemeEndpoint(value) = {[scheme |-> <<>>, ep |-> x] : x \in AsEndpoint(value)}
  BY <1>1, <1>2, SchemeMeans
<1> HIDE DEF e, found, plain
<1>12. res' = [scheme |-> <<>>, ep |-> found.ep]
  BY <1>0, <1>2
<1>13. step' \in {"stored", "thrown"} /\ begin' \in 1..(Len(value) + 1)
  BY <1>0, <1>3, <1>7
<1>14. Object(type)' = [scheme : Text, ep : Endpoint]
  BY <1>0, <1>2 DEF Object
<1>15. ValueTypeOK'
  <2>1. res' \in [scheme : Text, ep : Endpoint]
    BY <1>3, <1>7, <1>12
  <2> QED BY <1>0, <1>1, <1>13, <1>14, <2>1 DEF ValueTypeOK
<1>16. Meanings = AsSchemeEndpoint(value)
  BY <1>2 DEF Meanings
<1>17. OutcomeMatchesFormat'
  <2>1. step' = "stored" => Meanings = {res'}
    <3> SUFFICES ASSUME step' = "stored" PROVE Meanings = {res'}
      OBVIOUS
    <3>1. plain.end > 1 /\ plain.end = End
      BY <1>0, <1>7
    <3>2. found = plain
      BY <1>8, <1>9, <3>1
    <3> QED BY <1>10, <1>11, <1>12, <1>16, <3>1, <3>2
  <2>2. step' = "thrown" => Meanings = {}
    BY <1>0, <1>7, <1>10, <1>11, <1>16
  <2> QED BY <1>0, <1>2, <2>1, <2>2, OutcomeThen
<1> QED BY <1>0, <1>2, <1>13, <1>15, <1>17 DEF ValueIInv, DurationInv, SchemeInv

LEMMA ReadDurationInv == ASSUME ValueIInv, ReadDuration PROVE ValueIInv'
<1>0. type \in {"duration", "durations"} /\ type' = type /\ step' = "more"
  BY DEF ReadDuration
<1>1. ValueTypeOK' /\ DurationInv'
  BY <1>0, ReadOneMore DEF ValueIInv
<1>2. SchemeInv' /\ OutcomeMatchesFormat'
  BY <1>0 DEF SchemeInv, OutcomeMatchesFormat
<1> QED BY <1>1, <1>2 DEF ValueIInv

LEMMA EndDurationsKeeps == ASSUME ValueIInv, EndDurations PROVE ValueIInv'
<1>0. type \in {"duration", "durations"} /\ step' \in {"stored", "thrown"}
  BY DEF EndDurations, Finish
<1>1. ValueTypeOK' /\ DurationInv' /\ OutcomeMatchesFormat'
  BY <1>0, EndDurationsInv DEF ValueIInv
<1>2. SchemeInv'
  BY <1>0 DEF SchemeInv
<1> QED BY <1>1, <1>2 DEF ValueIInv

\* A step that leaves all variables alone.
LEMMA ValueStutterInv == ASSUME ValueIInv, UNCHANGED valueVars PROVE ValueIInv'
<1>0. type' = type /\ tick' = tick /\ value' = value /\ begin' = begin /\ res' = res /\ step' = step
  BY DEF valueVars
<1>1. ValueTypeOK'
  BY <1>0 DEF ValueIInv, ValueTypeOK, Object
<1>2. SchemeInv'
  <2>1. step = "second" =>
          /\ type = "scheme_endpoint" /\ ~Complete
          /\ res = [scheme |-> <<>>,
                    ep |-> IF WordEnd(1) > 1 THEN TailAt(WordEnd(1)).ep ELSE NoEndpoint]
    BY DEF ValueIInv, SchemeInv
  <2>2. (Complete' <=> Complete) /\ WordEnd(1)' = WordEnd(1) /\ TailAt(WordEnd(1))' = TailAt(WordEnd(1))
    BY <1>0, CompleteUnchanged
  <2> QED BY <1>0, <2>1, <2>2 DEF SchemeInv
<1>3. Commas' = Commas /\ End' = End /\ Fields' = Fields
  BY <1>0 DEF Commas, End, Fields
<1>4. \A f : Field(f)' = Field(f) /\ Index(f)' = Index(f)
  <2>1. \A f : Field(f)' = Field(f)
    BY <1>0, Zenon DEF Field
  <2>2. \A f : Index(f)' = Index(f)
    BY <1>3, Zenon DEF Index
  <2> QED BY <2>1, <2>2
<1>5. \A n, u, d : Ticking(n, u, d)' <=> Ticking(n, u, d)
  BY <1>0, Zenon DEF Ticking, Factor
<1>6. ASSUME NEW f PROVE AsDuration(Field(f))' = AsDuration(Field(f))
  BY <1>4
<1>7. ASSUME NEW f, \E r \in AsDuration(Field(f)) : Ticking(r[1], r[2], res[Index(f)])
      PROVE  \E r \in AsDuration(Field(f))' : Ticking(r[1], r[2], res[Index(f)])'
  <2>1. PICK r \in AsDuration(Field(f)) : Ticking(r[1], r[2], res[Index(f)])
    BY <1>7
  <2>2. r \in AsDuration(Field(f))'
    BY <1>6, <2>1
  <2>3. Ticking(r[1], r[2], res[Index(f)])'
    BY <1>0, <1>4, <2>1, Zenon DEF Ticking, Factor
  <2> QED BY <2>2, <2>3
<1>8. DurationInv'
  <2>1. ASSUME NEW s \in {0} \cup Commas, ReadFrom(s) PROVE ReadFrom(s)'
    <3>1. /\ type = "duration" => s = 0
          /\ Readable(s + 1, MaxRep) /\ begin = ReadTo(s)
          /\ Len(res) = Passed(s) + 1
          /\ Ticking(NumberAt(s + 1), UnitAt(After(s + 1, Digits)), res[Len(res)])
          /\ \A f \in Fields : f[2] <= s => Told(f)
      BY <2>1, Zenon DEF ReadFrom
    <3>2. After(s + 1, Digits)' = After(s + 1, Digits)
      BY <1>0, <1>3, Zenon DEF After
    <3>3. NumberAt(s + 1)' = NumberAt(s + 1)
      BY <1>0, <3>2, Zenon DEF NumberAt
    <3>4. Readable(s + 1, MaxRep)' = Readable(s + 1, MaxRep)
      BY <3>2, <3>3 DEF Readable
    <3>5. UnitAt(After(s + 1, Digits))' = UnitAt(After(s + 1, Digits))
      <4>1. SUFFICES ASSUME NEW p, p = After(s + 1, Digits), p = After(s + 1, Digits)'
                     PROVE  UnitAt(After(s + 1, Digits))' = UnitAt(p)
        BY <3>2
      <4>2. UnitAt(p)' = UnitAt(p)
        BY <1>0, UnitUnchanged
      <4> QED BY <4>1, <4>2
    <3>6. ReadTo(s)' = ReadTo(s)
      BY <3>2, <3>5 DEF ReadTo
    <3>7. Passed(s)' = Passed(s)
      BY <1>3 DEF Passed
    <3>8. Ticking(NumberAt(s + 1), UnitAt(After(s + 1, Digits)), res[Len(res)])'
      BY <1>0, <3>1, <3>3, <3>5, Zenon DEF Ticking, Factor
    <3>9. ASSUME NEW f \in Fields', f[2] <= s PROVE Told(f)'
      BY <1>3, <1>7, <3>1, <3>9 DEF Told
    <3> QED BY <1>0, <1>3, <3>1, <3>4, <3>6, <3>7, <3>8, <3>9 DEF ReadFrom
  <2>2. type \in {"duration", "durations"} =>
          /\ step # "second"
          /\ step = "first" => begin = 1 /\ res = <<>>
          /\ step = "more" => \E s \in {0} \cup Commas : ReadFrom(s)
    BY Zenon DEF ValueIInv, DurationInv
  <2>3. type' \in {"duration", "durations"} /\ step' = "more" => \E s \in {0} \cup Commas' : ReadFrom(s)'
    BY <1>0, <1>3, <2>1, <2>2
  <2> QED BY <1>0, <2>2, <2>3 DEF DurationInv
<1>9. OutcomeMatchesFormat'
  <2>1. CASE type \in {"duration", "durations"}
    <3>1. /\ step = "stored" => DurationsAreRead /\ (type = "duration" => Len(res) = 1)
          /\ step = "thrown" => \/ \E f \in Fields : AsDuration(Field(f)) = {}
                                \/ type = "duration" /\ Commas # {}
      BY <2>1 DEF ValueIInv, OutcomeMatchesFormat
    <3>2. DurationsAreRead => DurationsAreRead'
      <4> SUFFICES ASSUME DurationsAreRead PROVE DurationsAreRead'
        OBVIOUS
      <4>1. Len(res') = Cardinality(Commas') + 1
        BY <1>0, <1>3 DEF DurationsAreRead
      <4>2. ASSUME NEW f \in Fields'
            PROVE  \E r \in AsDuration(Field(f))' : Ticking(r[1], r[2], res[Index(f)])'
        BY <1>3, <1>7 DEF DurationsAreRead
      <4> QED BY <4>1, <4>2 DEF DurationsAreRead
    <3>3. ASSUME NEW f \in Fields, AsDuration(Field(f)) = {}
          PROVE  \E g \in Fields' : AsDuration(Field(g))' = {}
      BY <1>3, <1>6, <3>3
    <3>4. step' = "thrown" => \/ \E f \in Fields' : AsDuration(Field(f))' = {}
                              \/ type' = "duration" /\ Commas' # {}
      BY <1>0, <1>3, <3>1, <3>3
    <3> QED BY <1>0, <2>1, <3>1, <3>2, <3>4 DEF OutcomeMatchesFormat
  <2>2. CASE type \notin {"duration", "durations"}
    <3>1. (step = "stored" => Meanings = {res}) /\ (step = "thrown" => Meanings = {})
      BY <2>2 DEF ValueIInv, OutcomeMatchesFormat
    <3>2. type \in {"endpoint", "credentials", "scheme_endpoint"}
      BY <2>2 DEF ValueIInv, ValueTypeOK, Types
    <3> QED BY <1>0, <3>1, <3>2, OutcomeThen
  <2> QED BY <2>1, <2>2
<1> QED BY <1>1, <1>2, <1>8, <1>9 DEF ValueIInv

LEMMA ValueInductive == ValueSpec => []ValueIInv
<1>1. ValueIInv /\ [ValueNext]_valueVars => ValueIInv'
  <2> SUFFICES ASSUME ValueIInv, [ValueNext]_valueVars PROVE ValueIInv'
    OBVIOUS
  <2>1. CASE ValueNext
    BY <2>1, ValidateEndpointInv, ValidateCredentialsInv, ValidateSchemeInv,
       ValidateWithoutSchemeInv, ReadDurationInv, EndDurationsKeeps DEF ValueNext
  <2>2. CASE UNCHANGED valueVars
    BY <2>2, ValueStutterInv
  <2> QED BY <2>1, <2>2
<1> QED BY <1>1, ValueInitInv, PTL DEF ValueSpec

\* The object that a validator parses into stays of its type, for any alphabet, any
\* texts, any limits on ports and durations and any units.
THEOREM ValuesTypeCorrect == ValueSpec => []ValueTypeOK
<1>1. ValueIInv => ValueTypeOK
  BY DEF ValueIInv
<1> QED BY <1>1, ValueInductive, PTL

\* A value is stored exactly if the format of its option gives it a meaning, and as
\* that meaning, for texts of any length: what a failed first attempt leaves in the
\* object is never stored, no number is cut to what fits, and durations are what
\* their units say (validators/net.hpp 89-130, validators/chrono.hpp 28-56).
THEOREM StoredAsMeant == ValueSpec => []OutcomeMatchesFormat
<1>1. ValueIInv => OutcomeMatchesFormat
  BY DEF ValueIInv
<1> QED BY <1>1, ValueInductive, PTL
================================================================================
