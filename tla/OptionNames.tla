------------------------------ MODULE OptionNames ------------------------------
(***************************************************************************)
(* utils/program_options/ini_parser.cpp: parse_ini decides which keys of an*)
(* ini file are options of a description.  An option whose long name ends  *)
(* in '*' stands for every key that starts with the rest of its name; two  *)
(* such options may not stand for the same key.                            *)
(*                                                                         *)
(* Both the test for overlaps and the test of a key look at one or two     *)
(* neighbours in the ordered set of prefixes only, so that the second is   *)
(* right because of what the first has kept out of the set.                *)
(*                                                                         *)
(* Characters are numbers, compared as std::string compares them.          *)
(***************************************************************************)
EXTENDS Integers, FiniteSets, SequencesExt

CONSTANTS
  Char,          \* the characters of names and keys
  Star,          \* '*'
  Descriptions,  \* the sequences of long names that a description may hold
  Files          \* the sequences of keys that ini::parse may return

ASSUME OptionAssumption ==
  /\ Char \subseteq Int
  /\ Star \in Char
  /\ Descriptions \subseteq Seq(Seq(Char))
  /\ Files \subseteq Seq(Seq(Char))

VARIABLES
  description,         \* the long names, in the order they were added
  allow_unregistered,
  next,                \* the loop's index, then that of the transform
  allowed_options,     \* an unordered_set
  allowed_prefixes,    \* a set, ordered by Less
  keys,                \* what ini::parse returned
  options,             \* result.options: each key, and whether it is unregistered
  phase,               \* "building", "matching", "done", or the exception thrown:
                       \* "abbreviated", "overlap" or "unknown"
  named                \* the two prefixes that the overlap's message names

vars == <<description, allow_unregistered, next, allowed_options, allowed_prefixes,
          keys, options, phase, named>>

String == Seq(Char)

TypeOK ==
  /\ description \in Seq(String)
  /\ allow_unregistered \in BOOLEAN
  /\ next \in Nat \ {0}
  /\ allowed_options \subseteq String
  /\ allowed_prefixes \subseteq String
  /\ keys \in Seq(String)
  /\ options \in Seq([key : String, unregistered : BOOLEAN])
  /\ phase \in {"building", "matching", "done", "abbreviated", "overlap", "unknown"}
  /\ named \in Seq(String)
  /\ phase = "building" => next <= Len(description) + 1
  /\ phase = "matching" => next <= Len(keys) + 1

-------------------------------------------------------------------------------
\* std::set<std::string>.

Less(s, t) ==
  \/ IsStrictPrefix(s, t)
  \/ \E k \in 1..Len(s) :
       /\ k <= Len(t)
       /\ s[k] < t[k]
       /\ \A j \in 1..(k - 1) : s[j] = t[j]

\* The elements that lower_bound leaves behind, and those from it on.
Below(S, s) == {t \in S : Less(t, s)}
From(S, s)  == S \ Below(S, s)

Least(S)    == CHOOSE s \in S : \A t \in S : s = t \/ Less(s, t)
Greatest(S) == CHOOSE s \in S : \A t \in S : s = t \/ Less(t, s)

-------------------------------------------------------------------------------
Init ==
  /\ description \in Descriptions
  /\ allow_unregistered \in BOOLEAN
  /\ next = 1
  /\ allowed_options = {}
  /\ allowed_prefixes = {}
  /\ keys = <<>>
  /\ options = <<>>
  /\ phase = "building"
  /\ named = <<>>

Name == description[next]

\* Names with an underscore are deliberately wrong variants, of bugs that the
\* properties below must be able to see; nothing in the specification uses them.

\* The arguments of find are the wrong way round.
ExtendsPrefix_Swapped(p) ==
  LET after == From(allowed_prefixes, p)
  IN  after # {} /\ IsPrefix(Least(after), p)

\* Lines 33-37: the first element not below the prefix starts with it.
ExtendsPrefix(p) ==
  LET after == From(allowed_prefixes, p)
  IN  after # {} /\ IsPrefix(p, Least(after))

\* The element before lower_bound is not looked at.
ExtendedByPrefix_NotTested(p) == FALSE

\* Lines 38-42: the last element below the prefix is the start of it.
ExtendedByPrefix(p) ==
  LET before == Below(allowed_prefixes, p)
  IN  before # {} /\ IsPrefix(Greatest(before), p)

\* Line 45: *i is what the iterator was left at, and line 39 moves it back
\* whenever there is an element to move to.
NamedInMessage(p) ==
  LET before == Below(allowed_prefixes, p)
  IN  IF before # {} THEN Greatest(before) ELSE Least(From(allowed_prefixes, p))

\* Lines 18-49, one option.
AddOption ==
  /\ phase = "building"
  /\ next <= Len(description)
  /\ Name # <<>>
  /\ allowed_options' = allowed_options \cup {Name}
  /\ IF Last(Name) # Star
       THEN UNCHANGED <<allowed_prefixes, phase, named>>
       ELSE LET p == Front(Name)
            IN  IF ExtendsPrefix(p) \/ ExtendedByPrefix(p)
                  THEN /\ phase' = "overlap"
                       /\ named' = <<p, NamedInMessage(p)>>
                       /\ UNCHANGED allowed_prefixes
                  ELSE /\ allowed_prefixes' = allowed_prefixes \cup {p}
                       /\ UNCHANGED <<phase, named>>
  /\ next' = next + 1
  /\ UNCHANGED <<description, allow_unregistered, keys, options>>

\* Lines 20-22.
RejectAbbreviated ==
  /\ phase = "building"
  /\ next <= Len(description)
  /\ Name = <<>>
  /\ phase' = "abbreviated"
  /\ UNCHANGED <<description, allow_unregistered, next, allowed_options, allowed_prefixes,
                 keys, options, named>>

\* Line 52.
ReadFile(file) ==
  /\ phase = "building"
  /\ next > Len(description)
  /\ keys' = file
  /\ next' = 1
  /\ phase' = "matching"
  /\ UNCHANGED <<description, allow_unregistered, allowed_options, allowed_prefixes,
                 options, named>>

\* The iterator is not moved back from lower_bound.
Registered_NoStepBack(key) ==
  \/ key \in allowed_options
  \/ LET after == From(allowed_prefixes, key)
     IN  after # {} /\ IsPrefix(Least(after), key)

\* Lines 54-61.
Registered(key) ==
  \/ key \in allowed_options
  \/ LET before == Below(allowed_prefixes, key)
     IN  before # {} /\ IsPrefix(Greatest(before), key)

\* Lines 53-71, one key.
MatchKey ==
  /\ phase = "matching"
  /\ next <= Len(keys)
  /\ IF Registered(keys[next]) \/ allow_unregistered
       THEN /\ options' = Append(options, [key |-> keys[next],
                                           unregistered |-> ~Registered(keys[next])])
            /\ next' = next + 1
            /\ UNCHANGED phase
       ELSE /\ phase' = "unknown"
            /\ UNCHANGED <<options, next>>
  /\ UNCHANGED <<description, allow_unregistered, allowed_options, allowed_prefixes,
                 keys, named>>

\* Line 72.
Return ==
  /\ phase = "matching"
  /\ next > Len(keys)
  /\ phase' = "done"
  /\ UNCHANGED <<description, allow_unregistered, next, allowed_options, allowed_prefixes,
                 keys, options, named>>

Next ==
  \/ AddOption \/ RejectAbbreviated
  \/ \E file \in Files : ReadFile(file)
  \/ MatchKey \/ Return

Spec == Init /\ [][Next]_vars

-------------------------------------------------------------------------------
\* Properties.

\* "This depends on 'allowed_prefixes' invariant" (line 59): no allowed prefix
\* is the start of another, although each was compared with its two neighbours
\* only.
PrefixFree ==
  \A s, t \in allowed_prefixes : IsPrefix(s, t) => s = t

\* The prefixes that the first n names of the description stand for.
Wildcards(n) == {i \in 1..n : description[i] # <<>> /\ Last(description[i]) = Star}
Comparable(s, t) == IsPrefix(s, t) \/ IsPrefix(t, s)

\* A description is refused for an overlap exactly if two of its options would
\* match the same key, in whichever order they were added.
OverlapIffAmbiguous ==
  LET clash(n) == \E i, j \in Wildcards(n) :
                    i < j /\ Comparable(Front(description[i]), Front(description[j]))
  IN  IF phase = "overlap" THEN clash(next - 1) ELSE phase = "building" => ~clash(next - 1)

Described(key) ==
  \/ key \in ToSet(description)
  \/ \E i \in Wildcards(Len(description)) : IsStrictPrefix(Front(description[i]), key)

\* Looking at one neighbour gives the same answer as asking every option of the
\* description: a key is registered exactly if it is the name of one or goes on
\* after the prefix of one.  All keys get through in their order, or parse_ini
\* throws at the first that is not described and may not be (lines 53-73).
RegisteredIffDescribed ==
  /\ \A option \in ToSet(options) : ~option.unregistered <=> Described(option.key)
  /\ [i \in 1..Len(options) |-> options[i].key] = SubSeq(keys, 1, Len(options))
  /\ phase = "done" => Len(options) = Len(keys)
  /\ ~allow_unregistered => \A option \in ToSet(options) : ~option.unregistered
  /\ phase = "unknown" => ~allow_unregistered /\ ~Described(keys[Len(options) + 1])

\* What the exception of lines 44-46 says: "options 'X' and 'Y*' will both match
\* the same arguments from the configuration file".
MessageNamesOverlap ==
  phase = "overlap" => Comparable(named[1], named[2])
================================================================================
