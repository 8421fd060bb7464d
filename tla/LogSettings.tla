------------------------------ MODULE LogSettings ------------------------------
(***************************************************************************)
(* utils/program_options/log.cpp: both overloads of                        *)
(* init_log_from_unrecognized_program_options.  They go through options    *)
(* that no description knows: those named like a setting of the log build  *)
(* a property tree for boost::log; the overload that takes the parsed      *)
(* options gives the others, by the same loop, to the variables_map of the *)
(* program, and the overload that takes strings drops them.                *)
(*                                                                         *)
(* A name is the sequence of what stands between its dots.                 *)
(***************************************************************************)
EXTENDS Naturals, SequencesExt

CONSTANTS
  Parts,     \* what may stand between dots: "Sinks", "Core", numbers, words, ""
  Numbers,   \* the parts that x3::uint_ reads to their end
  Values,
  Inputs,    \* the sequences of options, as parse_ini and other parsers make them
  Stores     \* what the variables_map may hold before, from other sources

Paths == UNION {[1..n -> Parts] : n \in 1..4}
Partial(S, T) == UNION {[D -> T] : D \in SUBSET S}

\* An option has tokens as they were in their source: mostly a name and a value.
Option == [unregistered : BOOLEAN, name : Paths, values : Seq(Values)]

VARIABLES
  overload,          \* "options" or "strings"
  options,           \* parsed_options.options, or unrecognized
  before,            \* history: options_map when the function was called
  next,              \* the next option of the loop
  tree,              \* the values in the property tree, by their paths
  options_map,
  has_log_settings,
  phase              \* "collecting", "returned", or "thrown"

vars == <<overload, options, before, next, tree, options_map, has_log_settings, phase>>

TypeOK ==
  /\ overload \in {"options", "strings"}
  /\ options \in Seq(Option)
  /\ next \in 1..(Len(options) + 1)
  /\ \A f \in {before, tree, options_map} : \A n \in DOMAIN f : n \in Paths /\ f[n] \in Values
  /\ has_log_settings \in BOOLEAN
  /\ phase \in {"collecting", "returned", "thrown"}

-------------------------------------------------------------------------------
\* The last part may contain dots.
IsSetting_AnyTail(name) ==
  \/ Len(name) >= 3 /\ name[1] = "Sinks" /\ name[2] \in Numbers /\ name[3] # ""
  \/ Len(name) >= 2 /\ name[1] = "Core" /\ name[2] # ""

\* Lines 91 and 119: "Sinks.", a number and a dot, or "Core.", and one more part.
IsSetting(name) ==
  \/ Len(name) = 3 /\ name[1] = "Sinks" /\ name[2] \in Numbers /\ name[3] # ""
  \/ Len(name) = 2 /\ name[1] = "Core" /\ name[2] # ""

Set(f, n, v) == [x \in DOMAIN f \cup {n} |-> IF x = n THEN v ELSE f[x]]

\* ptree::put replaces a value that is there.
Put(n, v) == Set(tree, n, v)

\* map::emplace does nothing if the name is there.
Emplace(n, v) == IF n \in DOMAIN options_map THEN options_map ELSE Set(options_map, n, v)

\* Lines 112-116.
Considered(option) == option.unregistered /\ Len(option.values) = 1

\* collect_unrecognized, from which the strings come, has dropped the registered
\* options; only the other overload finds options with more or fewer values.
Passed(to, input) == to = "strings" => \A i \in DOMAIN input : Considered(input[i])

Init ==
  /\ overload \in {"options", "strings"}
  /\ options \in {input \in Inputs : Passed(overload, input)}
  /\ before \in Stores
  /\ options_map = before
  /\ next = 1
  /\ tree = << >>
  /\ has_log_settings = FALSE
  /\ phase = "collecting"

Current == options[next]

AtOption == phase = "collecting" /\ next <= Len(options)

\* Lines 91-94 and 119-122.
Setting ==
  /\ AtOption
  /\ Considered(Current)
  /\ IsSetting(Current.name)
  /\ tree' = Put(Current.name, Current.values[1])
  /\ has_log_settings' = TRUE
  /\ next' = next + 1
  /\ UNCHANGED <<overload, options, before, options_map, phase>>

\* Line 124; the loop of lines 84-95 has no such branch.
OtherOption ==
  /\ AtOption
  /\ Considered(Current)
  /\ ~IsSetting(Current.name)
  /\ options_map' = IF overload = "options" THEN Emplace(Current.name, Current.values[1])
                                            ELSE options_map
  /\ next' = next + 1
  /\ UNCHANGED <<overload, options, before, tree, has_log_settings, phase>>

Ignored ==
  /\ AtOption
  /\ ~Considered(Current)
  /\ next' = next + 1
  /\ UNCHANGED <<overload, options, before, tree, options_map, has_log_settings, phase>>

\* Lines 101-103 and 133-135: boost::log may find the settings wrong.
InitFromSettings ==
  /\ phase = "collecting"
  /\ next > Len(options)
  /\ phase' \in {"returned", "thrown"}
  /\ UNCHANGED <<overload, options, before, next, tree, options_map, has_log_settings>>

Next == Setting \/ OtherOption \/ Ignored \/ InitFromSettings

Spec == Init /\ [][Next]_vars

-------------------------------------------------------------------------------
\* The options with a name and one value that came before position n.
Given(n) == {i \in 1..(n - 1) : Considered(options[i])}

\* A value of the tree is never the section that another value is in: boost::log
\* reads a node either as a parameter or as a section (lines 91 and 119 admit no
\* dots in the last part of a name).
SettingsAreLeaves ==
  \A m, n \in DOMAIN tree : IsPrefix(m, n) => m = n

\* Every setting is in the tree with the value that was given last, and the
\* result says whether there is any (lines 92-93 and 121-122).
LastSettingWins ==
  /\ has_log_settings <=> DOMAIN tree # {}
  /\ DOMAIN tree = {options[i].name : i \in {j \in Given(next) : IsSetting(options[j].name)}}
  /\ \A n \in DOMAIN tree :
       \E i \in Given(next) :
         /\ options[i].name = n /\ tree[n] = options[i].values[1]
         /\ \A j \in Given(next) : options[j].name = n => j <= i

\* An option of the program keeps the value that it had before, from a source
\* that was read earlier, or else the value given first; settings of the log
\* never get there, even if boost::log throws (line 124).
FirstOptionStays ==
  /\ \A n \in DOMAIN before : n \in DOMAIN options_map /\ options_map[n] = before[n]
  /\ \A n \in DOMAIN options_map \ DOMAIN before :
       /\ ~IsSetting(n)
       /\ \E i \in Given(next) :
            /\ options[i].name = n /\ options_map[n] = options[i].values[1]
            /\ \A j \in Given(next) : options[j].name = n => i <= j

\* Each value is where it belongs after any sequence of options: settings in the
\* tree, as leaves and with the last value, options of the program in the map
\* with the first.
ValuesThatCount == SettingsAreLeaves /\ LastSettingWins /\ FirstOptionStays
================================================================================
