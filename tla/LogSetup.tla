------------------------------- MODULE LogSetup -------------------------------
(***************************************************************************)
(* How a program sets up its log: LogSettings collects the settings from   *)
(* the options, boost::log::init_from_settings reads the tree they make,   *)
(* and ConsoleSink makes the sinks of those sections that are for the      *)
(* console, while other threads already call console_sink().  The program  *)
(* may set up its log again, with other options.                           *)
(***************************************************************************)
EXTENDS ConsoleSink, SequencesExt

CONSTANTS
  Parts, Values, Inputs, Stores,   \* those of LogSettings; its Numbers are the Names here
  Wrong,      \* the values that are no filter and no destination
  Reloads,    \* the inputs that the program may set up the log with later
  MaxCalls    \* bound of the model: how often it does

VARIABLES
  overload, options, before, next, tree, options_map, has_log_settings, phase,   \* LogSettings
  calls                                                      \* how often the log was set up

L == INSTANCE LogSettings WITH Numbers <- Names

\* What LogSettings assumes of its constants, and what the program may do later.
ASSUME SetupAssumption ==
  /\ {"Sinks", "Core", "", "Destination", "Filter"} \subseteq Parts
  /\ Names \subseteq Parts \ {"Sinks", "Core", ""}
  /\ Inputs \subseteq Seq(L!Option) /\ Reloads \subseteq Inputs
  /\ \A store \in Stores :
       DOMAIN store \subseteq L!Paths /\ \A n \in DOMAIN store : store[n] \in Values
  /\ Wrong \subseteq Values \ {"Console"} /\ "none" \notin Values
  /\ MaxCalls \in Nat \ {0}

logVars == <<overload, options, before, next, tree, options_map, has_log_settings, phase>>
allVars == <<logVars, vars, calls>>

SetupTypeOK == L!TypeOK /\ TypeOK /\ calls \in 1..MaxCalls

SetupInit == L!Init /\ Init /\ calls = 1

-------------------------------------------------------------------------------
\* What boost::log takes out of the tree.

ValueOr(path, default) == IF path \in DOMAIN tree THEN tree[path] ELSE default

IsSinkSetting(option) ==
  L!Considered(option) /\ L!IsSetting(option.name) /\ option.name[1] = "Sinks"

\* Where the options name a section for the first time: put makes its node then.
Firsts ==
  {i \in DOMAIN options :
     /\ IsSinkSetting(options[i])
     /\ \A j \in 1..(i - 1) : IsSinkSetting(options[j]) => options[j].name[2] # options[i].name[2]}

First(k) == CHOOSE i \in Firsts : Cardinality({j \in Firsts : j <= i}) = k

\* Filter stands for Format too; a section must have a destination.
SectionNamed(n) ==
  LET destination == ValueOr(<<"Sinks", n, "Destination">>, "none")
  IN  [name |-> n,
       destination |-> IF destination = "Console" THEN "Console"
                       ELSE IF destination \in Wrong \cup {"none"} THEN "unknown"
                       ELSE "other",
       good |-> ValueOr(<<"Sinks", n, "Filter">>, "none") \notin Wrong]

\* The sections for sinks, in the order in which put made their nodes.
Sections == [k \in 1..Cardinality(Firsts) |-> SectionNamed(options[First(k)].name[2])]

CoreGood == ValueOr(<<"Core", "Filter">>, "none") \notin Wrong

-------------------------------------------------------------------------------
Collect == (L!Setting \/ L!OtherOption \/ L!Ignored) /\ UNCHANGED <<vars, calls>>

\* Lines 101 and 133: all options are collected.
BeginInit ==
  /\ phase = "collecting" /\ next > Len(options)
  /\ CoreGood
  /\ Begin(Sections)
  /\ UNCHANGED <<logVars, calls>>

SetupSinks == MakeSinks /\ UNCHANGED <<logVars, calls>>

\* Lines 102-103 and 134-135.
InitReturns == AddSinks /\ L!InitFromSettings /\ phase' = "returned" /\ UNCHANGED calls

InitThrows ==
  /\ \/ SectionThrows
     \/ step = "out" /\ ~CoreGood /\ UNCHANGED vars
  /\ L!InitFromSettings /\ phase' = "thrown"
  /\ UNCHANGED calls

\* The program reads its options once more.
SetUpAgain ==
  /\ phase # "collecting" /\ calls < MaxCalls
  /\ calls' = calls + 1
  /\ overload' \in {"options", "strings"}
  /\ options' \in {input \in Reloads : L!Passed(overload', input)}
  /\ before' = options_map
  /\ next' = 1
  /\ tree' = << >>
  /\ has_log_settings' = FALSE
  /\ phase' = "collecting"
  /\ UNCHANGED <<options_map, vars>>

\* The program and its threads.
Meanwhile == Program /\ UNCHANGED <<logVars, calls>>

SetupNext ==
  Collect \/ BeginInit \/ SetupSinks \/ InitReturns \/ InitThrows \/ SetUpAgain \/ Meanwhile

SetupSpec == SetupInit /\ [][SetupNext]_allVars

\* A thread that is in console_sink() runs; nothing says that the log is set up.
FairSetupSpec ==
  SetupSpec /\ \A t \in Threads : WF_allVars(Answer(t) /\ UNCHANGED <<logVars, calls>>)

-------------------------------------------------------------------------------
\* Where the options have settings of a section, and which sections are for the
\* console.
Positions(n) == {i \in DOMAIN options : IsSinkSetting(options[i]) /\ options[i].name[2] = n}

Consoles ==
  LET Destinations(n) == {i \in Positions(n) : options[i].name[3] = "Destination"}
  IN  {n \in Names : /\ Destinations(n) # {}
                       /\ options[Max(Destinations(n))].values[1] = "Console"}

\* When the log was set up and the console factory made a sink, console_sink() has
\* the sink of the section that is last, by the first of its settings, among those
\* whose destination, as it was given last, is the console (lines 92 and 121 of
\* log.cpp, 54 of console_sink.cpp).
SettingsReachSink ==
  [][phase' = "returned" /\ new_sinks # {} /\ new_sinks' = {} =>
       /\ count' \in core'
       /\ sinks[count'] \in Consoles
       /\ \A n \in Consoles : Min(Positions(n)) <= Min(Positions(sinks[count']))]_allVars

\* See LogSettings.
ValuesThatCount == L!ValuesThatCount
================================================================================
