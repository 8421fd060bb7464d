------------------------------ MODULE ConsoleSink ------------------------------
(***************************************************************************)
(* utils/program_options/console_sink.cpp: a factory that boost::log asks  *)
(* for a sink wherever the settings have a section for one with the        *)
(* destination "Console".  The factory remembers the last sink it made in  *)
(* a weak_ptr, console_sink_, and console_sink() gives it to the program.  *)
(*                                                                         *)
(* One thread initializes the log, by boost::log::init_from_settings:      *)
(* it makes the sinks of all sections before it adds any of them to the    *)
(* core of the log, and forgets them all when one section is wrong.  Other *)
(* threads call console_sink() meanwhile.  A weak_ptr consists of two      *)
(* words, to the object and to the count of its references, and nothing    *)
(* guards console_sink_: its words are written and read one by one.        *)
(***************************************************************************)
EXTENDS Naturals, Sequences

CONSTANTS Threads, Names   \* those that call console_sink(); the names of sections

\* What create_sink finds in a section: whether its filter and format can be parsed.
Section == [name : Names, destination : {"Console", "other", "unknown"}, good : BOOLEAN]

VARIABLES
  registered,    \* whether register_console_sink_factory was called
  sections,      \* those that init_from_settings has not come to yet
  step,          \* where it is: "out", "making", "assigning"
  sinks,         \* history: the sinks that create_sink made; their sections' names
  new_sinks,     \* those that the call in progress made
  core,          \* those that the core of the log has
  object, count, \* the words of console_sink_, 0 if null; sink n has count n
  unwritten,     \* the words that the assignment in progress has not written
  at,            \* where each thread is in console_sink: "out", "locking", "reading"
  loaded,        \* the word for the count that it has read
  handles,       \* the handle it has got
  disturbed,     \* history: the threads during whose calls a word was written
  latest, lost   \* history: the last sink that an initialization added to the core,
                 \* and whether one failed since then that had made a sink

sinkVars == <<registered, sections, step, sinks, new_sinks, core, object, count, unwritten>>
readerVars == <<at, loaded, handles, disturbed>>
history == <<latest, lost>>
vars == <<sinkVars, readerVars, history>>

None == [owns |-> 0, points |-> 0]

Made == 1..Len(sinks)

TypeOK ==
  /\ registered \in BOOLEAN
  /\ sections \in Seq(Section)
  /\ step \in {"out", "making", "assigning"}
  /\ sinks \in Seq(Names)
  /\ new_sinks \subseteq Made /\ core \subseteq Made
  /\ {object, count, latest} \subseteq Made \cup {0}
  /\ unwritten \subseteq {"object", "count"}
  /\ at \in [Threads -> {"out", "locking", "reading"}]
  /\ loaded \in [Threads -> Made \cup {0}]
  /\ handles \in [Threads -> [owns : Made \cup {0}, points : Made \cup {0}]]
  /\ disturbed \subseteq Threads
  /\ lost \in BOOLEAN

Init ==
  /\ registered \in BOOLEAN
  /\ sections = << >> /\ step = "out"
  /\ sinks = << >> /\ new_sinks = {} /\ core = {}
  /\ object = 0 /\ count = 0 /\ unwritten = {}
  /\ at = [t \in Threads |-> "out"]
  /\ loaded = [t \in Threads |-> 0]
  /\ handles = [t \in Threads |-> None]
  /\ disturbed = {}
  /\ latest = 0 /\ lost = FALSE

\* A sink lives as long as the core, the call that made it or a handle owns it;
\* its count lives as long as it or a weak_ptr.  Null is no sink.
Alive(s) == s # 0 /\ (s \in core \cup new_sinks \/ \E t \in Threads : handles[t].owns = s)
CountAlive(s) == s = 0 \/ Alive(s) \/ count = s

-------------------------------------------------------------------------------
(* Initialization of the log. *)

\* init_from_settings is called, and has found the settings of the core right.
Begin(found) ==
  /\ step = "out"
  /\ step' = "making"
  /\ sections' = found
  /\ UNCHANGED <<registered, sinks, new_sinks, core, object, count, unwritten, readerVars, history>>

\* Whose factory the log asks for the sink of the first section; without ours it
\* has one of its own for the console.
ByFactory == sections # << >> /\ registered /\ Head(sections).destination = "Console"
ByBoost == sections # << >> /\ ~ByFactory /\ Head(sections).destination # "unknown"

Finds(good) == step = "making" /\ Head(sections).good = good

\* The first sink stays the one that is remembered.
CreateSink_KeepsFirst ==
  /\ ByFactory /\ Finds(TRUE)
  /\ sinks' = Append(sinks, Head(sections).name)
  /\ new_sinks' = new_sinks \cup {Len(sinks')}
  /\ unwritten' = IF count = 0 THEN {"object", "count"} ELSE {}
  /\ step' = "assigning"
  /\ UNCHANGED <<registered, sections, core, object, count, readerVars, history>>

\* Lines 24-53: the sink is complete.
CreateSink ==
  /\ ByFactory /\ Finds(TRUE)
  /\ sinks' = Append(sinks, Head(sections).name)
  /\ new_sinks' = new_sinks \cup {Len(sinks')}
  /\ unwritten' = {"object", "count"}
  /\ step' = "assigning"
  /\ UNCHANGED <<registered, sections, core, object, count, readerVars, history>>

InCall == {t \in Threads : at[t] # "out"}

\* Line 54: the two words, in the order that the compiler chose.
WriteObject ==
  /\ "object" \in unwritten
  /\ object' = Len(sinks)
  /\ unwritten' = unwritten \ {"object"}
  /\ disturbed' = disturbed \cup InCall
  /\ UNCHANGED <<registered, sections, step, sinks, new_sinks, core, count, at, loaded, handles, history>>

WriteCount ==
  /\ "count" \in unwritten
  /\ count' = Len(sinks)
  /\ unwritten' = unwritten \ {"count"}
  /\ disturbed' = disturbed \cup InCall
  /\ UNCHANGED <<registered, sections, step, sinks, new_sinks, core, object, at, loaded, handles, history>>

\* Line 55.
ReturnSink ==
  /\ step = "assigning" /\ unwritten = {}
  /\ step' = "making"
  /\ sections' = Tail(sections)
  /\ UNCHANGED <<registered, sinks, new_sinks, core, object, count, unwritten, readerVars, history>>

OtherSink ==
  /\ ByBoost /\ Finds(TRUE)
  /\ sections' = Tail(sections)
  /\ UNCHANGED <<registered, step, sinks, new_sinks, core, object, count, unwritten, readerVars, history>>

\* The sink is remembered as soon as there is one.
SectionThrows_RememberedFirst ==
  /\ sections # << >> /\ step = "making"
  /\ (~ByFactory /\ ~ByBoost) \/ Finds(FALSE)
  /\ step' = "out"
  /\ sections' = << >>
  /\ new_sinks' = {}
  /\ lost' = (lost \/ new_sinks # {})
  /\ IF ByFactory THEN /\ sinks' = Append(sinks, Head(sections).name)
                       /\ object' = Len(sinks') /\ count' = Len(sinks')
                  ELSE UNCHANGED <<sinks, object, count>>
  /\ UNCHANGED <<registered, core, unwritten, readerVars, latest>>

\* There is no such destination, or lines 38 and 51 throw, or the same in a
\* factory of boost: the sinks made so far go away, but for those that a thread
\* has got already.
SectionThrows ==
  /\ sections # << >> /\ step = "making"
  /\ (~ByFactory /\ ~ByBoost) \/ Finds(FALSE)
  /\ step' = "out"
  /\ sections' = << >>
  /\ new_sinks' = {}
  /\ lost' = (lost \/ new_sinks # {})
  /\ UNCHANGED <<registered, sinks, core, object, count, unwritten, readerVars, latest>>

AddSinks ==
  /\ step = "making" /\ sections = << >>
  /\ step' = "out"
  /\ core' = core \cup new_sinks
  /\ latest' = IF new_sinks = {} THEN latest ELSE Len(sinks)
  /\ lost' = (lost /\ new_sinks = {})
  /\ new_sinks' = {}
  /\ UNCHANGED <<registered, sections, sinks, object, count, unwritten, readerVars>>

\* The program takes a sink off the core.
RemoveSink(s) ==
  /\ s \in core
  /\ core' = core \ {s}
  /\ UNCHANGED <<registered, sections, step, sinks, new_sinks, object, count, unwritten, readerVars, history>>

\* Line 72: from now on sections for the console are ours.
Register ==
  /\ ~registered
  /\ registered' = TRUE
  /\ UNCHANGED <<sections, step, sinks, new_sinks, core, object, count, unwritten, readerVars, history>>

-------------------------------------------------------------------------------
(* console_sink(), lines 58 and 76: weak_ptr::lock. *)

\* The word to the count is read; the thread has dropped the handle it had.
LoadCount(t) ==
  /\ at[t] = "out"
  /\ at' = [at EXCEPT ![t] = "locking"]
  /\ loaded' = [loaded EXCEPT ![t] = count]
  /\ handles' = [handles EXCEPT ![t] = None]
  /\ disturbed' = IF unwritten = {} THEN disturbed \ {t} ELSE disturbed \cup {t}
  /\ UNCHANGED <<sinkVars, history>>

\* The sink need not be alive.
Lock_Unchecked(t) ==
  /\ at[t] = "locking" /\ loaded[t] # 0
  /\ at' = [at EXCEPT ![t] = "reading"]
  /\ handles' = [handles EXCEPT ![t].owns = IF Alive(loaded[t]) THEN loaded[t] ELSE 0]
  /\ UNCHANGED <<sinkVars, loaded, disturbed, history>>

\* The sink gets one more owner if it has any; a count that went away after it was
\* loaded may seem to have one.
Lock(t) ==
  /\ at[t] = "locking" /\ loaded[t] # 0
  /\ Alive(loaded[t]) \/ ~CountAlive(loaded[t])
  /\ at' = [at EXCEPT ![t] = "reading"]
  /\ handles' = [handles EXCEPT ![t].owns = IF Alive(loaded[t]) THEN loaded[t] ELSE 0]
  /\ UNCHANGED <<sinkVars, loaded, disturbed, history>>

\* Null is not expected.
FindNothing_OnlyExpired(t) ==
  /\ at[t] = "locking" /\ loaded[t] # 0 /\ ~Alive(loaded[t])
  /\ at' = [at EXCEPT ![t] = "out"]
  /\ UNCHANGED <<sinkVars, loaded, handles, disturbed, history>>

\* There was no sink yet, or it is gone: null is returned.
FindNothing(t) ==
  /\ at[t] = "locking" /\ ~Alive(loaded[t])
  /\ at' = [at EXCEPT ![t] = "out"]
  /\ UNCHANGED <<sinkVars, loaded, handles, disturbed, history>>

\* The word to the object is read and the handle returned.
ReadObject(t) ==
  /\ at[t] = "reading"
  /\ at' = [at EXCEPT ![t] = "out"]
  /\ handles' = [handles EXCEPT ![t].points = object]
  /\ UNCHANGED <<sinkVars, loaded, disturbed, history>>

Answer(t) == Lock(t) \/ FindNothing(t) \/ ReadObject(t)

Reader(t) == LoadCount(t) \/ Answer(t)

MakeSinks == CreateSink \/ WriteObject \/ WriteCount \/ ReturnSink \/ OtherSink

Program == Register \/ (\E s \in core : RemoveSink(s)) \/ (\E t \in Threads : Reader(t))

Next == (\E found \in Seq(Section) : Begin(found)) \/ MakeSinks \/ SectionThrows \/ AddSinks \/ Program

Spec == Init /\ [][Next]_vars

-------------------------------------------------------------------------------
\* A handle that is not null owns what it points to.  Only one that was asked for
\* while the factory assigned the second sink or a later one may own one sink and
\* point to another, or own nothing any more (lines 54 and 58 have no lock).
HandlesWhole ==
  \A t \in Threads :
    LET h == handles[t]
    IN  at[t] = "out" /\ h.points # 0 /\ h.points # h.owns => t \in disturbed /\ Len(sinks) >= 2

\* Between initializations the factory remembers the sink that was added to the
\* core last, also after one that failed, unless that had made a sink before a
\* later section was found wrong: from then on console_sink() does not find the
\* sink that the core still has.
ConsoleRemembered ==
  step = "out" =>
    IF lost THEN object = count /\ count # latest /\ count \notin core
            ELSE object = latest /\ count = latest

\* A call of console_sink() during which no word is written returns the sink that
\* is remembered, or null if that is gone or there was none yet; and between
\* initializations this is the last one that was added to the core, if the core
\* still has it and no later initialization failed (lines 54 and 58).
SinkFound ==
  [][\A t \in Threads :
       at[t] # "out" /\ at'[t] = "out" /\ t \notin disturbed =>
         /\ handles'[t] = IF Alive(count) THEN [owns |-> count, points |-> count] ELSE None
         /\ step = "out" /\ ~lost /\ latest \in core => handles'[t].owns = latest]_vars

\* Every call of console_sink() returns, also one before the first sink was made
\* and one whose sink goes away meanwhile: it waits for nobody (line 58).
SinkCallsReturn == \A t \in Threads : at[t] # "out" ~> at[t] = "out"
================================================================================
