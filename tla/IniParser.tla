------------------------------- MODULE IniParser -------------------------------
(***************************************************************************)
(* utils/ini_parser/ini_parser.cpp: reading a configuration file and the   *)
(* files it includes.  operator() calls itself for an #include line, so    *)
(* "stack" is both the C++ call stack (line number, prefix and stream of   *)
(* each activation) and includes_, which the sentry keeps in step with it. *)
(*                                                                         *)
(* A line is what the parser makes of it: a key with a value, a section, an*)
(* #include, nothing (blank or a comment), or "bad", one of the shapes that*)
(* tokenize, process_key or operator() throw on.                           *)
(*                                                                         *)
(* The file system is shared with other processes.  A file is opened (line *)
(* 94) before its canonical path is computed (line 97), and what a location*)
(* refers to may change in between, or while the parser is elsewhere.      *)
(***************************************************************************)
EXTENDS Naturals, FiniteSets, SequencesExt

CONSTANTS
  Files,      \* files; each stands for its one canonical path as well
  Dirs,       \* directories
  Dir,        \* the directory that holds a file
  Names,      \* what may follow #include
  Keys,       \* keys, without the prefix of their section
  Sections,   \* prefixes that sections give, the dot included (lines 182-188)
  NoPrefix,   \* the prefix before the first section
  Absent,     \* there is no file at a location
  Root,       \* the location given to parse
  Links,      \* the file found at each location when parsing starts
  Mutable,    \* locations that other processes may change meanwhile
  Contents    \* the contents that the files may have

Locations == Dirs \X Names

Line ==
  [kind : {"pair"}, key : Keys] \cup
  [kind : {"section"}, prefix : Sections] \cup
  [kind : {"include"}, name : Names] \cup
  [kind : {"blank", "bad"}]

ASSUME FilesAssumption ==
  /\ Dir \in [Files -> Dirs]
  /\ Absent \notin Files
  /\ Root \in Locations
  /\ Links \in [Locations -> Files \cup {Absent}]
  /\ Mutable \subseteq Locations
  /\ Contents \subseteq [Files -> Seq(Line)]

VARIABLES
  content,   \* what the files contain; the parser never changes it
  mutable,   \* the locations that do change while this parser runs
  links,     \* the file at each location, Absent if none
  phase,     \* "start", "opened" (a stream, no path yet), "reading",
             \* "throwing", and the outcomes "parsed" and "failed"
  opened,    \* the location and the file of the stream opened last
  stack,     \* the activations of operator(), the root's first
  values,    \* values_, each with the line it was read from
  trace      \* the "(line)" of each frame that an error passed, outermost first

vars == <<content, mutable, links, phase, opened, stack, values, trace>>

\* "path" is the element of includes_; "file" is what the stream reads.
Frame == [path : Files, file : Files, line : Nat \ {0}, prefix : Sections \cup {NoPrefix}]
Value == [prefix : Sections \cup {NoPrefix}, key : Keys, file : Files, line : Nat \ {0}]

TypeOK ==
  /\ content \in [Files -> Seq(Line)]
  /\ mutable \subseteq Mutable
  /\ links \in [Locations -> Files \cup {Absent}]
  /\ phase \in {"start", "opened", "reading", "throwing", "parsed", "failed"}
  /\ opened \in [at : Locations, file : Files \cup {Absent}]
  /\ phase = "opened" => opened.file \in Files
  /\ stack \in Seq(Frame)
  /\ phase = "reading" => stack # <<>>
  /\ values \in Seq(Value)
  /\ trace \in Seq(Nat \ {0})

-------------------------------------------------------------------------------
Depth == Len(stack)
Top == Last(stack)
Paths == {stack[i].path : i \in 1..Depth}

\* Names with an underscore are deliberately wrong variants, of bugs that the
\* properties below must be able to see; nothing in the specification uses them.

\* The last line of a file is lost.
AtEnd_LosesLastLine == Top.line >= Len(content[Top.file])

\* The line that the innermost activation is at, while there is one.
AtEnd == Top.line > Len(content[Top.file])
Current == content[Top.file][Top.line]

\* The activation goes on to the line after the one it has dealt with.
NextLine(s) == [s EXCEPT ![Len(s)].line = @ + 1]

Init ==
  /\ content \in Contents
  /\ mutable \in SUBSET Mutable
  /\ links = Links
  /\ phase = "start"
  /\ opened = [at |-> Root, file |-> Absent]
  /\ stack = <<>>
  /\ values = <<>>
  /\ trace = <<>>

\* Lines 94-96 and 251-253: an ifstream on whatever the location refers to now.
Open(at, failed) ==
  /\ opened' = [at |-> at, file |-> links[at]]
  /\ phase' = IF links[at] = Absent THEN failed ELSE "opened"

\* Lines 250-253.
OpenRoot ==
  /\ phase = "start"
  /\ Open(Root, "failed")
  /\ UNCHANGED <<content, mutable, links, stack, values, trace>>

\* Only a file that includes itself is noticed.
Enter_OnlyDirectCycles ==
  /\ phase = "opened"
  /\ LET path == links[opened.at]
     IN  IF path = Absent \/ (Depth > 0 /\ path = Top.path)
           THEN /\ phase' = "throwing"
                /\ UNCHANGED stack
           ELSE /\ phase' = "reading"
                /\ stack' = Append(stack, [path |-> path, file |-> opened.file,
                                           line |-> 1, prefix |-> NoPrefix])
  /\ UNCHANGED <<content, mutable, links, opened, values, trace>>

\* The prefix is a member of the parser instead of a local of operator().
Enter_InheritsPrefix ==
  /\ phase = "opened"
  /\ LET path == links[opened.at]
     IN  IF path = Absent \/ path \in Paths
           THEN /\ phase' = "throwing"
                /\ UNCHANGED stack
           ELSE /\ phase' = "reading"
                /\ stack' = Append(stack, [path |-> path, file |-> opened.file, line |-> 1,
                              prefix |-> IF Depth > 0 THEN Top.prefix ELSE NoPrefix])
  /\ UNCHANGED <<content, mutable, links, opened, values, trace>>

\* Lines 97-111, 143-157 and 255: the path is looked up again, refused if it is
\* being read already, and read from its first line otherwise.
Enter ==
  /\ phase = "opened"
  /\ LET path == links[opened.at]
     IN  IF path = Absent \/ path \in Paths
           THEN /\ phase' = "throwing"
                /\ UNCHANGED stack
           ELSE /\ phase' = "reading"
                /\ stack' = Append(stack, [path |-> path, file |-> opened.file,
                                           line |-> 1, prefix |-> NoPrefix])
  /\ UNCHANGED <<content, mutable, links, opened, values, trace>>

\* Lines 158-230, for the kinds of lines that end without an exception.
ReadPair ==
  /\ phase = "reading" /\ ~AtEnd
  /\ Current.kind = "pair"
  /\ values' = Append(values, [prefix |-> Top.prefix, key |-> Current.key,
                               file |-> Top.file, line |-> Top.line])
  /\ stack' = NextLine(stack)
  /\ UNCHANGED <<content, mutable, links, phase, opened, trace>>

ReadSection ==
  /\ phase = "reading" /\ ~AtEnd
  /\ Current.kind = "section"
  /\ stack' = NextLine([stack EXCEPT ![Depth].prefix = Current.prefix])
  /\ UNCHANGED <<content, mutable, links, phase, opened, values, trace>>

ReadBlank ==
  /\ phase = "reading" /\ ~AtEnd
  /\ Current.kind = "blank"
  /\ stack' = NextLine(stack)
  /\ UNCHANGED <<content, mutable, links, phase, opened, values, trace>>

\* A file that is not there is ignored.
ReadInclude_SkipsMissing ==
  /\ phase = "reading" /\ ~AtEnd
  /\ Current.kind = "include"
  /\ Open(<<Dir[Top.path], Current.name>>, "reading")
  /\ stack' = IF phase' = "reading" THEN NextLine(stack) ELSE stack
  /\ UNCHANGED <<content, mutable, links, values, trace>>

\* Lines 76-96: a relative name is looked for beside the file that names it.
ReadInclude ==
  /\ phase = "reading" /\ ~AtEnd
  /\ Current.kind = "include"
  /\ Open(<<Dir[Top.path], Current.name>>, "throwing")
  /\ UNCHANGED <<content, mutable, links, stack, values, trace>>

ReadBad ==
  /\ phase = "reading" /\ ~AtEnd
  /\ Current.kind = "bad"
  /\ phase' = "throwing"
  /\ UNCHANGED <<content, mutable, links, opened, stack, values, trace>>

\* The #include line is read again after its file.
Leave_RepeatsInclude ==
  /\ phase = "reading" /\ AtEnd
  /\ IF Depth = 1
       THEN /\ phase' = "parsed"
            /\ stack' = <<>>
       ELSE /\ stack' = Front(stack)
            /\ UNCHANGED phase
  /\ UNCHANGED <<content, mutable, links, opened, values, trace>>

\* The end of the stream: line 235 and the sentry's destructor (149-151).  The
\* activation below goes on after its #include line.
Leave ==
  /\ phase = "reading" /\ AtEnd
  /\ IF Depth = 1
       THEN /\ phase' = "parsed"
            /\ stack' = <<>>
       ELSE /\ stack' = NextLine(Front(stack))
            /\ UNCHANGED phase
  /\ UNCHANGED <<content, mutable, links, opened, values, trace>>

\* Only the innermost line number is kept.
Unwind_InnermostLine ==
  /\ phase = "throwing"
  /\ IF Depth = 0
       THEN /\ phase' = "failed"
            /\ UNCHANGED <<stack, trace>>
       ELSE /\ trace' = IF trace = <<>> THEN <<Top.line>> ELSE trace
            /\ stack' = Front(stack)
            /\ UNCHANGED phase
  /\ UNCHANGED <<content, mutable, links, opened, values>>

\* Lines 231-234 and the sentry of that activation; 256-258 in the end.
Unwind ==
  /\ phase = "throwing"
  /\ IF Depth = 0
       THEN /\ phase' = "failed"
            /\ UNCHANGED <<stack, trace>>
       ELSE /\ trace' = <<Top.line>> \o trace
            /\ stack' = Front(stack)
            /\ UNCHANGED phase
  /\ UNCHANGED <<content, mutable, links, opened, values>>

\* Another process creates, removes or replaces what a location refers to.
Relink(at, target) ==
  /\ at \in mutable
  /\ links' = [links EXCEPT ![at] = target]
  /\ UNCHANGED <<content, mutable, phase, opened, stack, values, trace>>

Parser ==
  \/ OpenRoot \/ Enter
  \/ ReadPair \/ ReadSection \/ ReadBlank \/ ReadInclude \/ ReadBad
  \/ Leave \/ Unwind

Next == Parser \/ \E at \in mutable, target \in Files \cup {Absent} : Relink(at, target)

Spec == Init /\ [][Next]_vars

\* The parser is a function called by a running thread.
FairSpec == Spec /\ WF_vars(Parser)

-------------------------------------------------------------------------------
\* Properties of every run, whatever other processes do to the file system.

\* No path is being read by two activations at once: the recursion of #include
\* is never deeper than there are files.
IncludesDistinct ==
  \A i, j \in 1..Depth : i # j => stack[i].path # stack[j].path

\* The prefix of every key is that of the last section before it in its own
\* file: an included file neither inherits the section it was included under
\* nor leaves one of its own behind.
PrefixIsLocal ==
  \A v \in ToSet(values) :
    LET sections == {n \in 1..(v.line - 1) : content[v.file][n].kind = "section"}
    IN  IF sections = {} THEN v.prefix = NoPrefix
        ELSE \E n \in sections : /\ \A m \in sections : m <= n
                                 /\ v.prefix = content[v.file][n].prefix

\* Parsing ends: no file, and no set of files that include each other, keeps
\* it from returning or throwing, even if locations change under it for ever.
Terminates == <>(phase \in {"parsed", "failed"})

-------------------------------------------------------------------------------
\* Properties of runs in which no location changes.

\* The file that an #include line of a file refers to.
Target(f, n) ==
  IF content[f][n].kind = "include" THEN links[<<Dir[f], content[f][n].name>>] ELSE Absent

Included(f) == {Target(f, n) : n \in 1..Len(content[f])} \ {Absent}

\* The files that can be reached from a set of files by #include lines: the least
\* set that has them and whatever its files include.
Closure(start) ==
  LET closed == {S \in SUBSET Files : start \subseteq S /\ \A f \in S : Included(f) \subseteq S}
  IN  {f \in Files : \A S \in closed : f \in S}

Needed == IF links[Root] = Absent THEN {} ELSE Closure({links[Root]})

\* A line that no reading of its file can get past.
Faulty(f, n) ==
  \/ content[f][n].kind = "bad"
  \/ content[f][n].kind = "include" /\ Target(f, n) = Absent

Clean == \A f \in Needed : \A n \in 1..Len(content[f]) : ~Faulty(f, n)
Acyclic == \A f \in Needed : f \notin Closure(Included(f))

\* Parsing succeeds exactly if every file needed is there, has no bad line and
\* does not include itself over any number of files.  A file that is included
\* twice without being its own ancestor is no cycle.
ParsedIffWellFormed ==
  mutable = {} =>
  /\ phase = "parsed" => links[Root] # Absent /\ Clean /\ Acyclic
  /\ phase = "failed" => links[Root] = Absent \/ ~Clean \/ ~Acyclic

\* The values of a successful parse come from the keys of the files needed, and
\* none of those is missing.
NothingSkipped ==
  mutable = {} /\ phase = "parsed" =>
    {<<v.file, v.line>> : v \in ToSet(values)}
      = UNION {{f} \X {n \in 1..Len(content[f]) : content[f][n].kind = "pair"} : f \in Needed}

\* A way through the files, by the #include line given for each, to a line that is
\* at fault or that closes a cycle.
Leads(files, lines) ==
  LET n == Len(lines)
  IN  /\ n > 0 /\ files[1] = links[Root]
      /\ \A i \in 1..n : lines[i] \in 1..Len(content[files[i]])
      /\ \A i \in 1..(n - 1) : Target(files[i], lines[i]) = files[i + 1]
      /\ Faulty(files[n], lines[n]) \/ \E i \in 1..n : Target(files[n], lines[n]) = files[i]

\* The "(line)" prefixes of an error message lead from the root, #include by
\* #include, to a line that is at fault or that closes a cycle.
ErrorLeadsToFault ==
  mutable = {} /\ phase = "failed" /\ links[Root] # Absent =>
    \E files \in [1..Len(trace) -> Files] : Leads(files, trace)
================================================================================
