---------------------------- MODULE IniParserProofs ----------------------------
(***************************************************************************)
(* Proofs about IniParser, for any files and any links between them: first *)
(* whatever changes other processes make to the links, then what a run     *)
(* makes of files that nobody changes.  At the end, proofs about           *)
(* IniTokenizer for lines of any length.                                   *)
(***************************************************************************)
EXTENDS IniParser, IniTokenizer, SequenceTheorems, WellFoundedInduction, TLAPS

\* What goes on and what comes off the end of a stack.
LEMMA LastAndFront ==
  ASSUME NEW S, NEW s \in Seq(S), s # <<>>
  PROVE  /\ Len(s) \in Nat \ {0}
         /\ Last(s) = s[Len(s)] /\ Last(s) \in S
         /\ Front(s) \in Seq(S)
         /\ Len(Front(s)) = Len(s) - 1
         /\ \A i \in 1..(Len(s) - 1) : Front(s)[i] = s[i]
<1>1. Len(s) \in Nat \ {0}
  OBVIOUS
<1>2. Last(s) = s[Len(s)] /\ Last(s) \in S
  BY <1>1 DEF Last
<1>3. Front(s) = [i \in 1..(Len(s) - 1) |-> s[i]]
  BY <1>1 DEF Front
<1>4. /\ Front(s) \in Seq(S)
      /\ Len(Front(s)) = Len(s) - 1
      /\ \A i \in 1..(Len(s) - 1) : Front(s)[i] = s[i]
  BY <1>1, <1>3
<1> QED
  BY <1>1, <1>2, <1>4

LEMMA TypeInit == Init => TypeOK
BY FilesAssumption DEF Init, TypeOK

\* A stack whose last frame has gone on to its next line.
LEMMA NextLineType ==
  ASSUME NEW s \in Seq(Frame), s # <<>>
  PROVE  /\ NextLine(s) \in Seq(Frame) /\ NextLine(s) # <<>>
         /\ Len(NextLine(s)) = Len(s)
         /\ \A i \in 1..Len(s) : NextLine(s)[i].path = s[i].path
<1> DEFINE n == Len(s)
           t == [s EXCEPT ![n].line = @ + 1]
<1>1. n \in Nat \ {0} /\ s[n] \in Frame /\ s \in [1..n -> Frame]
  OBVIOUS
<1>2. [s[n] EXCEPT !.line = @ + 1] \in Frame
  BY <1>1 DEF Frame
<1>3. t \in [1..n -> Frame]
  BY <1>1, <1>2
<1>4. t \in Seq(Frame) /\ Len(t) = n
  BY <1>1, <1>3
<1>5. \A i \in 1..n : t[i].path = s[i].path
  BY <1>1, <1>2 DEF Frame
<1> QED
  BY <1>1, <1>4, <1>5 DEF NextLine

-------------------------------------------------------------------------------
\* The facts that every step at a line starts from.
LEMMA AtLine ==
  ASSUME TypeOK, phase = "reading"
  PROVE  /\ stack # <<>> /\ stack \in Seq(Frame)
         /\ Depth \in Nat \ {0}
         /\ Top = stack[Depth] /\ Top \in Frame
         /\ ~AtEnd => Current \in Line
<1>1. /\ stack # <<>> /\ stack \in Seq(Frame)
      /\ Depth \in Nat \ {0}
      /\ Top = stack[Depth] /\ Top \in Frame
  BY LastAndFront DEF TypeOK, Depth, Top
<1>2. /\ content[Top.file] \in Seq(Line)
      /\ Top.line \in Nat \ {0}
  BY <1>1 DEF TypeOK, Frame
<1>3. ~AtEnd => Top.line \in 1..Len(content[Top.file])
  BY <1>2 DEF AtEnd
<1>4. ~AtEnd => Current \in Line
  BY <1>2, <1>3 DEF Current
<1> QED
  BY <1>1, <1>4

\* An ifstream on a location.
LEMMA OpenType ==
  ASSUME TypeOK, NEW at \in Locations, NEW failed, Open(at, failed),
         failed \in {"failed", "throwing"}
  PROVE  /\ opened' \in [at : Locations, file : Files \cup {Absent}]
         /\ phase' = "opened" => opened'.file \in Files
         /\ phase' \in {"opened", "failed", "throwing"}
<1>1. links[at] \in Files \cup {Absent}
  BY DEF TypeOK
<1> QED
  BY <1>1 DEF Open

\* The stack holds no path twice: what the search of line 98 keeps true.
Inv == TypeOK /\ IncludesDistinct

LEMMA EnterStep ==
  ASSUME Inv, Enter
  PROVE  Inv'
<1> DEFINE path == links[opened.at]
           frame == [path |-> path, file |-> opened.file, line |-> 1, prefix |-> NoPrefix]
<1>1. /\ opened.at \in Locations /\ opened.file \in Files
      /\ path \in Files \cup {Absent}
      /\ stack \in Seq(Frame) /\ Depth \in Nat
  BY DEF Inv, TypeOK, Enter, Depth
<1>2. CASE path = Absent \/ path \in Paths
  <2>1. phase' = "throwing" /\ UNCHANGED <<content, mutable, links, opened, stack, values, trace>>
    BY <1>2 DEF Enter
  <2> QED
    BY <2>1 DEF Inv, TypeOK, IncludesDistinct, Depth
<1>3. CASE path # Absent /\ path \notin Paths
  <2>1. /\ phase' = "reading" /\ stack' = Append(stack, frame)
        /\ UNCHANGED <<content, mutable, links, opened, values, trace>>
    BY <1>3 DEF Enter
  <2>2. frame \in Frame
    BY <1>1, <1>3 DEF Frame
  <2>3. /\ stack' \in Seq(Frame) /\ stack' # <<>>
        /\ Len(stack') = Depth + 1
        /\ \A i \in 1..Depth : stack'[i] = stack[i]
        /\ stack'[Depth + 1] = frame
    BY <1>1, <2>1, <2>2 DEF Depth
  <2>4. TypeOK'
    BY <2>1, <2>3 DEF Inv, TypeOK
  <2>5. \A i \in 1..Depth : stack[i].path # path
    BY <1>3 DEF Paths
  <2>6. \A i, j \in 1..(Depth + 1) : i # j => stack'[i].path # stack'[j].path
    <3> SUFFICES ASSUME NEW i \in 1..(Depth + 1), NEW j \in 1..(Depth + 1), i # j
                 PROVE  stack'[i].path # stack'[j].path
      OBVIOUS
    <3>1. CASE i \in 1..Depth /\ j \in 1..Depth
      BY <3>1, <2>3 DEF Inv, IncludesDistinct
    <3>2. CASE i = Depth + 1 /\ j \in 1..Depth
      BY <3>2, <2>3, <2>5
    <3>3. CASE j = Depth + 1 /\ i \in 1..Depth
      BY <3>3, <2>3, <2>5
    <3> QED
      BY <1>1, <3>1, <3>2, <3>3
  <2> QED
    BY <2>3, <2>4, <2>6 DEF Inv, IncludesDistinct, Depth
<1> QED
  BY <1>2, <1>3

\* Steps that go on to the next line of the innermost activation.
LEMMA NextLineDistinct ==
  ASSUME Inv, NEW s \in Seq(Frame), s # <<>>, stack' = NextLine(s),
         Len(s) <= Depth, \A i \in 1..Len(s) : s[i].path = stack[i].path
  PROVE  stack' \in Seq(Frame) /\ stack' # <<>> /\ IncludesDistinct'
<1>1. /\ stack' \in Seq(Frame) /\ stack' # <<>>
      /\ Len(stack') = Len(s)
      /\ \A i \in 1..Len(s) : stack'[i].path = stack[i].path
  BY NextLineType
<1>2. Len(s) \in Nat /\ Depth \in Nat
  BY DEF Inv, TypeOK, Depth
<1>3. \A i \in 1..Len(s) : i \in 1..Depth
  BY <1>2
<1> QED
  BY <1>1, <1>3 DEF Inv, IncludesDistinct, Depth

LEMMA ReadPairStep ==
  ASSUME Inv, ReadPair
  PROVE  Inv'
<1>1. /\ stack \in Seq(Frame) /\ stack # <<>> /\ Top \in Frame
      /\ Current \in Line /\ Current.kind = "pair"
  BY AtLine DEF Inv, ReadPair
<1>2. stack' \in Seq(Frame) /\ stack' # <<>> /\ IncludesDistinct'
  <2>1. Len(stack) <= Depth /\ stack' = NextLine(stack)
    BY <1>1 DEF Depth, ReadPair
  <2> QED
    BY <1>1, <2>1, NextLineDistinct
<1>3. Current.key \in Keys
  BY <1>1 DEF Line
<1>4. [prefix |-> Top.prefix, key |-> Current.key, file |-> Top.file, line |-> Top.line] \in Value
  BY <1>1, <1>3 DEF Frame, Value
<1>5. values' \in Seq(Value)
  BY <1>4 DEF ReadPair, Inv, TypeOK
<1> QED
  BY <1>2, <1>5 DEF ReadPair, Inv, TypeOK

LEMMA ReadSectionStep ==
  ASSUME Inv, ReadSection
  PROVE  Inv'
<1> DEFINE s == [stack EXCEPT ![Depth].prefix = Current.prefix]
<1>1. /\ stack \in Seq(Frame) /\ stack # <<>> /\ Depth \in Nat \ {0}
      /\ stack[Depth] \in Frame
      /\ Current \in Line /\ Current.kind = "section"
  BY AtLine DEF Inv, ReadSection
<1>2. Current.prefix \in Sections
  BY <1>1 DEF Line
<1>3. [stack[Depth] EXCEPT !.prefix = Current.prefix] \in Frame
  BY <1>1, <1>2 DEF Frame
<1>4. /\ s \in [1..Depth -> Frame]
      /\ \A i \in 1..Depth : s[i].path = stack[i].path
  <2>1. stack \in [1..Depth -> Frame]
    BY <1>1 DEF Depth
  <2>2. s \in [1..Depth -> Frame]
    BY <1>1, <1>3, <2>1
  <2>3. \A i \in 1..Depth : s[i].path = stack[i].path
    BY <1>1, <1>3, <2>1 DEF Frame
  <2> QED
    BY <2>2, <2>3
<1>5. s \in Seq(Frame) /\ Len(s) = Depth /\ s # <<>>
  BY <1>1, <1>4
<1>6. stack' \in Seq(Frame) /\ stack' # <<>> /\ IncludesDistinct'
  <2>1. stack' = NextLine(s) /\ Len(s) <= Depth
    BY <1>1, <1>5 DEF ReadSection
  <2> HIDE DEF s
  <2> QED
    BY <1>4, <1>5, <2>1, NextLineDistinct
<1> QED
  BY <1>6 DEF ReadSection, Inv, TypeOK

LEMMA ReadBlankStep ==
  ASSUME Inv, ReadBlank
  PROVE  Inv'
<1>1. stack \in Seq(Frame) /\ stack # <<>>
  BY AtLine DEF Inv, ReadBlank
<1>2. stack' \in Seq(Frame) /\ stack' # <<>> /\ IncludesDistinct'
  <2>1. Len(stack) <= Depth /\ stack' = NextLine(stack)
    BY <1>1 DEF Depth, ReadBlank
  <2> QED
    BY <1>1, <2>1, NextLineDistinct
<1> QED
  BY <1>2 DEF ReadBlank, Inv, TypeOK

LEMMA ReadIncludeStep ==
  ASSUME Inv, ReadInclude
  PROVE  Inv'
<1>1. /\ Top \in Frame
      /\ Current \in Line /\ Current.kind = "include"
  BY AtLine DEF Inv, ReadInclude
<1>2. <<Dir[Top.path], Current.name>> \in Locations
  BY <1>1, FilesAssumption DEF Line, Frame, Locations
<1>3. /\ opened' \in [at : Locations, file : Files \cup {Absent}]
      /\ phase' = "opened" => opened'.file \in Files
      /\ phase' \in {"opened", "failed", "throwing"}
  BY <1>2, OpenType DEF Inv, ReadInclude
<1> QED
  BY <1>3 DEF ReadInclude, Inv, TypeOK, IncludesDistinct, Depth

LEMMA OpenRootStep ==
  ASSUME Inv, OpenRoot
  PROVE  Inv'
<1>1. /\ opened' \in [at : Locations, file : Files \cup {Absent}]
      /\ phase' = "opened" => opened'.file \in Files
      /\ phase' \in {"opened", "failed", "throwing"}
  BY OpenType, FilesAssumption DEF Inv, OpenRoot
<1> QED
  BY <1>1 DEF OpenRoot, Inv, TypeOK, IncludesDistinct, Depth

\* The stack without its last frame.
LEMMA FrontFacts ==
  ASSUME Inv, Depth # 0
  PROVE  /\ Depth \in Nat \ {0} /\ stack # <<>>
         /\ Front(stack) \in Seq(Frame)
         /\ Len(Front(stack)) = Depth - 1
         /\ \A i \in 1..(Depth - 1) : i \in 1..Depth /\ Front(stack)[i] = stack[i]
         /\ Top \in Frame
<1>1. stack \in Seq(Frame) /\ stack # <<>> /\ Depth \in Nat \ {0}
  BY DEF Inv, TypeOK, Depth
<1> QED
  BY <1>1, LastAndFront DEF Depth, Top

LEMMA LeaveStep ==
  ASSUME Inv, Leave
  PROVE  Inv'
<1>1. Depth \in Nat \ {0}
  BY AtLine DEF Inv, Leave
<1>2. CASE Depth = 1
  <2>1. phase' = "parsed" /\ stack' = <<>> /\ UNCHANGED <<content, mutable, links, opened, values, trace>>
    BY <1>2 DEF Leave
  <2> QED
    BY <2>1 DEF Inv, TypeOK, IncludesDistinct, Depth
<1>3. CASE Depth # 1
  <2>1. /\ stack' = NextLine(Front(stack)) /\ phase = "reading"
        /\ UNCHANGED <<content, mutable, links, opened, phase, values, trace>>
    BY <1>3 DEF Leave
  <2>2. /\ Front(stack) \in Seq(Frame) /\ Front(stack) # <<>>
        /\ Len(Front(stack)) = Depth - 1 /\ Depth - 1 <= Depth
        /\ \A i \in 1..Len(Front(stack)) : Front(stack)[i].path = stack[i].path
    BY <1>1, <1>3, FrontFacts
  <2>3. stack' \in Seq(Frame) /\ stack' # <<>> /\ IncludesDistinct'
    BY <2>1, <2>2, NextLineDistinct
  <2> QED
    BY <2>1, <2>3 DEF Inv, TypeOK
<1> QED
  BY <1>2, <1>3

LEMMA UnwindStep ==
  ASSUME Inv, Unwind
  PROVE  Inv'
<1>1. CASE Depth = 0
  <2>1. phase' = "failed" /\ UNCHANGED <<content, mutable, links, opened, stack, values, trace>>
    BY <1>1 DEF Unwind
  <2> QED
    BY <2>1 DEF Inv, TypeOK, IncludesDistinct, Depth
<1>2. CASE Depth # 0
  <2>1. /\ trace' = <<Top.line>> \o trace /\ stack' = Front(stack)
        /\ phase = "throwing"
        /\ UNCHANGED <<content, mutable, links, opened, phase, values>>
    BY <1>2 DEF Unwind
  <2>2. Top.line \in Nat \ {0}
    BY <1>2, FrontFacts DEF Frame
  <2>3. trace' \in Seq(Nat \ {0})
    BY <2>1, <2>2 DEF Inv, TypeOK
  <2>4. TypeOK'
    BY <1>2, <2>1, <2>3, FrontFacts DEF Inv, TypeOK
  <2>5. Len(stack') = Depth - 1
    BY <1>2, <2>1, FrontFacts
  <2>6. \A i \in 1..(Depth - 1) : i \in 1..Depth /\ stack'[i] = stack[i]
    BY <1>2, <2>1, FrontFacts
  <2>7. IncludesDistinct'
    BY <2>5, <2>6 DEF Inv, IncludesDistinct, Depth
  <2> QED
    BY <2>4, <2>7 DEF Inv
<1> QED
  BY <1>1, <1>2

LEMMA Inductive == Inv /\ [Next]_vars => Inv'
<1> SUFFICES ASSUME Inv, [Next]_vars
             PROVE  Inv'
  OBVIOUS
<1>1. CASE ReadBad
  BY <1>1 DEF ReadBad, Inv, TypeOK, IncludesDistinct, Depth
<1>2. ASSUME NEW at \in mutable, NEW target \in Files \cup {Absent}, Relink(at, target)
      PROVE  Inv'
  BY <1>2 DEF Relink, Inv, TypeOK, IncludesDistinct, Depth
<1>3. CASE UNCHANGED vars
  BY <1>3 DEF vars, Inv, TypeOK, IncludesDistinct, Depth
<1> QED
  BY <1>1, <1>2, <1>3, OpenRootStep, EnterStep, ReadPairStep, ReadSectionStep, ReadBlankStep,
     ReadIncludeStep, LeaveStep, UnwindStep DEF Next, Parser

\* The stack, the values and the positions stay of their types.
THEOREM TypeCorrect == Spec => []TypeOK
<1>1. Init => Inv
  BY TypeInit DEF Init, Inv, IncludesDistinct, Depth
<1>2. Inv => TypeOK
  BY DEF Inv
<1> QED
  BY <1>1, <1>2, Inductive, PTL DEF Spec

\* However files include each other, and whatever other processes do to the
\* locations between the opening of a file and the lookup of its path, no path
\* is on the stack of includes twice.
THEOREM NoCycle == Spec => []IncludesDistinct
<1>1. Init => Inv
  BY TypeInit DEF Init, Inv, IncludesDistinct, Depth
<1>2. Inv => IncludesDistinct
  BY DEF Inv
<1> QED
  BY <1>1, <1>2, Inductive, PTL DEF Spec

\* Both at once, for the proofs below: the stack of operator() has its type and no
\* path twice.
THEOREM InductiveInvariant == Spec => []Inv
<1>1. Init => Inv
  BY TypeInit DEF Init, Inv, IncludesDistinct, Depth
<1> QED
  BY <1>1, Inductive, PTL DEF Spec

-------------------------------------------------------------------------------
(***************************************************************************)
(* The prefix of a section.  PrefixIsLocal is about values only; behind it *)
(* is that every activation has the prefix of the last section before its  *)
(* own line, those below the innermost one included, which will go on with *)
(* it after their #include lines.                                          *)
(***************************************************************************)

\* At line n of file f the prefix is p.
InForce(f, n, p) ==
  LET sections == {m \in 1..(n - 1) : content[f][m].kind = "section"}
  IN  IF sections = {} THEN p = NoPrefix
      ELSE \E m \in sections : /\ \A k \in sections : k <= m
                               /\ p = content[f][m].prefix

Waits(frame) == content[frame.file][frame.line].kind = "include"
Good(frame) == InForce(frame.file, frame.line, frame.prefix)

PrefixesInForce ==
  /\ phase = "start" => stack = <<>>
  /\ \A i \in 1..Depth : Good(stack[i])
  /\ \A i \in 1..Depth : i < Depth \/ phase = "opened" => Waits(stack[i])
  /\ \A i \in 1..Len(values) : Good(values[i])

\* A line that is no section leaves the prefix as it is ...
LEMMA KeepsPrefix ==
  ASSUME NEW f, NEW n \in Nat \ {0}, NEW p, InForce(f, n, p), content[f][n].kind # "section"
  PROVE  InForce(f, n + 1, p)
<1> DEFINE S(k) == {m \in 1..(k - 1) : content[f][m].kind = "section"}
<1>1. S(n + 1) = S(n)
  <2>1. \A m : m \in 1..((n + 1) - 1) <=> m \in 1..(n - 1) \/ m = n
    OBVIOUS
  <2> QED
    BY <2>1
<1>2. InForce(f, n, p) = (IF S(n) = {} THEN p = NoPrefix
        ELSE \E m \in S(n) : (\A k \in S(n) : k <= m) /\ p = content[f][m].prefix)
  BY Zenon DEF InForce
<1>3. InForce(f, n + 1, p) = (IF S(n + 1) = {} THEN p = NoPrefix
        ELSE \E m \in S(n + 1) : (\A k \in S(n + 1) : k <= m) /\ p = content[f][m].prefix)
  BY Zenon DEF InForce
<1> HIDE DEF S
<1> QED
  BY <1>1, <1>2, <1>3

\* ... and a section gives its own.
LEMMA GivesPrefix ==
  ASSUME NEW f, NEW n \in Nat \ {0}, content[f][n].kind = "section"
  PROVE  InForce(f, n + 1, content[f][n].prefix)
<1> DEFINE S == {m \in 1..((n + 1) - 1) : content[f][m].kind = "section"}
<1>1. n \in S /\ \A k \in S : k <= n
  OBVIOUS
<1>2. S # {}
  BY <1>1
<1> QED
  BY <1>1, <1>2 DEF InForce

LEMMA BeginsWithNone ==
  ASSUME NEW f
  PROVE  InForce(f, 1, NoPrefix)
<1>1. {m \in 1..(1 - 1) : content[f][m].kind = "section"} = {}
  OBVIOUS
<1> QED
  BY <1>1 DEF InForce

\* A stack whose last activation has dealt with its line.
LEMMA Advanced ==
  ASSUME NEW s \in Seq(Frame), s # <<>>,
         \A i \in 1..(Len(s) - 1) : Good(s[i]) /\ Waits(s[i]),
         InForce(s[Len(s)].file, s[Len(s)].line + 1, s[Len(s)].prefix)
  PROVE  /\ Len(NextLine(s)) = Len(s)
         /\ \A i \in 1..Len(s) : Good(NextLine(s)[i])
         /\ \A i \in 1..(Len(s) - 1) : Waits(NextLine(s)[i])
<1> DEFINE n == Len(s)
           t == [s EXCEPT ![n].line = @ + 1]
<1>1. n \in Nat \ {0} /\ s[n] \in Frame /\ s \in [1..n -> Frame]
  OBVIOUS
<1>2. t[n] = [s[n] EXCEPT !.line = @ + 1]
  BY <1>1
<1>3. t[n].file = s[n].file /\ t[n].line = s[n].line + 1 /\ t[n].prefix = s[n].prefix
  BY <1>1, <1>2 DEF Frame
<1>4. \A i \in 1..(n - 1) : t[i] = s[i]
  BY <1>1
<1>5. NextLine(s) = t /\ Len(NextLine(s)) = n
  BY NextLineType DEF NextLine
<1> HIDE DEF t
<1>6. Good(t[n])
  BY <1>3 DEF Good
<1>7. \A i \in 1..(n - 1) : Good(t[i]) /\ Waits(t[i])
  BY <1>4
<1>8. ASSUME NEW i \in 1..n
      PROVE  Good(t[i])
  <2>1. i \in Int /\ 1 <= i /\ i <= n /\ n \in Int
    BY <1>1, <1>8
  <2> HIDE DEF n
  <2>2. i = n \/ i <= n - 1
    BY <2>1
  <2>3. CASE i = n
    BY <1>6, <2>3
  <2>4. CASE i <= n - 1
    <3>1. i \in 1..(n - 1)
      BY <2>1, <2>4
    <3> QED
      BY <1>7, <3>1
  <2> QED
    BY <2>2, <2>3, <2>4
<1> QED
  BY <1>5, <1>7, <1>8

\* The facts about the line that is read.
LEMMA AtPrefix ==
  ASSUME Inv, PrefixesInForce, phase = "reading"
  PROVE  /\ stack \in Seq(Frame) /\ stack # <<>> /\ Depth \in Nat \ {0} /\ Depth = Len(stack)
         /\ Top = stack[Depth] /\ Top \in Frame /\ Top.line \in Nat \ {0}
         /\ InForce(Top.file, Top.line, Top.prefix)
         /\ \A i \in 1..(Depth - 1) : Good(stack[i]) /\ Waits(stack[i])
<1>1. /\ stack \in Seq(Frame) /\ stack # <<>> /\ Depth \in Nat \ {0} /\ Depth = Len(stack)
      /\ Top = stack[Depth] /\ Top \in Frame
  BY AtLine DEF Inv, Depth
<1>2. Top.line \in Nat \ {0}
  BY <1>1 DEF Frame
<1>3. Depth \in 1..Depth /\ \A i \in 1..(Depth - 1) : i \in 1..Depth /\ i < Depth
  BY <1>1
<1>4. InForce(Top.file, Top.line, Top.prefix)
  BY <1>1, <1>3 DEF PrefixesInForce, Good
<1> QED
  BY <1>1, <1>2, <1>3, <1>4 DEF PrefixesInForce

\* Goodness depends on the files only, which the parser does not write.
LEMMA GoodLater ==
  ASSUME content' = content, NEW n, \A i \in 1..n : Good(stack'[i])
  PROVE  \A i \in 1..n : Good(stack[i])'
BY DEF Good, InForce

LEMMA WaitsLater ==
  ASSUME content' = content, NEW n, \A i \in 1..n : Waits(stack'[i])
  PROVE  \A i \in 1..n : Waits(stack[i])'
BY DEF Waits

\* A step that appends no value leaves all values good.
LEMMA SameValues ==
  ASSUME PrefixesInForce, content' = content, values' = values
  PROVE  \A i \in 1..Len(values') : Good(values[i])'
<1>1. \A i \in 1..Len(values) : Good(values[i])
  BY DEF PrefixesInForce
<1>2. \A i \in 1..Len(values) : Good(values[i])'
  BY <1>1 DEF Good, InForce
<1> QED
  BY <1>2

\* What PrefixesInForce' needs of a step that goes on to a next line.
LEMMA AdvancedPrefixes ==
  ASSUME Inv, PrefixesInForce, content' = content, phase' # "start", phase' # "opened",
         NEW s \in Seq(Frame), s # <<>>, stack' = NextLine(s),
         \A i \in 1..(Len(s) - 1) : Good(s[i]) /\ Waits(s[i]),
         InForce(s[Len(s)].file, s[Len(s)].line + 1, s[Len(s)].prefix),
         \A i \in 1..Len(values') : Good(values'[i])
  PROVE  PrefixesInForce'
<1>1. /\ Len(stack') = Len(s) /\ Depth' = Len(s) /\ Len(s) \in Nat
      /\ \A i \in 1..Len(s) : Good(stack'[i])
      /\ \A i \in 1..(Len(s) - 1) : Waits(stack'[i])
  BY Advanced DEF Depth
<1> DEFINE n == Len(s)
<1> HIDE DEF n
<1>2. \A i \in 1..n : Good(stack[i])'
  <2>1. \A i \in 1..n : Good(stack'[i])
    BY <1>1 DEF n
  <2> QED
    BY <2>1, GoodLater
<1>3. \A i \in 1..(n - 1) : Waits(stack[i])'
  <2>1. \A i \in 1..(n - 1) : Waits(stack'[i])
    BY <1>1 DEF n
  <2> QED
    BY <2>1, WaitsLater
<1>4. \A i \in 1..Len(values') : Good(values[i])'
  BY DEF Good, InForce
<1>5. n \in Nat /\ Depth' = n
  BY <1>1 DEF n
<1>6. \A i \in 1..n : i < n => i \in 1..(n - 1)
  BY <1>5
<1> QED
  BY <1>2, <1>3, <1>4, <1>5, <1>6 DEF PrefixesInForce

LEMMA PairPrefixes == ASSUME Inv, PrefixesInForce, ReadPair PROVE PrefixesInForce'
<1> DEFINE v == [prefix |-> Top.prefix, key |-> Current.key, file |-> Top.file, line |-> Top.line]
<1>1. /\ content' = content /\ phase' = "reading" /\ phase = "reading"
      /\ stack' = NextLine(stack) /\ values' = Append(values, v) /\ values \in Seq(Value)
      /\ Current.kind = "pair"
  BY DEF ReadPair, Inv, TypeOK
<1>2. InForce(Top.file, Top.line + 1, Top.prefix)
  BY <1>1, AtPrefix, KeepsPrefix DEF Current
<1>3. Good(v)
  BY <1>1, AtPrefix DEF Good
<1> HIDE DEF v
<1>4. \A i \in 1..Len(values') : Good(values'[i])
  <2>1. /\ Len(values') = Len(values) + 1 /\ Len(values) \in Nat
        /\ values'[Len(values) + 1] = v
        /\ \A i \in 1..Len(values) : values'[i] = values[i]
    BY <1>1
  <2> SUFFICES ASSUME NEW i \in 1..(Len(values) + 1) PROVE Good(values'[i])
    BY <2>1
  <2>2. CASE i \in 1..Len(values)
    BY <2>1, <2>2 DEF PrefixesInForce
  <2>3. CASE i = Len(values) + 1
    BY <1>3, <2>1, <2>3
  <2> QED
    BY <2>1, <2>2, <2>3
<1> QED
  BY <1>1, <1>2, <1>4, AtPrefix, AdvancedPrefixes

LEMMA BlankPrefixes == ASSUME Inv, PrefixesInForce, ReadBlank PROVE PrefixesInForce'
<1>1. /\ content' = content /\ phase' = "reading" /\ phase = "reading"
      /\ stack' = NextLine(stack) /\ values' = values
      /\ Current.kind = "blank"
  BY DEF ReadBlank
<1>2. InForce(Top.file, Top.line + 1, Top.prefix)
  BY <1>1, AtPrefix, KeepsPrefix DEF Current
<1>3. \A i \in 1..Len(values') : Good(values'[i])
  BY <1>1 DEF PrefixesInForce
<1> QED
  BY <1>1, <1>2, <1>3, AtPrefix, AdvancedPrefixes

LEMMA SectionPrefixes == ASSUME Inv, PrefixesInForce, ReadSection PROVE PrefixesInForce'
<1> DEFINE s == [stack EXCEPT ![Depth].prefix = Current.prefix]
<1>1. /\ content' = content /\ phase' = "reading" /\ phase = "reading"
      /\ stack' = NextLine(s) /\ values' = values
      /\ Current.kind = "section" /\ ~AtEnd
  BY DEF ReadSection
<1>2. /\ stack \in Seq(Frame) /\ Depth \in Nat \ {0} /\ Depth = Len(stack)
      /\ Top = stack[Depth] /\ Top \in Frame /\ Top.line \in Nat \ {0}
      /\ \A i \in 1..(Depth - 1) : Good(stack[i]) /\ Waits(stack[i])
  BY <1>1, AtPrefix
<1>3. Current.prefix \in Sections
  BY <1>1, AtLine DEF Inv, Line
<1>4. s[Depth] = [stack[Depth] EXCEPT !.prefix = Current.prefix]
  BY <1>2
<1>5. /\ s[Depth].file = Top.file /\ s[Depth].line = Top.line /\ s[Depth].prefix = Current.prefix
      /\ s[Depth] \in Frame
  BY <1>2, <1>3, <1>4 DEF Frame
<1>6. s \in Seq(Frame) /\ Len(s) = Depth /\ s # <<>>
  <2>1. stack \in [1..Depth -> Frame]
    BY <1>2
  <2>2. s \in [1..Depth -> Frame]
    BY <1>2, <1>4, <1>5, <2>1
  <2> QED
    BY <1>2, <2>2
<1>7. \A i \in 1..(Depth - 1) : s[i] = stack[i]
  BY <1>2
<1>8. InForce(Top.file, Top.line + 1, Current.prefix)
  BY <1>1, <1>2, GivesPrefix DEF Current
<1> HIDE DEF s
<1>9. /\ \A i \in 1..(Len(s) - 1) : Good(s[i]) /\ Waits(s[i])
      /\ InForce(s[Len(s)].file, s[Len(s)].line + 1, s[Len(s)].prefix)
  BY <1>2, <1>5, <1>6, <1>7, <1>8
<1>10. \A i \in 1..Len(values') : Good(values'[i])
  BY <1>1 DEF PrefixesInForce
<1> QED
  BY <1>1, <1>6, <1>9, <1>10, AdvancedPrefixes

\* The activation below goes on after its #include line.
LEMMA LeavePrefixes == ASSUME Inv, PrefixesInForce, Leave PROVE PrefixesInForce'
<1>1. content' = content /\ values' = values /\ phase = "reading"
  BY DEF Leave
<1>2. CASE Depth = 1
  <2>1. phase' = "parsed" /\ stack' = <<>> /\ Depth' = 0
    BY <1>2 DEF Leave, Depth
  <2>2. \A i \in 1..Len(values') : Good(values[i])'
    BY <1>1, SameValues
  <2> QED
    BY <2>1, <2>2 DEF PrefixesInForce
<1>3. CASE Depth # 1
  <2> DEFINE s == Front(stack)
  <2>1. stack' = NextLine(s) /\ phase' = "reading"
    BY <1>1, <1>3 DEF Leave
  <2>2. /\ Depth \in Nat \ {0} /\ \A i \in 1..(Depth - 1) : Good(stack[i]) /\ Waits(stack[i])
    BY <1>1, AtPrefix
  <2>3. s \in Seq(Frame) /\ Len(s) = Depth - 1 /\ \A i \in 1..(Depth - 1) : s[i] = stack[i]
    BY <2>2, FrontFacts
  <2>4. s # <<>> /\ Depth - 1 \in 1..(Depth - 1)
    BY <1>3, <2>2, <2>3
  <2> HIDE DEF s
  <2>5. \A i \in 1..Len(s) : Good(s[i]) /\ Waits(s[i])
    BY <2>2, <2>3
  <2>6. Good(s[Len(s)]) /\ Waits(s[Len(s)]) /\ s[Len(s)] \in Frame
    BY <2>3, <2>4, <2>5
  <2>7. InForce(s[Len(s)].file, s[Len(s)].line + 1, s[Len(s)].prefix)
    <3>1. s[Len(s)].line \in Nat \ {0}
      BY <2>6 DEF Frame
    <3> QED
      BY <2>6, <3>1, KeepsPrefix DEF Good, Waits
  <2>8. \A i \in 1..(Len(s) - 1) : Good(s[i]) /\ Waits(s[i])
    BY <2>2, <2>3, <2>5
  <2>9. \A i \in 1..Len(values') : Good(values'[i])
    BY <1>1 DEF PrefixesInForce
  <2> QED
    BY <1>1, <2>1, <2>3, <2>4, <2>7, <2>8, <2>9, AdvancedPrefixes
<1> QED
  BY <1>2, <1>3

\* Steps that leave the values alone and take nothing but the last activation
\* away.
LEMMA SameOrLess ==
  ASSUME PrefixesInForce, content' = content, values' = values, phase' # "start",
         NEW n \in Nat, Depth' = n, \A i \in 1..n : i \in 1..Depth /\ stack'[i] = stack[i],
         phase' = "opened" => \A i \in 1..n : Waits(stack[i]),
         \A i \in 1..n : i < n => i < Depth
  PROVE  PrefixesInForce'
<1>1. \A i \in 1..n : Good(stack[i])'
  <2>1. \A i \in 1..n : Good(stack'[i])
    BY DEF PrefixesInForce
  <2> QED
    BY <2>1, GoodLater
<1>2. \A i \in 1..n : i < n \/ phase' = "opened" => Waits(stack[i])'
  BY DEF PrefixesInForce, Waits
<1>3. \A i \in 1..Len(values') : Good(values[i])'
  BY SameValues
<1> QED
  BY <1>1, <1>2, <1>3 DEF PrefixesInForce

LEMMA UnwindPrefixes == ASSUME Inv, PrefixesInForce, Unwind PROVE PrefixesInForce'
<1>1. content' = content /\ values' = values /\ phase' \in {"throwing", "failed"}
  BY DEF Unwind
<1>2. CASE Depth = 0
  <2>1. Depth' = 0
    BY <1>2 DEF Unwind, Depth
  <2> QED
    BY <1>1, <2>1, SameOrLess
<1>3. CASE Depth # 0
  <2>1. /\ Depth \in Nat \ {0} /\ Depth' = Depth - 1
        /\ \A i \in 1..(Depth - 1) : i \in 1..Depth /\ stack'[i] = stack[i]
    BY <1>3, FrontFacts DEF Unwind, Depth
  <2>2. \A i \in 1..(Depth - 1) : i < Depth - 1 => i < Depth
    BY <2>1
  <2> QED
    BY <1>1, <2>1, <2>2, SameOrLess
<1> QED
  BY <1>2, <1>3

\* A file begins without a prefix.
LEMMA EnterPrefixes == ASSUME Inv, PrefixesInForce, Enter PROVE PrefixesInForce'
<1> DEFINE path == links[opened.at]
           frame == [path |-> path, file |-> opened.file, line |-> 1, prefix |-> NoPrefix]
<1>1. content' = content /\ values' = values /\ phase = "opened" /\ Depth \in Nat /\ stack \in Seq(Frame)
  BY DEF Enter, Inv, TypeOK, Depth
<1>2. CASE path = Absent \/ path \in Paths
  <2>1. phase' = "throwing" /\ stack' = stack /\ Depth' = Depth
    BY <1>2 DEF Enter, Depth
  <2> QED
    BY <1>1, <2>1, SameOrLess
<1>3. CASE path # Absent /\ path \notin Paths
  <2>1. phase' = "reading" /\ stack' = Append(stack, frame)
    BY <1>3 DEF Enter
  <2>2. /\ Depth' = Depth + 1 /\ stack'[Depth + 1] = frame
        /\ \A i \in 1..Depth : stack'[i] = stack[i]
    BY <1>1, <2>1 DEF Depth
  <2>3. Good(frame)
    BY BeginsWithNone DEF Good
  <2> HIDE DEF frame
  <2>4. \A i \in 1..(Depth + 1) : i \in 1..Depth \/ i = Depth + 1
    BY <1>1
  <2>5. \A i \in 1..(Depth + 1) : Good(stack'[i])
    BY <2>2, <2>3, <2>4 DEF PrefixesInForce
  <2>6. \A i \in 1..(Depth + 1) : i < Depth + 1 => Waits(stack'[i])
    BY <1>1, <2>2, <2>4 DEF PrefixesInForce
  <2>7. \A i \in 1..(Depth + 1) : Good(stack[i])'
    BY <1>1, <2>5, GoodLater
  <2>8. \A i \in 1..(Depth + 1) : i < Depth + 1 => Waits(stack[i])'
    BY <1>1, <2>6 DEF Waits
  <2>9. \A i \in 1..Len(values') : Good(values[i])'
    BY <1>1, SameValues
  <2> QED
    BY <2>1, <2>2, <2>7, <2>8, <2>9 DEF PrefixesInForce
<1> QED
  BY <1>2, <1>3

LEMMA OtherPrefixes ==
  ASSUME Inv, PrefixesInForce, OpenRoot \/ ReadInclude \/ ReadBad \/ UNCHANGED <<content, phase, stack, values>>
  PROVE  PrefixesInForce'
<1>1. content' = content /\ values' = values /\ stack' = stack /\ Depth' = Depth /\ Depth \in Nat
  BY DEF OpenRoot, ReadInclude, ReadBad, Depth, Inv, TypeOK
<1>2. CASE UNCHANGED <<content, phase, stack, values>>
  <2>1. \A i \in 1..Depth : Good(stack[i])'
    <3>1. \A i \in 1..Depth : Good(stack'[i])
      BY <1>1 DEF PrefixesInForce
    <3> QED
      BY <1>1, <3>1, GoodLater
  <2>2. \A i \in 1..Depth : i < Depth \/ phase' = "opened" => Waits(stack[i])'
    BY <1>1, <1>2 DEF PrefixesInForce, Waits
  <2>3. \A i \in 1..Len(values') : Good(values[i])'
    BY <1>1, SameValues
  <2>4. phase' = "start" => stack' = <<>>
    BY <1>1, <1>2 DEF PrefixesInForce
  <2> QED
    BY <1>1, <2>1, <2>2, <2>3, <2>4 DEF PrefixesInForce
<1>3. CASE OpenRoot
  <2>1. Depth = 0 /\ phase' # "start"
    BY <1>3 DEF OpenRoot, Open, PrefixesInForce, Depth
  <2> QED
    BY <1>1, <2>1, SameOrLess
<1>4. CASE ReadBad
  <2>1. phase' = "throwing"
    BY <1>4 DEF ReadBad
  <2> QED
    BY <1>1, <2>1, SameOrLess
<1>5. CASE ReadInclude
  <2>1. phase' # "start" /\ phase = "reading" /\ Current.kind = "include"
    BY <1>5 DEF ReadInclude, Open
  <2>2. Waits(stack[Depth]) /\ \A i \in 1..(Depth - 1) : Waits(stack[i])
    BY <2>1, AtPrefix DEF Waits, Current
  <2>3. \A i \in 1..Depth : Waits(stack[i])
    BY <1>1, <2>2
  <2> QED
    BY <1>1, <2>1, <2>3, SameOrLess
<1> QED
  BY <1>2, <1>3, <1>4, <1>5

\* The prefix of every key is that of the last section before it in its own file
\* (lines 155 and 171-190), whatever files are included in between and however the
\* locations change.
THEOREM LocalPrefix == Spec => []PrefixIsLocal
<1>1. Init => PrefixesInForce
  BY DEF Init, PrefixesInForce, Depth
<1>2. Inv /\ PrefixesInForce /\ [Next]_vars => PrefixesInForce'
  <2> SUFFICES ASSUME Inv, PrefixesInForce, [Next]_vars PROVE PrefixesInForce'
    OBVIOUS
  <2>1. ASSUME NEW at \in mutable, NEW target \in Files \cup {Absent}, Relink(at, target)
        PROVE  PrefixesInForce'
    BY <2>1, OtherPrefixes DEF Relink
  <2>2. CASE UNCHANGED vars
    BY <2>2, OtherPrefixes DEF vars
  <2>3. CASE OpenRoot \/ ReadInclude \/ ReadBad
    BY <2>3, OtherPrefixes
  <2> QED
    BY <2>1, <2>2, <2>3, EnterPrefixes, PairPrefixes, SectionPrefixes, BlankPrefixes,
       LeavePrefixes, UnwindPrefixes DEF Next, Parser
<1>3. Inv /\ PrefixesInForce => PrefixIsLocal
  <2> SUFFICES ASSUME Inv, PrefixesInForce, NEW v \in ToSet(values)
               PROVE  InForce(v.file, v.line, v.prefix)
    BY DEF PrefixIsLocal, InForce
  <2>1. PICK i \in 1..Len(values) : v = values[i]
    BY DEF ToSet, Inv, TypeOK
  <2> QED
    BY <2>1 DEF PrefixesInForce, Good
<1> QED
  BY <1>1, <1>2, <1>3, InductiveInvariant, PTL DEF Spec

-------------------------------------------------------------------------------
(***************************************************************************)
(* What a run makes of files that nobody changes.  Three facts about every *)
(* state of such a run carry the rest:                                     *)
(*   - Chained: each file on the stack is the one that the #include line of*)
(*     the file below refers to, and the lowest is the root;               *)
(*   - Covered: the files that have been left, and the lines before the    *)
(*     current one of those on the stack, are without a fault, and they are*)
(*     where the values come from;                                         *)
(*   - Blamed: once an exception is thrown, the lines of the stack and     *)
(*     those of the message together lead to the line it was thrown for.   *)
(***************************************************************************)

\* A set of natural numbers has a least one.
LEMMA NatMin ==
  ASSUME NEW T, T \subseteq Nat, T # {}
  PROVE  \E x \in T : \A y \in T : x <= y
<1> DEFINE R == {ss \in Nat \X Nat : ss[1] < ss[2]}
<1>1. IsWellFoundedOn(R, Nat)
  BY NatLessThanWellFounded DEF OpToRel
<1> HIDE DEF R
<1>2. PICK x \in T : \A y \in T : ~(<<y, x>> \in R)
  BY <1>1, WFMin
<1>3. \A y \in T : ~(y < x)
  BY <1>2 DEF R
<1> QED BY <1>3

\* An #include line refers to a file, or to none.
LEMMA TargetType ==
  ASSUME TypeOK, NEW f \in Files, NEW n \in 1..Len(content[f])
  PROVE  Target(f, n) \in Files \cup {Absent}
<1>1. content[f] \in Seq(Line) /\ content[f][n] \in Line
  BY DEF TypeOK
<1>2. CASE content[f][n].kind = "include"
  <2>1. content[f][n].name \in Names
    BY <1>1, <1>2 DEF Line
  <2>2. <<Dir[f], content[f][n].name>> \in Locations
    BY <2>1, FilesAssumption DEF Locations
  <2>3. links[<<Dir[f], content[f][n].name>>] \in Files \cup {Absent}
    BY <2>2 DEF TypeOK
  <2> QED
    BY <1>2, <2>3 DEF Target
<1> QED
  BY <1>2 DEF Target

LEMMA IncludedFiles ==
  ASSUME TypeOK, NEW f \in Files
  PROVE  Included(f) \subseteq Files
BY TargetType DEF Included

\* Closure is a closed set of files, and the least one.
LEMMA ClosureClosed ==
  ASSUME TypeOK, NEW start \in SUBSET Files
  PROVE  /\ Closure(start) \subseteq Files
         /\ start \subseteq Closure(start)
         /\ \A f \in Closure(start) : Included(f) \subseteq Closure(start)
<1> DEFINE closed == {S \in SUBSET Files : start \subseteq S /\ \A f \in S : Included(f) \subseteq S}
<1>1. Closure(start) = {f \in Files : \A S \in closed : f \in S}
  BY DEF Closure
<1>2. start \subseteq Closure(start)
  BY <1>1
<1>3. ASSUME NEW f \in Closure(start), NEW g \in Included(f)
      PROVE  g \in Closure(start)
  <2>1. f \in Files /\ g \in Files
    BY <1>1, IncludedFiles
  <2>2. ASSUME NEW S \in closed PROVE g \in S
    BY <1>1
  <2> QED
    BY <1>1, <2>1, <2>2
<1> QED
  BY <1>1, <1>2, <1>3

LEMMA ClosureLeast ==
  ASSUME NEW start \in SUBSET Files, NEW S \in SUBSET Files,
         start \subseteq S, \A f \in S : Included(f) \subseteq S
  PROVE  Closure(start) \subseteq S
BY DEF Closure

LEMMA NeededClosed ==
  ASSUME TypeOK
  PROVE  /\ Needed \subseteq Files
         /\ links[Root] # Absent => links[Root] \in Needed
         /\ \A f \in Needed : Included(f) \subseteq Needed
<1>1. links[Root] \in Files \cup {Absent}
  BY FilesAssumption DEF TypeOK
<1>2. CASE links[Root] = Absent
  BY <1>2 DEF Needed
<1>3. CASE links[Root] # Absent
  <2>1. {links[Root]} \in SUBSET Files
    BY <1>1, <1>3
  <2>2. Needed = Closure({links[Root]})
    BY <1>3 DEF Needed
  <2> QED
    BY <2>1, <2>2, ClosureClosed
<1> QED
  BY <1>2, <1>3

-------------------------------------------------------------------------------
\* What only depends on the files stays as it is.
FilesStay == content' = content /\ links' = links

LEMMA TargetLater ==
  ASSUME FilesStay
  PROVE  /\ \A f, n : Target(f, n)' = Target(f, n)
         /\ \A f, n : Faulty(f, n)' = Faulty(f, n)
<1>1. ASSUME NEW f, NEW n PROVE Target(f, n)' = Target(f, n)
  BY DEF FilesStay, Target
<1>2. ASSUME NEW f, NEW n PROVE Faulty(f, n)' = Faulty(f, n)
  BY <1>1 DEF FilesStay, Faulty
<1> QED
  BY <1>1, <1>2

LEMMA ClosureLater ==
  ASSUME FilesStay
  PROVE  /\ \A f : Included(f)' = Included(f)
         /\ \A S : Closure(S)' = Closure(S)
         /\ Needed' = Needed
<1>1. \A f : Included(f)' = Included(f)
  <2> SUFFICES ASSUME NEW f PROVE Included(f)' = Included(f)
    OBVIOUS
  <2>1. \A n : Target(f, n)' = Target(f, n)
    BY TargetLater
  <2> QED
    BY <2>1 DEF Included, FilesStay
<1>2. \A S : Closure(S)' = Closure(S)
  <2> SUFFICES ASSUME NEW S PROVE Closure(S)' = Closure(S)
    OBVIOUS
  <2> QED
    BY <1>1 DEF Closure
<1>3. Needed' = Needed
  BY <1>2 DEF Needed, FilesStay
<1> QED
  BY <1>1, <1>2, <1>3

-------------------------------------------------------------------------------
\* From a file of a closed set, #include lines lead to files of that set only.
LEMMA PathStays ==
  ASSUME NEW n \in Nat, NEW a \in 1..n, NEW files, NEW lines, NEW S,
         files[a] \in S, \A f \in S : Included(f) \subseteq S,
         \A i \in 1..n : files[i] # Absent /\ lines[i] \in 1..Len(content[files[i]]),
         \A i \in 1..(n - 1) : Target(files[i], lines[i]) = files[i + 1]
  PROVE  \A i \in a..n : files[i] \in S
<1> SUFFICES ASSUME \E i \in a..n : files[i] \notin S PROVE FALSE
  OBVIOUS
<1> DEFINE T == {i \in a..n : files[i] \notin S}
<1>1. \A i \in a..n : i \in Nat
  OBVIOUS
<1>2. PICK x \in T : \A y \in T : x <= y
  <2>1. T \subseteq Nat /\ T # {}
    BY <1>1
  <2> HIDE DEF T
  <2> QED
    BY <2>1, NatMin
<1>3. x # a /\ x \in Nat /\ x - 1 \in a..n /\ x - 1 \in 1..(n - 1) /\ x - 1 \in 1..n /\ x \in 1..n /\ (x - 1) + 1 = x
  OBVIOUS
<1>4. files[x - 1] \in S
  BY <1>2, <1>3
<1>5. Target(files[x - 1], lines[x - 1]) = files[x] /\ files[x] # Absent
  BY <1>3
<1>6. files[x] \in Included(files[x - 1])
  BY <1>3, <1>5 DEF Included
<1> QED
  BY <1>4, <1>6

\* Where a message leads, there is a reason not to parse the files.
LEMMA LeadsBlames ==
  ASSUME TypeOK, links[Root] # Absent, NEW lines, Len(lines) \in Nat,
         NEW files \in [1..Len(lines) -> Files], Leads(files, lines)
  PROVE  ~Clean \/ ~Acyclic
<1> DEFINE n == Len(lines)
<1>1. /\ n \in Nat /\ 1 \in 1..n /\ n \in 1..n /\ files[1] = links[Root]
      /\ \A i \in 1..n : files[i] \in Files /\ files[i] # Absent /\ lines[i] \in 1..Len(content[files[i]])
      /\ \A i \in 1..(n - 1) : Target(files[i], lines[i]) = files[i + 1]
      /\ Faulty(files[n], lines[n]) \/ \E i \in 1..n : Target(files[n], lines[n]) = files[i]
  BY FilesAssumption DEF Leads
<1> HIDE DEF n
<1>2. \A i \in 1..n : files[i] \in Needed
  <2>1. links[Root] \in Needed /\ \A f \in Needed : Included(f) \subseteq Needed
    BY NeededClosed
  <2> QED
    BY <1>1, <2>1, PathStays
<1>3. CASE Faulty(files[n], lines[n])
  BY <1>1, <1>2, <1>3 DEF Clean
<1>4. ASSUME NEW i \in 1..n, Target(files[n], lines[n]) = files[i]
      PROVE  ~Acyclic
  <2> DEFINE C == Closure(Included(files[i]))
  <2>1. Included(files[i]) \in SUBSET Files
    BY <1>1, IncludedFiles
  <2>2. /\ Included(files[i]) \subseteq C /\ C \subseteq Files
        /\ \A f \in C : Included(f) \subseteq C
    BY <2>1, ClosureClosed
  <2>3. files[i] \in Included(files[n])
    BY <1>1, <1>4 DEF Included
  <2> HIDE DEF C
  <2>4. CASE i = n
    BY <1>2, <2>2, <2>3, <2>4 DEF Acyclic, C
  <2>5. CASE i # n
    <3>1. i + 1 \in 1..n /\ i \in 1..(n - 1) /\ n \in (i + 1)..n
      BY <1>1, <2>5
    <3>2. files[i + 1] \in Included(files[i])
      BY <1>1, <3>1 DEF Included
    <3>3. \A j \in (i + 1)..n : files[j] \in C
      BY <1>1, <2>2, <3>1, <3>2, PathStays
    <3>4. files[i] \in C
      BY <2>2, <2>3, <3>1, <3>3
    <3> QED
      BY <1>2, <3>4 DEF Acyclic, C
  <2> QED
    BY <2>4, <2>5
<1> QED
  BY <1>1, <1>3, <1>4

-------------------------------------------------------------------------------
\* The files of a stack, and the line of each that includes the next.
Chained(s) ==
  /\ s # <<>> => s[1].file = links[Root]
  /\ \A i \in 1..Len(s) : s[i].path = s[i].file
  /\ \A i \in 1..(Len(s) - 1) : /\ s[i].line \in 1..Len(content[s[i].file])
                                /\ Target(s[i].file, s[i].line) = s[i + 1].file

\* The file being opened is the root, or what the current line includes.
Opens(s, file) ==
  IF s = <<>> THEN file = links[Root]
  ELSE /\ s[Len(s)].line \in 1..Len(content[s[Len(s)].file])
       /\ Target(s[Len(s)].file, s[Len(s)].line) = file

Chain ==
  /\ Chained(stack)
  /\ phase = "start" => stack = <<>>
  /\ phase = "opened" => opened.file = links[opened.at] /\ Opens(stack, opened.file)
  /\ phase \notin {"throwing", "failed"} => trace = <<>>
  /\ phase \in {"parsed", "failed"} => stack = <<>>

\* The lines of a stack and those of a message, outermost first.
Lines(s, tr) == [i \in 1..(Len(s) + Len(tr)) |-> IF i <= Len(s) THEN s[i].line ELSE tr[i - Len(s)]]

Blamed(s, tr) ==
  \E files \in [1..(Len(s) + Len(tr)) -> Files] : Leads(files, Lines(s, tr))

Blame ==
  phase \in {"throwing", "failed"} => links[Root] = Absent \/ Blamed(stack, trace)

LEMMA ChainedLater ==
  ASSUME FilesStay
  PROVE  /\ Chained(stack') => Chained(stack)'
         /\ Opens(stack', opened'.file) => Opens(stack, opened.file)'
         /\ Blamed(stack', trace') => Blamed(stack, trace)'
<1>1. /\ \A f, n : Target(f, n)' = Target(f, n)
      /\ \A f, n : Faulty(f, n)' = Faulty(f, n)
  BY TargetLater
<1>2. Chained(stack') => Chained(stack)'
  BY <1>1 DEF Chained, FilesStay
<1>3. Opens(stack', opened'.file) => Opens(stack, opened.file)'
  BY <1>1 DEF Opens, FilesStay
<1>4. Lines(stack, trace)' = Lines(stack', trace')
  BY DEF Lines
<1>5. ASSUME NEW files, Leads(files, Lines(stack', trace'))
      PROVE  Leads(files, Lines(stack, trace))'
  BY <1>1, <1>4, <1>5 DEF Leads, FilesStay
<1>6. Blamed(stack', trace') => Blamed(stack, trace)'
  BY <1>5 DEF Blamed
<1> QED
  BY <1>2, <1>3, <1>6

\* Two stacks of the same files, at the same lines but for the last.
LEMMA ChainedSame ==
  ASSUME NEW s \in Seq(Frame), NEW t \in Seq(Frame), Len(t) = Len(s), Chained(s),
         \A i \in 1..Len(s) : t[i].file = s[i].file /\ t[i].path = s[i].path,
         \A i \in 1..(Len(s) - 1) : t[i].line = s[i].line
  PROVE  Chained(t)
<1> DEFINE n == Len(s)
<1>1. n \in Nat /\ \A i \in 1..(n - 1) : i \in 1..n /\ i + 1 \in 1..n
  OBVIOUS
<1>2. t # <<>> => s # <<>> /\ 1 \in 1..n
  OBVIOUS
<1> HIDE DEF n
<1> QED
  BY <1>1, <1>2 DEF Chained, n

\* The last activation goes on to its next line.
LEMMA NextLineSame ==
  ASSUME NEW s \in Seq(Frame), s # <<>>
  PROVE  /\ NextLine(s) \in Seq(Frame) /\ Len(NextLine(s)) = Len(s) /\ NextLine(s) # <<>>
         /\ \A i \in 1..Len(s) : NextLine(s)[i].file = s[i].file /\ NextLine(s)[i].path = s[i].path
         /\ \A i \in 1..(Len(s) - 1) : NextLine(s)[i].line = s[i].line
         /\ NextLine(s)[Len(s)].line = s[Len(s)].line + 1
<1> DEFINE n == Len(s)
           t == [s EXCEPT ![n].line = @ + 1]
<1>1. n \in Nat \ {0} /\ s[n] \in Frame /\ s \in [1..n -> Frame]
  OBVIOUS
<1>2. t[n] = [s[n] EXCEPT !.line = @ + 1]
  BY <1>1
<1>3. t[n].file = s[n].file /\ t[n].line = s[n].line + 1 /\ t[n].path = s[n].path
  BY <1>1, <1>2 DEF Frame
<1>4. \A i \in 1..n : i # n => t[i] = s[i]
  BY <1>1
<1>5. NextLine(s) = t
  BY DEF NextLine
<1> HIDE DEF t, n
<1>6. \A i \in 1..n : t[i].file = s[i].file /\ t[i].path = s[i].path
  BY <1>3, <1>4
<1>7. \A i \in 1..(n - 1) : i \in 1..n /\ i # n
  BY <1>1
<1> QED
  BY <1>3, <1>4, <1>5, <1>6, <1>7, NextLineType DEF n

LEMMA ChainedNext ==
  ASSUME NEW s \in Seq(Frame), s # <<>>, Chained(s)
  PROVE  Chained(NextLine(s))
BY NextLineSame, ChainedSame

\* The section of the last activation changes.
LEMMA SectionSame ==
  ASSUME NEW s \in Seq(Frame), s # <<>>, NEW p \in Sections
  PROVE  LET t == [s EXCEPT ![Len(s)].prefix = p]
         IN  /\ t \in Seq(Frame) /\ Len(t) = Len(s) /\ t # <<>>
             /\ \A i \in 1..Len(s) : /\ t[i].file = s[i].file /\ t[i].path = s[i].path
                                     /\ t[i].line = s[i].line
<1> DEFINE n == Len(s)
           t == [s EXCEPT ![n].prefix = p]
<1>1. n \in Nat \ {0} /\ s[n] \in Frame /\ s \in [1..n -> Frame]
  OBVIOUS
<1>2. t[n] = [s[n] EXCEPT !.prefix = p]
  BY <1>1
<1>3. t[n] \in Frame /\ t[n].file = s[n].file /\ t[n].line = s[n].line /\ t[n].path = s[n].path
  BY <1>1, <1>2 DEF Frame
<1>4. \A i \in 1..n : i # n => t[i] = s[i]
  BY <1>1
<1>5. t \in [1..n -> Frame]
  BY <1>1, <1>3
<1>6. t \in Seq(Frame) /\ Len(t) = n /\ t # <<>>
  BY <1>1, <1>5
<1> HIDE DEF t
<1>7. \A i \in 1..n : t[i].file = s[i].file /\ t[i].path = s[i].path /\ t[i].line = s[i].line
  BY <1>3, <1>4
<1> QED
  BY <1>6, <1>7 DEF t

LEMMA ChainedFront ==
  ASSUME NEW s \in Seq(Frame), s # <<>>, Chained(s)
  PROVE  /\ Chained(Front(s))
         /\ Len(s) > 1 => LET k == Len(s) - 1
                          IN  /\ s[k].line \in 1..Len(content[s[k].file])
                              /\ Target(s[k].file, s[k].line) = s[Len(s)].file
<1> DEFINE n == Len(s)
<1>1. /\ n \in Nat \ {0} /\ Front(s) \in Seq(Frame) /\ Len(Front(s)) = n - 1
      /\ \A i \in 1..(n - 1) : Front(s)[i] = s[i]
  BY LastAndFront
<1>2. /\ \A i \in 1..(n - 1) : i \in 1..n
      /\ \A i \in 1..((n - 1) - 1) : i \in 1..(n - 1) /\ i + 1 \in 1..(n - 1)
      /\ n > 1 => n - 1 \in 1..(n - 1) /\ (n - 1) + 1 = n
  BY <1>1
<1>3. Front(s) # <<>> => 1 \in 1..(n - 1)
  BY <1>1
<1> HIDE DEF n
<1>4. Chained(Front(s))
  BY <1>1, <1>2, <1>3 DEF Chained, n
<1> QED
  BY <1>2, <1>4 DEF Chained, n

LEMMA ChainedAppend ==
  ASSUME NEW s \in Seq(Frame), NEW frame \in Frame, Chained(s),
         frame.path = frame.file, Opens(s, frame.file)
  PROVE  Chained(Append(s, frame))
<1> DEFINE n == Len(s)
           t == Append(s, frame)
<1>1. n \in Nat /\ Len(t) = n + 1 /\ t[n + 1] = frame /\ \A i \in 1..n : t[i] = s[i]
  OBVIOUS
<1>2. (s = <<>> => n = 0) /\ (s # <<>> => 1 \in 1..n)
  OBVIOUS
<1>3. \A i \in 1..(n + 1) : i \in 1..n \/ i = n + 1
  BY <1>1
<1>4. \A i \in 1..((n + 1) - 1) : i = n \/ (i \in 1..(n - 1) /\ i + 1 \in 1..n)
  BY <1>1
<1> HIDE DEF n, t
<1>5. t[1].file = links[Root]
  <2>1. CASE s = <<>>
    BY <1>1, <1>2, <2>1 DEF Opens
  <2>2. CASE s # <<>>
    BY <1>1, <1>2, <2>2 DEF Chained
  <2> QED
    BY <2>1, <2>2
<1>6. \A i \in 1..(n + 1) : t[i].path = t[i].file
  BY <1>1, <1>3 DEF Chained, n
<1>7. ASSUME NEW i \in 1..((n + 1) - 1)
      PROVE  t[i].line \in 1..Len(content[t[i].file]) /\ Target(t[i].file, t[i].line) = t[i + 1].file
  <2>1. i \in 1..n
    BY <1>1
  <2>2. CASE i = n
    <3>1. s # <<>>
      BY <1>2, <2>1, <2>2, <1>1
    <3> QED
      BY <1>1, <2>1, <2>2, <3>1 DEF Opens, n
  <2>3. CASE i \in 1..(n - 1) /\ i + 1 \in 1..n
    BY <1>1, <2>1, <2>3 DEF Chained, n
  <2> QED
    BY <1>4, <2>2, <2>3
<1> QED
  BY <1>1, <1>5, <1>6, <1>7 DEF Chained, t

-------------------------------------------------------------------------------
\* A line is handed from the stack to the message.
LEMMA LinesUnwind ==
  ASSUME NEW s \in Seq(Frame), s # <<>>, NEW tr \in Seq(Nat \ {0}), Blamed(s, tr)
  PROVE  Blamed(Front(s), <<Last(s).line>> \o tr)
<1> DEFINE n == Len(s)
           m == Len(tr)
           f == Front(s)
           u == <<Last(s).line>> \o tr
<1>1. /\ n \in Nat \ {0} /\ Len(f) = n - 1 /\ Last(s) = s[n] /\ Last(s) \in Frame
      /\ \A i \in 1..(n - 1) : f[i] = s[i]
  BY LastAndFront
<1>2. m \in Nat /\ Len(u) = m + 1 /\ u[1] = s[n].line /\ \A i \in 1..m : u[i + 1] = tr[i]
  BY <1>1 DEF Frame
<1> HIDE DEF n, m, f, u
<1>3. Len(f) + Len(u) = n + m
  BY <1>1, <1>2
<1>4. ASSUME NEW i \in 1..(n + m)
      PROVE  (IF i <= n - 1 THEN f[i].line ELSE u[i - (n - 1)])
                = (IF i <= n THEN s[i].line ELSE tr[i - n])
  <2>1. CASE i <= n - 1
    <3>1. i \in 1..(n - 1) /\ i <= n
      BY <1>1, <2>1
    <3> QED
      BY <1>1, <2>1, <3>1
  <2>2. CASE i = n
    <3>1. ~(i <= n - 1) /\ i - (n - 1) = 1 /\ i <= n
      BY <1>1, <2>2
    <3> QED
      BY <1>2, <2>2, <3>1
  <2>3. CASE i > n
    <3>1. ~(i <= n - 1) /\ ~(i <= n) /\ i - n \in 1..m /\ i - (n - 1) = (i - n) + 1
      BY <1>1, <1>2, <2>3
    <3> QED
      BY <1>2, <3>1
  <2> QED
    BY <1>1, <1>2, <2>1, <2>2, <2>3
<1>5. Lines(f, u) = Lines(s, tr)
  BY <1>1, <1>3, <1>4 DEF Lines, n, m
<1> QED
  BY <1>3, <1>5 DEF Blamed, f, u, n, m

\* When all of it has been handed over, the lines are those of the message.
LEMMA LinesOfMessage ==
  ASSUME NEW tr \in Seq(Nat \ {0}), Blamed(<<>>, tr)
  PROVE  \E files \in [1..Len(tr) -> Files] : Leads(files, tr)
<1> DEFINE m == Len(tr)
<1>1. m \in Nat /\ Len(<<>>) = 0 /\ 0 + m = m
  OBVIOUS
<1>2. tr = [i \in 1..m |-> tr[i]]
  OBVIOUS
<1>3. \A i \in 1..m : ~(i <= 0) /\ i - 0 = i
  BY <1>1
<1>4. Lines(<<>>, tr) = [i \in 1..m |-> tr[i]]
  BY <1>1, <1>3 DEF Lines
<1> QED
  BY <1>1, <1>2, <1>4 DEF Blamed

\* What is thrown at a line of the innermost activation.
LEMMA Thrown ==
  ASSUME NEW s \in Seq(Frame), s # <<>>, Chained(s), NEW top, top = s[Len(s)],
         top.line \in 1..Len(content[top.file]),
         Faulty(top.file, top.line) \/ \E i \in 1..Len(s) : Target(top.file, top.line) = s[i].file
  PROVE  Blamed(s, <<>>)
<1> DEFINE n == Len(s)
           files == [i \in 1..n |-> s[i].file]
           L == Lines(s, <<>>)
<1>1. n \in Nat \ {0} /\ Len(<<>>) = 0 /\ n + 0 = n /\ n \in 1..n /\ 1 \in 1..n
  OBVIOUS
<1>2. \A i \in 1..n : s[i].line \in Nat /\ s[i].file \in Files
  <2>1. \A i \in 1..n : s[i] \in Frame
    OBVIOUS
  <2> QED
    BY <2>1 DEF Frame
<1> HIDE DEF n
<1>3. L = [i \in 1..n |-> s[i].line] /\ Len(L) = n
  <2>1. \A i \in 1..n : i <= n
    BY <1>1
  <2>2. L = [i \in 1..n |-> s[i].line]
    BY <1>1, <2>1 DEF Lines, n
  <2>3. [i \in 1..n |-> s[i].line] \in [1..n -> Nat]
    BY <1>2
  <2> QED
    BY <1>1, <2>2, <2>3
<1>4. files \in [1..n -> Files]
  BY <1>2
<1>5. \A i \in 1..n : files[i] = s[i].file /\ L[i] = s[i].line
  BY <1>3
<1>6. \A i \in 1..(n - 1) : i \in 1..n /\ i + 1 \in 1..n
  BY <1>1
<1>7. \A i \in 1..n : i = n \/ i \in 1..(n - 1)
  BY <1>1
<1> HIDE DEF files, L
<1>8. files[1] = links[Root]
  BY <1>1, <1>5 DEF Chained
<1>9. \A i \in 1..n : L[i] \in 1..Len(content[files[i]])
  <2>1. \A i \in 1..(n - 1) : s[i].line \in 1..Len(content[s[i].file])
    BY DEF Chained, n
  <2>2. s[n].line \in 1..Len(content[s[n].file])
    BY DEF n
  <2> HIDE DEF n
  <2>3. \A i \in 1..n : s[i].line \in 1..Len(content[s[i].file])
    BY <1>7, <2>1, <2>2, Zenon
  <2> QED
    BY <1>5, <2>3
<1>10. \A i \in 1..(n - 1) : Target(files[i], L[i]) = files[i + 1]
  BY <1>5, <1>6 DEF Chained, n
<1>11. Faulty(files[n], L[n]) \/ \E i \in 1..n : Target(files[n], L[n]) = files[i]
  BY <1>1, <1>5 DEF n
<1>12. Leads(files, L)
  <2>1. Len(L) = n /\ n > 0
    BY <1>1, <1>3
  <2> QED
    BY <1>8, <1>9, <1>10, <1>11, <2>1, Zenon DEF Leads
<1> QED
  BY <1>1, <1>4, <1>12 DEF Blamed, n, L

-------------------------------------------------------------------------------
\* What the two are to show of the next state, in terms of this state's files.
LEMMA MessageLater ==
  ASSUME FilesStay, phase' # "start", Chained(stack'),
         phase' = "opened" => opened'.file = links[opened'.at] /\ Opens(stack', opened'.file),
         phase' \notin {"throwing", "failed"} => trace' = <<>>,
         phase' \in {"parsed", "failed"} => stack' = <<>>,
         phase' \in {"throwing", "failed"} => links[Root] = Absent \/ Blamed(stack', trace')
  PROVE  Chain' /\ Blame'
<1>1. Chained(stack)' /\ (phase' = "opened" => Opens(stack, opened.file)')
      /\ (Blamed(stack', trace') => Blamed(stack, trace)')
  BY ChainedLater
<1>2. Chain'
  BY <1>1 DEF Chain, FilesStay
<1>3. Blame'
  BY <1>1 DEF Blame, FilesStay
<1> QED
  BY <1>2, <1>3

Settled == Inv /\ Chain /\ Blame

LEMMA OpenRootMessage == ASSUME Settled, FilesStay, OpenRoot PROVE Chain' /\ Blame'
<1>1. /\ stack' = <<>> /\ stack = <<>> /\ trace' = <<>> /\ phase' \in {"failed", "opened"}
      /\ opened'.file = links[Root] /\ opened'.at = Root
      /\ phase' = "failed" => links[Root] = Absent
      /\ Chained(stack')
  BY DEF Settled, Chain, OpenRoot, Open
<1>2. Opens(stack', opened'.file)
  BY <1>1 DEF Opens
<1> QED
  BY <1>1, <1>2, MessageLater

\* The line that is read, on a stack that is chained.
LEMMA AtChain ==
  ASSUME Settled, phase = "reading"
  PROVE  /\ stack \in Seq(Frame) /\ stack # <<>> /\ Depth = Len(stack)
         /\ Top = stack[Len(stack)] /\ Top \in Frame /\ Top.path = Top.file
         /\ Top.line \in Nat \ {0} /\ content[Top.file] \in Seq(Line)
         /\ ~AtEnd => Top.line \in 1..Len(content[Top.file])
         /\ Chained(stack) /\ trace = <<>>
<1>1. /\ stack \in Seq(Frame) /\ stack # <<>> /\ Depth = Len(stack) /\ Depth \in Nat \ {0}
      /\ Top = stack[Len(stack)] /\ Top \in Frame
  BY AtLine DEF Settled, Inv, Depth
<1>2. Top.line \in Nat \ {0} /\ content[Top.file] \in Seq(Line)
  BY <1>1 DEF Settled, Inv, TypeOK, Frame
<1>3. ~AtEnd => Top.line \in 1..Len(content[Top.file])
  BY <1>2 DEF AtEnd
<1>4. Chained(stack) /\ trace = <<>>
  BY DEF Settled, Chain
<1>5. Top.path = Top.file
  BY <1>1, <1>4 DEF Chained
<1> QED
  BY <1>1, <1>2, <1>3, <1>4, <1>5

LEMMA ReadMessage ==
  ASSUME Settled, FilesStay, ReadPair \/ ReadSection \/ ReadBlank
  PROVE  Chain' /\ Blame'
<1>1. phase = "reading" /\ phase' = "reading" /\ trace' = trace
  BY DEF ReadPair, ReadSection, ReadBlank
<1>2. /\ stack \in Seq(Frame) /\ stack # <<>> /\ Depth = Len(stack)
      /\ Chained(stack) /\ trace = <<>>
  BY <1>1, AtChain
<1>3. Chained(stack')
  <2>1. CASE ReadPair \/ ReadBlank
    BY <1>2, <2>1, ChainedNext DEF ReadPair, ReadBlank
  <2>2. CASE ReadSection
    <3> DEFINE t == [stack EXCEPT ![Len(stack)].prefix = Current.prefix]
    <3>1. Current.prefix \in Sections
      BY <2>2, AtLine DEF Settled, Inv, ReadSection, Line
    <3>2. /\ t \in Seq(Frame) /\ Len(t) = Len(stack) /\ t # <<>>
          /\ \A i \in 1..Len(stack) : /\ t[i].file = stack[i].file /\ t[i].path = stack[i].path
                                      /\ t[i].line = stack[i].line
      BY <1>2, <3>1, SectionSame
    <3>3. stack' = NextLine(t)
      BY <1>2, <2>2 DEF ReadSection
    <3> HIDE DEF t
    <3>4. \A i \in 1..(Len(stack) - 1) : i \in 1..Len(stack)
      BY <1>2
    <3>5. Chained(t)
      BY <1>2, <3>2, <3>4, ChainedSame
    <3> QED
      BY <3>2, <3>3, <3>5, ChainedNext
  <2> QED
    BY <2>1, <2>2
<1> QED
  BY <1>1, <1>2, <1>3, MessageLater

LEMMA ReadBadMessage == ASSUME Settled, FilesStay, ReadBad PROVE Chain' /\ Blame'
<1>1. /\ phase = "reading" /\ phase' = "throwing" /\ trace' = trace /\ stack' = stack
      /\ Current.kind = "bad" /\ ~AtEnd
  BY DEF ReadBad
<1>2. Faulty(Top.file, Top.line)
  BY <1>1 DEF Faulty, Current
<1>3. Blamed(stack, <<>>)
  BY <1>1, <1>2, AtChain, Thrown
<1> QED
  BY <1>1, <1>3, AtChain, MessageLater

LEMMA ReadIncludeMessage == ASSUME Settled, FilesStay, ReadInclude PROVE Chain' /\ Blame'
<1> DEFINE at == <<Dir[Top.path], Current.name>>
<1>1. /\ phase = "reading" /\ phase' \in {"throwing", "opened"} /\ trace' = trace /\ stack' = stack
      /\ Current.kind = "include" /\ ~AtEnd
      /\ opened' = [at |-> at, file |-> links[at]]
      /\ phase' = "throwing" => links[at] = Absent
  BY DEF ReadInclude, Open
<1>2. Target(Top.file, Top.line) = links[at]
  BY <1>1, AtChain DEF Target, Current
<1>3. CASE phase' = "throwing"
  <2>1. Faulty(Top.file, Top.line)
    BY <1>1, <1>2, <1>3 DEF Faulty, Current
  <2>2. Blamed(stack, <<>>)
    BY <1>1, <2>1, AtChain, Thrown
  <2> QED
    BY <1>1, <1>3, <2>2, AtChain, MessageLater
<1>4. CASE phase' = "opened"
  <2>1. Opens(stack', opened'.file)
    BY <1>1, <1>2, AtChain DEF Opens
  <2>2. opened'.file = links[opened'.at]
    BY <1>1
  <2> QED
    BY <1>1, <1>4, <2>1, <2>2, AtChain, MessageLater
<1> QED
  BY <1>1, <1>3, <1>4

LEMMA EnterMessage == ASSUME Settled, FilesStay, Enter PROVE Chain' /\ Blame'
<1> DEFINE path == links[opened.at]
           frame == [path |-> path, file |-> opened.file, line |-> 1, prefix |-> NoPrefix]
<1>1. /\ phase = "opened" /\ opened.file \in Files /\ path = opened.file
      /\ path # Absent /\ Opens(stack, path) /\ trace' = <<>> /\ trace = <<>>
      /\ Chained(stack) /\ stack \in Seq(Frame)
  BY FilesAssumption DEF Enter, Settled, Chain, Inv, TypeOK
<1>2. CASE path \in Paths
  <2>1. phase' = "throwing" /\ stack' = stack
    BY <1>2 DEF Enter
  <2>2. PICK i \in 1..Len(stack) : stack[i].path = path
    BY <1>2 DEF Paths, Depth
  <2>3. stack # <<>> /\ stack[i].file = path
    BY <1>1, <2>2 DEF Chained
  <2>4. Blamed(stack, <<>>)
    BY <1>1, <2>2, <2>3, Thrown DEF Opens
  <2> QED
    BY <1>1, <2>1, <2>4, MessageLater
<1>3. CASE path \notin Paths
  <2>1. phase' = "reading" /\ stack' = Append(stack, frame)
    BY <1>1, <1>3 DEF Enter
  <2>2. frame \in Frame /\ frame.path = frame.file /\ frame.file = path
    BY <1>1 DEF Frame
  <2> HIDE DEF frame
  <2>3. Chained(stack')
    BY <1>1, <2>1, <2>2, ChainedAppend
  <2> QED
    BY <1>1, <2>1, <2>3, MessageLater
<1> QED
  BY <1>2, <1>3

LEMMA LeaveMessage == ASSUME Settled, FilesStay, Leave PROVE Chain' /\ Blame'
<1>1. phase = "reading" /\ trace' = trace
  BY DEF Leave
<1>2. /\ stack \in Seq(Frame) /\ stack # <<>> /\ Depth = Len(stack)
      /\ Chained(stack) /\ trace = <<>>
  BY <1>1, AtChain
<1>3. CASE Depth = 1
  <2>1. phase' = "parsed" /\ stack' = <<>>
    BY <1>3 DEF Leave
  <2>2. Chained(<<>>)
    BY DEF Chained
  <2> QED
    BY <1>1, <1>2, <2>1, <2>2, MessageLater
<1>4. CASE Depth # 1
  <2>1. phase' = "reading" /\ stack' = NextLine(Front(stack))
    BY <1>1, <1>4 DEF Leave
  <2>2. Front(stack) \in Seq(Frame) /\ Front(stack) # <<>> /\ Chained(Front(stack))
    BY <1>2, <1>4, LastAndFront, ChainedFront
  <2>3. Chained(stack')
    BY <2>1, <2>2, ChainedNext
  <2> QED
    BY <1>1, <1>2, <2>1, <2>3, MessageLater
<1> QED
  BY <1>3, <1>4

LEMMA UnwindMessage == ASSUME Settled, FilesStay, Unwind PROVE Chain' /\ Blame'
<1>1. /\ phase = "throwing" /\ Chained(stack) /\ stack \in Seq(Frame) /\ Depth = Len(stack)
      /\ trace \in Seq(Nat \ {0})
      /\ links[Root] = Absent \/ Blamed(stack, trace)
  BY DEF Unwind, Settled, Chain, Blame, Inv, TypeOK, Depth
<1>2. CASE Depth = 0
  <2>1. phase' = "failed" /\ stack' = stack /\ trace' = trace
    BY <1>2 DEF Unwind
  <2>2. stack = <<>>
    BY <1>1, <1>2, EmptySeq
  <2> QED
    BY <1>1, <2>1, <2>2, MessageLater
<1>3. CASE Depth # 0
  <2>1. /\ phase' = "throwing" /\ stack' = Front(stack) /\ trace' = <<Last(stack).line>> \o trace
    BY <1>1, <1>3 DEF Unwind, Top
  <2>2. stack # <<>>
    BY <1>1, <1>3
  <2>3. Chained(Front(stack))
    BY <1>1, <2>2, ChainedFront
  <2>4. links[Root] = Absent \/ Blamed(Front(stack), <<Last(stack).line>> \o trace)
    BY <1>1, <2>2, LinesUnwind
  <2> QED
    BY <2>1, <2>3, <2>4, MessageLater
<1> QED
  BY <1>2, <1>3

\* While mutable is empty, no other process changes a link.
LEMMA NobodyElse ==
  ASSUME mutable = {}, [Next]_vars
  PROVE  FilesStay /\ mutable' = mutable /\ (Parser \/ UNCHANGED vars)
<1>1. Parser => FilesStay /\ mutable' = mutable
  BY DEF Parser, OpenRoot, Enter, ReadPair, ReadSection, ReadBlank, ReadInclude, ReadBad, Leave,
         Unwind, FilesStay
<1> QED
  BY <1>1 DEF Next, vars, FilesStay

LEMMA MessageSame ==
  ASSUME Settled, FilesStay, UNCHANGED vars
  PROVE  Chain' /\ Blame'
<1>1. /\ Chained(stack') /\ (phase' = "opened" => Opens(stack', opened'.file))
      /\ (phase' \in {"throwing", "failed"} => links[Root] = Absent \/ Blamed(stack', trace'))
  BY DEF vars, Settled, Chain, Blame
<1>2. /\ Chained(stack)' /\ (phase' = "opened" => Opens(stack, opened.file)')
      /\ (Blamed(stack', trace') => Blamed(stack, trace)')
  BY <1>1, ChainedLater
<1>3. Chain'
  BY <1>2 DEF Settled, Chain, vars
<1>4. Blame'
  BY <1>1, <1>2 DEF Blame, vars
<1> QED
  BY <1>3, <1>4

LEMMA MessageStep ==
  ASSUME Settled, mutable = {}, [Next]_vars
  PROVE  Chain' /\ Blame'
<1>1. FilesStay /\ (Parser \/ UNCHANGED vars)
  BY NobodyElse
<1> QED
  BY <1>1, OpenRootMessage, EnterMessage, ReadMessage, ReadIncludeMessage, ReadBadMessage,
     LeaveMessage, UnwindMessage, MessageSame DEF Parser

Explained == mutable = {} => Chain /\ Blame

LEMMA MutableSame == ASSUME [Next]_vars PROVE mutable' = mutable
BY DEF Next, Parser, OpenRoot, Enter, ReadPair, ReadSection, ReadBlank, ReadInclude, ReadBad,
       Leave, Unwind, Relink, vars

LEMMA ExplainedInit == Init => Explained
BY DEF Init, Explained, Chain, Blame, Chained

LEMMA ExplainedStep == Inv /\ Explained /\ [Next]_vars => Explained'
<1> SUFFICES ASSUME Inv, Explained, [Next]_vars, mutable' = {} PROVE Chain' /\ Blame'
  BY DEF Explained
<1>1. mutable = {}
  BY MutableSame
<1> QED
  BY <1>1, MessageStep DEF Explained, Settled

\* When files are left alone, the line numbers of an error message lead from the
\* root, #include by #include, to a line that cannot be read or to one that
\* closes a cycle (the prefix that lines 231-234 put on what is rethrown).
THEOREM MessageLeads == Spec => []ErrorLeadsToFault
<1>1. Inv /\ Explained => ErrorLeadsToFault
  <2> SUFFICES ASSUME Inv, Explained, mutable = {}, phase = "failed", links[Root] # Absent
               PROVE  \E files \in [1..Len(trace) -> Files] : Leads(files, trace)
    BY DEF ErrorLeadsToFault
  <2>1. Blamed(<<>>, trace)
    BY DEF Explained, Chain, Blame
  <2>2. trace \in Seq(Nat \ {0})
    BY DEF Inv, TypeOK
  <2> QED
    BY <2>1, <2>2, LinesOfMessage
<1> QED
  BY <1>1, ExplainedInit, ExplainedStep, InductiveInvariant, PTL DEF Spec

-------------------------------------------------------------------------------
(***************************************************************************)
(* The other direction: what has been read without an exception.  "done" is*)
(* the set of files that have been left.                                   *)
(***************************************************************************)
WholeFiles(done) ==
  \A f \in done : /\ \A n \in 1..Len(content[f]) : ~Faulty(f, n)
                  /\ Included(f) \subseteq done
                  /\ f \notin Closure(Included(f))

UpToLine(frame, done) ==
  /\ frame.file \in Needed
  /\ \A n \in 1..Len(content[frame.file]) :
       n < frame.line => /\ ~Faulty(frame.file, n)
                         /\ Target(frame.file, n) \in done \cup {Absent}

IsRead(f, n, s, done) ==
  f \in done \/ \E i \in 1..Len(s) : s[i].file = f /\ n < s[i].line

HasValue(f, n, vs) == \E i \in 1..Len(vs) : vs[i].file = f /\ vs[i].line = n

ValuesOf(s, vs, done) ==
  /\ \A i \in 1..Len(vs) : vs[i].line \in 1..Len(content[vs[i].file])
  /\ \A f \in Files : \A n \in 1..Len(content[f]) :
       HasValue(f, n, vs) <=> content[f][n].kind = "pair" /\ IsRead(f, n, s, done)

Covered(s, vs, done) ==
  /\ done \subseteq Needed /\ WholeFiles(done)
  /\ \A i \in 1..Len(s) : UpToLine(s[i], done)
  /\ ValuesOf(s, vs, done)

Cover ==
  phase \notin {"throwing", "failed"} =>
    \E done \in SUBSET Files : /\ Covered(stack, values, done)
                               /\ phase = "parsed" => links[Root] \in done

LEMMA CoverLater ==
  ASSUME FilesStay,
         phase' \notin {"throwing", "failed"} =>
           \E done \in SUBSET Files : /\ Covered(stack', values', done)
                                      /\ phase' = "parsed" => links[Root] \in done
  PROVE  Cover'
<1>1. /\ \A f, n : Target(f, n)' = Target(f, n)
      /\ \A f, n : Faulty(f, n)' = Faulty(f, n)
      /\ \A f : Included(f)' = Included(f)
      /\ \A S : Closure(S)' = Closure(S)
      /\ Needed' = Needed
  BY TargetLater, ClosureLater
<1>2. ASSUME NEW done \in SUBSET Files, Covered(stack', values', done)
      PROVE  Covered(stack, values, done)'
  <2>1. WholeFiles(done) => WholeFiles(done)'
    BY <1>1 DEF WholeFiles, FilesStay
  <2>2. \A i : UpToLine(stack'[i], done) => UpToLine(stack[i], done)'
    BY <1>1 DEF UpToLine, FilesStay
  <2>3. \A f, n : /\ HasValue(f, n, values)' <=> HasValue(f, n, values')
                  /\ IsRead(f, n, stack, done)' <=> IsRead(f, n, stack', done)
    BY DEF HasValue, IsRead
  <2>4. ValuesOf(stack', values', done) => ValuesOf(stack, values, done)'
    BY <2>3 DEF ValuesOf, FilesStay
  <2> QED
    BY <1>1, <1>2, <2>1, <2>2, <2>4 DEF Covered
<1> QED
  BY <1>2 DEF Cover, FilesStay

\* The innermost activation deals with its line: which lines are read ...
LEMMA IsReadNext ==
  ASSUME NEW s \in Seq(Frame), s # <<>>, NEW t \in Seq(Frame), Len(t) = Len(s),
         \A i \in 1..Len(s) : t[i].file = s[i].file,
         \A i \in 1..(Len(s) - 1) : t[i].line = s[i].line,
         t[Len(s)].line = s[Len(s)].line + 1,
         NEW done, NEW f, NEW n \in Nat
  PROVE  IsRead(f, n, t, done) <=>
           IsRead(f, n, s, done) \/ (f = s[Len(s)].file /\ n = s[Len(s)].line)
<1> DEFINE k == Len(s)
<1>1. k \in Nat \ {0} /\ s[k] \in Frame
  OBVIOUS
<1>2. s[k].line \in Nat
  BY <1>1 DEF Frame
<1> HIDE DEF k
<1>3. k \in 1..k /\ \A i \in 1..k : i = k \/ i \in 1..(k - 1)
  BY <1>1
<1>4. n < s[k].line + 1 <=> n < s[k].line \/ n = s[k].line
  BY <1>2
<1>5. ASSUME IsRead(f, n, t, done), f \notin done
      PROVE  IsRead(f, n, s, done) \/ (f = s[k].file /\ n = s[k].line)
  <2>1. PICK i \in 1..k : t[i].file = f /\ n < t[i].line
    BY <1>5 DEF IsRead, k
  <2>2. CASE i = k
    BY <1>1, <1>3, <1>4, <2>1, <2>2 DEF IsRead, k
  <2>3. CASE i \in 1..(k - 1)
    BY <2>1, <2>3 DEF IsRead, k
  <2> QED
    BY <1>3, <2>2, <2>3
<1>6. ASSUME IsRead(f, n, s, done), f \notin done
      PROVE  IsRead(f, n, t, done)
  <2>1. PICK i \in 1..k : s[i].file = f /\ n < s[i].line
    BY <1>6 DEF IsRead, k
  <2>2. n < t[i].line
    BY <1>3, <1>4, <2>1 DEF k
  <2> QED
    BY <2>1, <2>2 DEF IsRead, k
<1>7. ASSUME f = s[k].file, n = s[k].line
      PROVE  IsRead(f, n, t, done)
  BY <1>3, <1>4, <1>7 DEF IsRead, k
<1> QED
  BY <1>5, <1>6, <1>7 DEF IsRead, k

\* ... which lines gave a value ...
LEMMA ValuesNext ==
  ASSUME NEW s, NEW t, NEW done, NEW vs \in Seq(Value), NEW ws \in Seq(Value), NEW top,
         \A f : \A n \in Nat : IsRead(f, n, t, done) <=>
           IsRead(f, n, s, done) \/ (f = top.file /\ n = top.line),
         ValuesOf(s, vs, done),
         \/ content[top.file][top.line].kind # "pair" /\ ws = vs
         \/ /\ content[top.file][top.line].kind = "pair"
            /\ top.line \in 1..Len(content[top.file])
            /\ \E v \in Value : v.file = top.file /\ v.line = top.line /\ ws = Append(vs, v)
  PROVE  ValuesOf(t, ws, done)
<1>1. CASE content[top.file][top.line].kind # "pair" /\ ws = vs
  <2>1. ASSUME NEW f \in Files, NEW n \in 1..Len(content[f]), content[f][n].kind = "pair"
        PROVE  IsRead(f, n, t, done) <=> IsRead(f, n, s, done)
    <3>1. ~(f = top.file /\ n = top.line) /\ n \in Nat
      BY <1>1, <2>1
    <3> QED
      BY <3>1
  <2> QED
    BY <1>1, <2>1 DEF ValuesOf
<1>2. ASSUME content[top.file][top.line].kind = "pair",
             top.line \in 1..Len(content[top.file]), NEW v \in Value,
             v.file = top.file, v.line = top.line, ws = Append(vs, v)
      PROVE  ValuesOf(t, ws, done)
  <2> DEFINE m == Len(vs)
  <2>1. /\ m \in Nat /\ Len(ws) = m + 1 /\ ws[m + 1] = v
        /\ \A i \in 1..m : ws[i] = vs[i]
    BY <1>2
  <2> HIDE DEF m
  <2>2. m + 1 \in 1..(m + 1) /\ \A i \in 1..(m + 1) : i \in 1..m \/ i = m + 1
    BY <2>1
  <2>3. \A i \in 1..m : i \in 1..(m + 1)
    BY <2>1
  <2>4. \A i \in 1..Len(ws) : ws[i].line \in 1..Len(content[ws[i].file])
    BY <1>2, <2>1, <2>2 DEF ValuesOf, m
  <2>5. ASSUME NEW f, NEW n
        PROVE  HasValue(f, n, ws) <=> HasValue(f, n, vs) \/ (f = top.file /\ n = top.line)
    BY <1>2, <2>1, <2>2, <2>3 DEF HasValue, m
  <2>6. ASSUME NEW f \in Files, NEW n \in 1..Len(content[f])
        PROVE  HasValue(f, n, ws) <=> content[f][n].kind = "pair" /\ IsRead(f, n, t, done)
    <3>1. HasValue(f, n, vs) <=> content[f][n].kind = "pair" /\ IsRead(f, n, s, done)
      BY DEF ValuesOf
    <3>2. f = top.file /\ n = top.line => content[f][n].kind = "pair"
      BY <1>2
    <3>3. n \in Nat
      OBVIOUS
    <3>4. IsRead(f, n, t, done) <=>
           IsRead(f, n, s, done) \/ (f = top.file /\ n = top.line)
      BY <3>3
    <3> QED
      BY <2>5, <3>1, <3>2, <3>4
  <2> QED
    BY <2>4, <2>6 DEF ValuesOf
<1> QED
  BY <1>1, <1>2

\* ... and what is known of them.
LEMMA CoveredNext ==
  ASSUME TypeOK, NEW s \in Seq(Frame), s # <<>>, NEW t \in Seq(Frame), Len(t) = Len(s),
         \A i \in 1..Len(s) : t[i].file = s[i].file,
         \A i \in 1..(Len(s) - 1) : t[i].line = s[i].line,
         t[Len(s)].line = s[Len(s)].line + 1,
         NEW done, NEW vs \in Seq(Value), NEW ws \in Seq(Value), Covered(s, vs, done),
         NEW top, top = s[Len(s)],
         ~Faulty(top.file, top.line), Target(top.file, top.line) \in done \cup {Absent},
         \/ content[top.file][top.line].kind # "pair" /\ ws = vs
         \/ /\ content[top.file][top.line].kind = "pair"
            /\ top.line \in 1..Len(content[top.file])
            /\ \E v \in Value : v.file = top.file /\ v.line = top.line /\ ws = Append(vs, v)
  PROVE  Covered(t, ws, done)
<1> DEFINE k == Len(s)
<1>1. k \in Nat \ {0} /\ s[k] \in Frame
  OBVIOUS
<1>2. top.line \in Nat
  BY <1>1 DEF Frame
<1>3. \A f : \A n \in Nat : IsRead(f, n, t, done) <=>
           IsRead(f, n, s, done) \/ (f = top.file /\ n = top.line)
  BY IsReadNext
<1> HIDE DEF k
<1>4. k \in 1..k /\ \A i \in 1..k : i = k \/ i \in 1..(k - 1)
  BY <1>1
<1>5. ASSUME NEW i \in 1..Len(t)
      PROVE  UpToLine(t[i], done)
  <2>1. UpToLine(s[i], done) /\ t[i].file = s[i].file /\ i \in 1..k
    BY <1>5 DEF Covered, k
  <2>2. CASE i = k
    <3>1. \A n \in 1..Len(content[top.file]) : n < top.line + 1 <=> n < top.line \/ n = top.line
      BY <1>2
    <3> QED
      BY <2>1, <2>2, <3>1 DEF UpToLine, k
  <2>3. CASE i \in 1..(k - 1)
    BY <2>1, <2>3 DEF UpToLine, k
  <2> QED
    BY <1>4, <2>1, <2>2, <2>3
<1>6. ValuesOf(t, ws, done)
  <2>1. ValuesOf(s, vs, done)
    BY DEF Covered
  <2> QED
    BY <1>3, <2>1, ValuesNext
<1> QED
  BY <1>5, <1>6 DEF Covered
\* A file is begun ...
LEMMA CoveredEnter ==
  ASSUME NEW s \in Seq(Frame), NEW frame \in Frame, NEW vs, NEW done,
         Covered(s, vs, done), frame.file \in Needed, frame.line = 1
  PROVE  Covered(Append(s, frame), vs, done)
<1> DEFINE k == Len(s)
           t == Append(s, frame)
<1>1. k \in Nat /\ Len(t) = k + 1 /\ t[k + 1] = frame /\ \A i \in 1..k : t[i] = s[i]
  OBVIOUS
<1> HIDE DEF k, t
<1>2. k + 1 \in 1..(k + 1) /\ \A i \in 1..(k + 1) : i \in 1..k \/ i = k + 1
  BY <1>1
<1>3. \A i \in 1..k : i \in 1..(k + 1)
  BY <1>1
<1>4. UpToLine(frame, done)
  BY DEF UpToLine
<1>5. \A i \in 1..(k + 1) : UpToLine(t[i], done)
  BY <1>1, <1>2, <1>4 DEF Covered, k
<1>6. ASSUME NEW f \in Files, NEW n \in 1..Len(content[f])
      PROVE  IsRead(f, n, t, done) <=> IsRead(f, n, s, done)
  <2>1. ~(n < frame.line)
    OBVIOUS
  <2> QED
    BY <1>1, <1>2, <1>3, <2>1 DEF IsRead, k
<1>7. ValuesOf(t, vs, done)
  BY <1>6 DEF Covered, ValuesOf
<1> QED
  BY <1>1, <1>5, <1>7 DEF Covered, t

\* ... and left, when all its lines have been dealt with.
LEMMA CoveredLeave ==
  ASSUME TypeOK, NEW s \in Seq(Frame), s # <<>>, NEW vs, NEW done, Covered(s, vs, done),
         NEW top, top = s[Len(s)], top.line > Len(content[top.file])
  PROVE  Covered(Front(s), vs, done \cup {top.file})
<1> DEFINE k == Len(s)
           f == top.file
           after == done \cup {f}
           t == Front(s)
<1>1. /\ k \in Nat \ {0} /\ s[k] \in Frame /\ Len(t) = k - 1 /\ k \in 1..k
      /\ \A i \in 1..(k - 1) : t[i] = s[i]
  BY LastAndFront
<1>2. f \in Files /\ content[f] \in Seq(Line) /\ Len(content[f]) \in Nat /\ top.line \in Nat
  BY <1>1 DEF Frame, TypeOK
<1>3. \A n \in 1..Len(content[f]) : n < top.line
  BY <1>2
<1> HIDE DEF k, f, after, t
<1>4. /\ f \in Needed /\ \A n \in 1..Len(content[f]) : ~Faulty(f, n) /\ Target(f, n) \in done \cup {Absent}
  BY <1>1, <1>3 DEF Covered, UpToLine, k, f
<1>5. done \subseteq Needed /\ WholeFiles(done) /\ done \subseteq Files
  <2>1. Needed \subseteq Files
    BY NeededClosed
  <2> QED
    BY <2>1 DEF Covered
<1>6. Included(f) \subseteq done
  BY <1>4 DEF Included
<1>7. f \in done \/ f \notin Closure(Included(f))
  <2>1. Included(f) \in SUBSET Files /\ done \in SUBSET Files /\ \A g \in done : Included(g) \subseteq done
    BY <1>5, <1>6 DEF WholeFiles
  <2>2. Closure(Included(f)) \subseteq done
    BY <1>6, <2>1, ClosureLeast
  <2> QED
    BY <2>2
<1>8. WholeFiles(after)
  BY <1>4, <1>5, <1>6, <1>7 DEF WholeFiles, after
<1>9. \A i \in 1..(k - 1) : i \in 1..k
  BY <1>1
<1>10. \A i \in 1..(k - 1) : UpToLine(t[i], after)
  BY <1>1, <1>9 DEF Covered, UpToLine, after, k
<1>11. \A i \in 1..k : i \in 1..(k - 1) \/ i = k
  BY <1>1
<1>12. ASSUME NEW g \in Files, NEW n \in 1..Len(content[g])
       PROVE  IsRead(g, n, t, after) <=> IsRead(g, n, s, done)
  <2>1. CASE g = f
    <3>1. IsRead(g, n, t, after)
      BY <2>1 DEF IsRead, after
    <3>2. IsRead(g, n, s, done)
      BY <1>1, <1>3, <2>1 DEF IsRead, k, f
    <3> QED
      BY <3>1, <3>2
  <2>2. CASE g # f
    <3>1. g \in after <=> g \in done
      BY <2>2 DEF after
    <3>2. s[k].file # g
      BY <2>2 DEF k, f
    <3>3. (\E i \in 1..(k - 1) : t[i].file = g /\ n < t[i].line)
             <=> \E i \in 1..k : s[i].file = g /\ n < s[i].line
      BY <1>1, <1>9, <1>11, <3>2
    <3> QED
      BY <1>1, <3>1, <3>3 DEF IsRead, k
  <2> QED
    BY <2>1, <2>2
<1>13. ValuesOf(t, vs, after)
  BY <1>12 DEF Covered, ValuesOf
<1>14. after \subseteq Needed
  BY <1>4, <1>5 DEF after
<1> QED
  BY <1>1, <1>8, <1>10, <1>13, <1>14 DEF Covered, after, t, f

\* What Covered amounts to in the end.
LEMMA CoveredAll ==
  ASSUME TypeOK, NEW vs \in Seq(Value), NEW done, Covered(<<>>, vs, done), links[Root] \in done
  PROVE  /\ links[Root] # Absent /\ done = Needed /\ Clean /\ Acyclic
         /\ {<<v.file, v.line>> : v \in ToSet(vs)}
              = UNION {{f} \X {n \in 1..Len(content[f]) : content[f][n].kind = "pair"} : f \in Needed}
<1>1. Needed \subseteq Files /\ done \subseteq Needed /\ WholeFiles(done) /\ ValuesOf(<<>>, vs, done)
  BY NeededClosed DEF Covered
<1>2. links[Root] # Absent
  BY <1>1, FilesAssumption
<1>3. done = Needed
  <2>1. {links[Root]} \in SUBSET Files /\ done \in SUBSET Files /\ {links[Root]} \subseteq done
    BY <1>1
  <2>2. \A f \in done : Included(f) \subseteq done
    BY <1>1 DEF WholeFiles
  <2>3. Closure({links[Root]}) \subseteq done
    BY <2>1, <2>2, ClosureLeast
  <2> QED
    BY <1>1, <1>2, <2>3 DEF Needed
<1>4. Clean /\ Acyclic
  BY <1>1, <1>3 DEF WholeFiles, Clean, Acyclic
<1>5. \A f \in Files : \A n \in 1..Len(content[f]) :
        HasValue(f, n, vs) <=> content[f][n].kind = "pair" /\ f \in Needed
  <2>1. \A f, n : IsRead(f, n, <<>>, done) <=> f \in Needed
    BY <1>3 DEF IsRead
  <2> QED
    BY <1>1, <2>1 DEF ValuesOf
<1>6. /\ \A v \in ToSet(vs) : \E i \in 1..Len(vs) : v = vs[i]
      /\ \A i \in 1..Len(vs) : vs[i] \in ToSet(vs) /\ vs[i] \in Value
  BY DEF ToSet
<1>7. ASSUME NEW v \in ToSet(vs)
      PROVE  v.file \in Needed /\ v.line \in 1..Len(content[v.file]) /\ content[v.file][v.line].kind = "pair"
  <2>1. PICK i \in 1..Len(vs) : v = vs[i]
    BY <1>6
  <2>2. v.line \in 1..Len(content[v.file]) /\ v.file \in Files
    BY <1>1, <1>6, <2>1 DEF ValuesOf, Value
  <2>3. HasValue(v.file, v.line, vs)
    BY <2>1 DEF HasValue
  <2> QED
    BY <1>5, <2>2, <2>3
<1>8. ASSUME NEW f \in Needed, NEW n \in 1..Len(content[f]), content[f][n].kind = "pair"
      PROVE  \E v \in ToSet(vs) : v.file = f /\ v.line = n
  <2>1. HasValue(f, n, vs)
    BY <1>1, <1>5, <1>8
  <2> QED
    BY <1>6, <2>1 DEF HasValue
<1> QED
  BY <1>2, <1>3, <1>4, <1>7, <1>8

-------------------------------------------------------------------------------
\* A line of a kind that cannot fail.
LEMMA HarmlessLine ==
  ASSUME NEW f, NEW n, content[f][n].kind \in {"pair", "section", "blank"}
  PROVE  ~Faulty(f, n) /\ Target(f, n) = Absent
BY DEF Faulty, Target

LEMMA ReadCover ==
  ASSUME Settled, Cover, FilesStay, ReadPair \/ ReadSection \/ ReadBlank
  PROVE  Cover'
<1>1. phase = "reading" /\ phase' = "reading" /\ ~AtEnd
  BY DEF ReadPair, ReadSection, ReadBlank
<1>2. /\ stack \in Seq(Frame) /\ stack # <<>> /\ Depth = Len(stack) /\ Top = stack[Len(stack)]
      /\ Top \in Frame /\ Top.line \in 1..Len(content[Top.file])
  BY <1>1, AtChain
<1>3. PICK done \in SUBSET Files : Covered(stack, values, done)
  BY <1>1 DEF Cover
<1>4. content[Top.file][Top.line].kind \in {"pair", "section", "blank"}
  BY DEF ReadPair, ReadSection, ReadBlank, Current
<1>5. ~Faulty(Top.file, Top.line) /\ Target(Top.file, Top.line) \in done \cup {Absent}
  BY <1>4, HarmlessLine
<1>6. /\ stack' \in Seq(Frame) /\ Len(stack') = Len(stack)
      /\ \A i \in 1..Len(stack) : stack'[i].file = stack[i].file
      /\ \A i \in 1..(Len(stack) - 1) : stack'[i].line = stack[i].line
      /\ stack'[Len(stack)].line = stack[Len(stack)].line + 1
  <2>1. CASE ReadPair \/ ReadBlank
    BY <1>2, <2>1, NextLineSame DEF ReadPair, ReadBlank
  <2>2. CASE ReadSection
    <3> DEFINE t == [stack EXCEPT ![Len(stack)].prefix = Current.prefix]
    <3>1. Current.prefix \in Sections
      BY <2>2, AtLine DEF Settled, Inv, ReadSection, Line
    <3>2. /\ t \in Seq(Frame) /\ Len(t) = Len(stack) /\ t # <<>>
          /\ \A i \in 1..Len(stack) : /\ t[i].file = stack[i].file /\ t[i].path = stack[i].path
                                      /\ t[i].line = stack[i].line
      BY <1>2, <3>1, SectionSame
    <3>3. stack' = NextLine(t)
      BY <1>2, <2>2 DEF ReadSection
    <3> HIDE DEF t
    <3>4. \A i \in 1..(Len(stack) - 1) : i \in 1..Len(stack)
      BY <1>2
    <3>5. Len(stack) \in 1..Len(stack)
      BY <1>2
    <3>6. /\ NextLine(t) \in Seq(Frame) /\ Len(NextLine(t)) = Len(t)
          /\ \A i \in 1..Len(t) : NextLine(t)[i].file = t[i].file
          /\ \A i \in 1..(Len(t) - 1) : NextLine(t)[i].line = t[i].line
          /\ NextLine(t)[Len(t)].line = t[Len(t)].line + 1
      BY <3>2, NextLineSame
    <3> QED
      BY <3>2, <3>3, <3>4, <3>5, <3>6
  <2> QED
    BY <2>1, <2>2
<1>7. /\ values \in Seq(Value) /\ values' \in Seq(Value)
      /\ \/ content[Top.file][Top.line].kind # "pair" /\ values' = values
         \/ /\ content[Top.file][Top.line].kind = "pair"
            /\ \E v \in Value : v.file = Top.file /\ v.line = Top.line /\ values' = Append(values, v)
  <2>1. CASE ReadPair
    <3> DEFINE v == [prefix |-> Top.prefix, key |-> Current.key, file |-> Top.file, line |-> Top.line]
    <3>1. Current \in Line /\ Current.kind = "pair" /\ values' = Append(values, v)
      BY <2>1, AtLine DEF Settled, Inv, ReadPair
    <3>2. Current.key \in Keys
      BY <3>1 DEF Line
    <3>3. v \in Value /\ v.file = Top.file /\ v.line = Top.line
      BY <1>2, <3>2 DEF Frame, Value
    <3> HIDE DEF v
    <3>4. values' \in Seq(Value) /\ values \in Seq(Value)
      BY <3>1, <3>3 DEF Settled, Inv, TypeOK
    <3> QED
      BY <3>1, <3>3, <3>4 DEF Current
  <2>2. CASE ReadSection \/ ReadBlank
    BY <2>2 DEF ReadSection, ReadBlank, Current, Settled, Inv, TypeOK
  <2> QED
    BY <2>1, <2>2
<1>8. TypeOK
  BY DEF Settled, Inv
<1>9. Covered(stack', values', done)
  BY <1>2, <1>3, <1>5, <1>6, <1>7, <1>8, CoveredNext
<1> QED
  BY <1>1, <1>9, CoverLater

\* Steps that do not touch the stack or the values, or end in an exception.
LEMMA SameCover ==
  ASSUME Settled, Cover, FilesStay, OpenRoot \/ ReadInclude \/ ReadBad \/ Unwind \/ UNCHANGED vars
  PROVE  Cover'
<1>1. CASE phase' \in {"throwing", "failed"}
  BY <1>1, CoverLater
<1>2. CASE phase' \notin {"throwing", "failed"}
  <2>1. /\ stack' = stack /\ values' = values /\ phase \notin {"throwing", "failed"}
        /\ phase' = "parsed" => phase = "parsed"
    BY <1>2 DEF OpenRoot, ReadInclude, ReadBad, Unwind, Open, vars
  <2>2. PICK done \in SUBSET Files : /\ Covered(stack, values, done)
                                     /\ phase = "parsed" => links[Root] \in done
    BY <2>1 DEF Cover
  <2> QED
    BY <2>1, <2>2, CoverLater
<1> QED
  BY <1>1, <1>2

LEMMA EnterCover == ASSUME Settled, Cover, FilesStay, Enter PROVE Cover'
<1> DEFINE path == links[opened.at]
           frame == [path |-> path, file |-> opened.file, line |-> 1, prefix |-> NoPrefix]
<1>1. /\ phase = "opened" /\ opened.file \in Files /\ path = opened.file
      /\ path # Absent /\ Opens(stack, path) /\ stack \in Seq(Frame) /\ values' = values
  BY FilesAssumption DEF Enter, Settled, Chain, Inv, TypeOK
<1>2. CASE path \in Paths
  <2>1. phase' = "throwing"
    BY <1>2 DEF Enter
  <2> QED
    BY <2>1, CoverLater
<1>3. CASE path \notin Paths
  <2>1. phase' = "reading" /\ stack' = Append(stack, frame)
    BY <1>1, <1>3 DEF Enter
  <2>2. PICK done \in SUBSET Files : Covered(stack, values, done)
    BY <1>1 DEF Cover
  <2>3. path \in Needed
    <3>0. /\ links[Root] # Absent => links[Root] \in Needed
          /\ \A f \in Needed : Included(f) \subseteq Needed
      BY NeededClosed DEF Settled, Inv
    <3>1. CASE stack = <<>>
      BY <1>1, <3>0, <3>1 DEF Opens
    <3>2. CASE stack # <<>>
      <4>1. Len(stack) \in 1..Len(stack)
        BY <1>1, <3>2
      <4>2. stack[Len(stack)].file \in Needed
        BY <2>2, <4>1 DEF Covered, UpToLine
      <4>3. path \in Included(stack[Len(stack)].file)
        BY <1>1, <3>2 DEF Opens, Included
      <4> QED
        BY <3>0, <4>2, <4>3
    <3> QED
      BY <3>1, <3>2
  <2>4. frame \in Frame /\ frame.file \in Needed /\ frame.line = 1
    BY <1>1, <2>3 DEF Frame
  <2> HIDE DEF frame
  <2>5. Covered(Append(stack, frame), values, done)
    BY <1>1, <2>2, <2>4, CoveredEnter
  <2> QED
    BY <1>1, <2>1, <2>5, CoverLater
<1> QED
  BY <1>2, <1>3

LEMMA LeaveCover == ASSUME Settled, Cover, FilesStay, Leave PROVE Cover'
<1>1. phase = "reading" /\ values' = values /\ AtEnd
  BY DEF Leave
<1>2. /\ stack \in Seq(Frame) /\ stack # <<>> /\ Depth = Len(stack) /\ Len(stack) \in Nat \ {0}
      /\ Top = stack[Len(stack)] /\ Top \in Frame /\ Chained(stack)
      /\ Top.line > Len(content[Top.file])
      /\ TypeOK /\ values \in Seq(Value)
  BY <1>1, AtChain DEF AtEnd, Settled, Inv, TypeOK
<1>3. PICK done \in SUBSET Files : Covered(stack, values, done)
  BY <1>1 DEF Cover
<1> DEFINE after == done \cup {Top.file}
           rest == Front(stack)
<1>4. after \in SUBSET Files
  BY <1>2 DEF Frame
<1>5. Covered(rest, values, after)
  BY <1>2, <1>3, CoveredLeave
<1>6. rest \in Seq(Frame) /\ Len(rest) = Len(stack) - 1 /\ \A i \in 1..(Len(stack) - 1) : rest[i] = stack[i]
  BY <1>2, LastAndFront
<1> HIDE DEF after, rest
<1>7. CASE Depth = 1
  <2>1. phase' = "parsed" /\ stack' = <<>>
    BY <1>7 DEF Leave
  <2>2. rest = <<>>
    BY <1>2, <1>6, <1>7, EmptySeq
  <2>3. links[Root] \in after
    BY <1>2, <1>7 DEF Chained, after
  <2> QED
    BY <1>1, <1>4, <1>5, <2>1, <2>2, <2>3, CoverLater
<1>8. CASE Depth # 1
  <2> DEFINE k == Len(stack) - 1
             below == stack[k]
  <2>1. phase' = "reading" /\ stack' = NextLine(rest)
    BY <1>1, <1>8 DEF Leave, rest
  <2>2. Len(stack) > 1 /\ k \in 1..k /\ rest # <<>> /\ Len(rest) = k /\ rest[k] = below
    BY <1>2, <1>6, <1>8
  <2>3. Target(below.file, below.line) = Top.file
    BY <1>2, <2>2, ChainedFront
  <2>4. Top.file # Absent /\ Top.file \in after
    BY <1>2, FilesAssumption DEF Frame, after
  <2>5. content[below.file][below.line].kind = "include"
    BY <2>3, <2>4 DEF Target
  <2>6. ~Faulty(below.file, below.line) /\ Target(below.file, below.line) \in after \cup {Absent}
    BY <2>3, <2>4, <2>5 DEF Faulty
  <2>7. /\ NextLine(rest) \in Seq(Frame) /\ Len(NextLine(rest)) = Len(rest)
        /\ \A i \in 1..Len(rest) : NextLine(rest)[i].file = rest[i].file
        /\ \A i \in 1..(Len(rest) - 1) : NextLine(rest)[i].line = rest[i].line
        /\ NextLine(rest)[Len(rest)].line = rest[Len(rest)].line + 1
    BY <1>6, <2>2, NextLineSame
  <2>8. below = rest[Len(rest)] /\ content[below.file][below.line].kind # "pair"
    BY <2>2, <2>5
  <2> HIDE DEF below, k
  <2>9. Covered(NextLine(rest), values, after)
    BY <1>2, <1>5, <1>6, <2>2, <2>6, <2>7, <2>8, CoveredNext
  <2> QED
    BY <1>1, <1>4, <2>1, <2>9, CoverLater
<1> QED
  BY <1>7, <1>8

Accounted == mutable = {} => Cover

LEMMA AccountedInit == Init => Accounted
<1> SUFFICES ASSUME Init PROVE Covered(<<>>, <<>>, {})
  BY DEF Init, Accounted, Cover
<1>1. WholeFiles({})
  BY DEF WholeFiles
<1>2. \A f, n : ~HasValue(f, n, <<>>) /\ ~IsRead(f, n, <<>>, {})
  BY DEF HasValue, IsRead
<1> QED
  BY <1>1, <1>2 DEF Covered, ValuesOf

LEMMA AccountedStep == Inv /\ Explained /\ Accounted /\ [Next]_vars => Accounted'
<1> SUFFICES ASSUME Inv, Explained, Accounted, [Next]_vars, mutable' = {} PROVE Cover'
  BY DEF Accounted
<1>1. mutable = {} /\ Settled /\ Cover
  BY MutableSame DEF Explained, Accounted, Settled
<1>2. FilesStay /\ (Parser \/ UNCHANGED vars)
  BY <1>1, NobodyElse
<1> QED
  BY <1>1, <1>2, EnterCover, ReadCover, SameCover, LeaveCover DEF Parser

\* When files are left alone, a parse that succeeds has the values of all keys of
\* all files needed and no others: no file is left out, none is left halfway when
\* one that it includes ends (line 235), and none is read beyond its end.
THEOREM AllRead == Spec => []NothingSkipped
<1>1. Inv /\ Explained /\ Accounted => NothingSkipped
  <2> SUFFICES ASSUME Inv, Explained, Accounted, mutable = {}, phase = "parsed"
               PROVE  {<<v.file, v.line>> : v \in ToSet(values)}
      = UNION {{f} \X {n \in 1..Len(content[f]) : content[f][n].kind = "pair"} : f \in Needed}
    BY DEF NothingSkipped
  <2>1. PICK done \in SUBSET Files : Covered(stack, values, done) /\ links[Root] \in done
    BY DEF Accounted, Cover
  <2>2. stack = <<>> /\ TypeOK /\ values \in Seq(Value)
    BY DEF Explained, Chain, Inv, TypeOK
  <2> QED
    BY <2>1, <2>2, CoveredAll
<1> QED
  BY <1>1, ExplainedInit, ExplainedStep, AccountedInit, AccountedStep, InductiveInvariant,
     PTL DEF Spec

\* When files are left alone, parsing succeeds only if every file needed is there,
\* has no line that it cannot read and does not include itself over others, and
\* fails only if one of these is not so.
THEOREM ParsedWhenPossible == Spec => []ParsedIffWellFormed
<1>1. Inv /\ Explained /\ Accounted => ParsedIffWellFormed
  <2> SUFFICES ASSUME Inv, Explained, Accounted, mutable = {}
               PROVE  /\ phase = "parsed" => links[Root] # Absent /\ Clean /\ Acyclic
                      /\ phase = "failed" => links[Root] = Absent \/ ~Clean \/ ~Acyclic
    BY DEF ParsedIffWellFormed
  <2>1. ASSUME phase = "parsed"
        PROVE  links[Root] # Absent /\ Clean /\ Acyclic
    <3>1. PICK done \in SUBSET Files : Covered(stack, values, done) /\ links[Root] \in done
      BY <2>1 DEF Accounted, Cover
    <3>2. stack = <<>> /\ TypeOK /\ values \in Seq(Value)
      BY <2>1 DEF Explained, Chain, Inv, TypeOK
    <3> QED
      BY <3>1, <3>2, CoveredAll
  <2>2. ASSUME phase = "failed", links[Root] # Absent
        PROVE  ~Clean \/ ~Acyclic
    <3>1. Blamed(<<>>, trace)
      BY <2>2 DEF Explained, Chain, Blame
    <3>2. trace \in Seq(Nat \ {0}) /\ Len(trace) \in Nat /\ TypeOK
      BY DEF Inv, TypeOK
    <3>3. PICK files \in [1..Len(trace) -> Files] : Leads(files, trace)
      BY <3>1, <3>2, LinesOfMessage
    <3> QED
      BY <2>2, <3>2, <3>3, LeadsBlames
  <2> QED
    BY <2>1, <2>2
<1> QED
  BY <1>1, ExplainedInit, ExplainedStep, AccountedInit, AccountedStep, InductiveInvariant,
     PTL DEF Spec

-------------------------------------------------------------------------------
(* The lines of a file.  FindQuote, Unquote and Escape are recursive: what *)
(* they make of a text from a position on is what they make of it from one *)
(* of the next two.  That there are such functions, and what they have in  *)
(* common, is shown from the end of the text to its start.                 *)

\* What holds behind the end of a text, and at a position if it does at the next
\* two, holds at all.
LEMMA FromTheEnd ==
  ASSUME NEW n \in Nat, NEW T, n + 1 \in T, n + 2 \in T,
         \A i \in 1..n : i + 1 \in T /\ i + 2 \in T => i \in T
  PROVE  1..(n + 2) \subseteq T
<1> DEFINE B == {d \in Nat : d <= n + 1 /\ n + 2 - d \notin T}
<1> SUFFICES ASSUME NEW k \in 1..(n + 2), k \notin T
             PROVE  FALSE
  OBVIOUS
<1>1. n + 2 - (n + 2 - k) = k /\ n + 2 - k \in Nat /\ n + 2 - k <= n + 1
  OBVIOUS
<1>2. n + 2 - k \in B /\ B \subseteq Nat
  BY <1>1
<1>3. PICK d \in B : \A e \in B : d <= e
  BY <1>2, NatMin
<1>4. d \in Nat /\ d <= n + 1 /\ n + 2 - d \notin T
  BY <1>3
<1>5. d # 0 /\ d # 1
  BY <1>4
<1>6. d - 1 \in Nat /\ d - 2 \in Nat /\ n + 2 - (d - 1) \in T /\ n + 2 - (d - 2) \in T
  BY <1>3, <1>4, <1>5
<1> DEFINE i == n + 2 - d
<1>7. i \in 1..n /\ i + 1 = n + 2 - (d - 1) /\ i + 2 = n + 2 - (d - 2)
  BY <1>4, <1>5
<1> QED
  BY <1>4, <1>6, <1>7

\* f gives z behind the end, and what G makes of the next two values elsewhere.
Runs(f, n, V, z, G) ==
  /\ f \in [1..(n + 2) -> V]
  /\ f[n + 1] = z /\ f[n + 2] = z
  /\ \A i \in 1..n : f[i] = G[<<i, f[i + 1], f[i + 2]>>]

LEMMA RunsExists ==
  ASSUME NEW n \in Nat, NEW V, NEW z \in V, NEW G \in [(1..n) \X V \X V -> V]
  PROVE  \E f : Runs(f, n, V, z, G)
<1> DEFINE Part(f, k) == /\ f \in [1..(n + 2) -> V]
                         /\ f[n + 1] = z /\ f[n + 2] = z
                         /\ \A i \in k..n : f[i] = G[<<i, f[i + 1], f[i + 2]>>]
           T == {k \in 1..(n + 2) : \E f : Part(f, k)}
<1>1. n + 1 \in T /\ n + 2 \in T
  <2> DEFINE f == [i \in 1..(n + 2) |-> z]
  <2>1. Part(f, n + 1) /\ Part(f, n + 2)
    OBVIOUS
  <2> HIDE DEF Part
  <2> QED BY <2>1
<1>2. ASSUME NEW k \in 1..n, k + 1 \in T
      PROVE  k \in T
  <2>1. PICK f : Part(f, k + 1)
    BY <1>2
  <2> DEFINE v == G[<<k, f[k + 1], f[k + 2]>>]
             g == [f EXCEPT ![k] = v]
  <2>2. f[k + 1] \in V /\ f[k + 2] \in V
    BY <2>1
  <2>3. v \in V
    BY <2>2
  <2>4. /\ g \in [1..(n + 2) -> V]
        /\ g[k] = v
        /\ \A i \in 1..(n + 2) : i # k => g[i] = f[i]
    BY <2>1, <2>3
  <2> HIDE DEF g
  <2>5. g[n + 1] = z /\ g[n + 2] = z
    BY <2>1, <2>4
  <2>6. ASSUME NEW i \in k..n
        PROVE  g[i] = G[<<i, g[i + 1], g[i + 2]>>]
    <3>1. g[i + 1] = f[i + 1] /\ g[i + 2] = f[i + 2]
      BY <2>4
    <3>2. CASE i = k
      BY <2>4, <3>1, <3>2
    <3>3. CASE i # k
      BY <2>1, <2>4, <3>1, <3>3
    <3> QED BY <3>2, <3>3
  <2>7. Part(g, k)
    BY <2>4, <2>5, <2>6
  <2> HIDE DEF Part
  <2> QED BY <2>7
<1> HIDE DEF T
<1>3. 1 \in T
  BY <1>1, <1>2, FromTheEnd
<1> QED
  BY <1>3 DEF T, Runs

-------------------------------------------------------------------------------
\* What FindQuote makes of position i from what it finds from the next two on.
QuoteStep(s) ==
  [x \in (1..Len(s)) \X Int \X Int |->
     IF s[x[1]] = "quote" THEN x[1]
     ELSE IF s[x[1]] # "backslash" THEN x[2]
     ELSE IF x[1] < Len(s) /\ s[x[1] + 1] \in {"backslash", "quote"} THEN x[3]
     ELSE Malformed]

LEMMA FindQuoteAt ==
  ASSUME NEW s \in Seq(Char), NEW p \in 1..(Len(s) + 2)
  PROVE  FindQuote(s, p) = IF p > Len(s) THEN NotFound
                           ELSE IF s[p] = "quote" THEN p
                           ELSE IF s[p] # "backslash" THEN FindQuote(s, p + 1)
                           ELSE IF p < Len(s) /\ s[p + 1] \in {"backslash", "quote"}
                                  THEN FindQuote(s, p + 2)
                           ELSE Malformed
<1> DEFINE find == CHOOSE find : find =
             [i \in 1..(Len(s) + 2) |->
                IF i > Len(s) THEN NotFound
                ELSE IF s[i] = "quote" THEN i
                ELSE IF s[i] # "backslash" THEN find[i + 1]
                ELSE IF i < Len(s) /\ s[i + 1] \in {"backslash", "quote"} THEN find[i + 2]
                ELSE Malformed]
<1>1. Len(s) \in Nat /\ NotFound \in Int /\ QuoteStep(s) \in [(1..Len(s)) \X Int \X Int -> Int]
  BY DEF NotFound, Malformed, QuoteStep
<1>2. PICK f : Runs(f, Len(s), Int, NotFound, QuoteStep(s))
  BY <1>1, RunsExists
<1>3. ASSUME NEW i \in 1..Len(s)
      PROVE  f[i] = IF s[i] = "quote" THEN i
                    ELSE IF s[i] # "backslash" THEN f[i + 1]
                    ELSE IF i < Len(s) /\ s[i + 1] \in {"backslash", "quote"} THEN f[i + 2]
                    ELSE Malformed
  <2>0. f \in [1..(Len(s) + 2) -> Int] /\ i + 1 \in 1..(Len(s) + 2) /\ i + 2 \in 1..(Len(s) + 2)
    BY <1>1, <1>2 DEF Runs
  <2>1. f[i + 1] \in Int /\ f[i + 2] \in Int
    BY <2>0
  <2>2. f[i] = QuoteStep(s)[<<i, f[i + 1], f[i + 2]>>]
    BY <1>2 DEF Runs
  <2> QED BY <2>1, <2>2 DEF QuoteStep
<1>4. f = [i \in 1..(Len(s) + 2) |->
             IF i > Len(s) THEN NotFound
             ELSE IF s[i] = "quote" THEN i
             ELSE IF s[i] # "backslash" THEN f[i + 1]
             ELSE IF i < Len(s) /\ s[i + 1] \in {"backslash", "quote"} THEN f[i + 2]
             ELSE Malformed]
  <2>1. \A i \in 1..(Len(s) + 2) : i > Len(s) => f[i] = NotFound
    BY <1>1, <1>2 DEF Runs
  <2>2. f = [i \in 1..(Len(s) + 2) |-> f[i]]
    BY <1>1, <1>2 DEF Runs
  <2>3. \A i \in 1..(Len(s) + 2) : ~(i > Len(s)) => i \in 1..Len(s)
    BY <1>1
  <2> QED BY <1>3, <2>1, <2>2, <2>3
<1>5. find = [i \in 1..(Len(s) + 2) |->
                IF i > Len(s) THEN NotFound
                ELSE IF s[i] = "quote" THEN i
                ELSE IF s[i] # "backslash" THEN find[i + 1]
                ELSE IF i < Len(s) /\ s[i + 1] \in {"backslash", "quote"} THEN find[i + 2]
                ELSE Malformed]
  BY <1>4, Zenon
<1>6. \A q : FindQuote(s, q) = find[q]
  BY Zenon DEF FindQuote
<1> HIDE DEF find
<1> QED
  BY <1>5, <1>6

-------------------------------------------------------------------------------
UnquoteStep(s) ==
  [x \in (1..Len(s)) \X Seq(Char) \X Seq(Char) |->
     IF s[x[1]] = "backslash" /\ x[1] < Len(s) THEN <<s[x[1] + 1]>> \o x[3]
     ELSE <<s[x[1]]>> \o x[2]]

\* What Unquote makes of a text from each position on.
Unquotes(rest, s) ==
  \A i \in 1..(Len(s) + 2) :
    rest[i] = IF i > Len(s) THEN <<>>
              ELSE IF s[i] = "backslash" /\ i < Len(s) THEN <<s[i + 1]>> \o rest[i + 2]
              ELSE <<s[i]>> \o rest[i + 1]

LEMMA UnquoteRest ==
  ASSUME NEW s \in Seq(Char)
  PROVE  \E rest : Unquotes(rest, s) /\ Unquote(s) = rest[1]
<1> DEFINE rest == CHOOSE rest : rest =
             [i \in 1..(Len(s) + 2) |->
                IF i > Len(s) THEN <<>>
                ELSE IF s[i] = "backslash" /\ i < Len(s) THEN <<s[i + 1]>> \o rest[i + 2]
                ELSE <<s[i]>> \o rest[i + 1]]
<1>1. Len(s) \in Nat /\ <<>> \in Seq(Char)
  OBVIOUS
<1>2. UnquoteStep(s) \in [(1..Len(s)) \X Seq(Char) \X Seq(Char) -> Seq(Char)]
  <2>1. ASSUME NEW i \in 1..Len(s), NEW a \in Seq(Char), NEW b \in Seq(Char)
        PROVE  /\ <<s[i]>> \o a \in Seq(Char)
               /\ i < Len(s) => <<s[i + 1]>> \o b \in Seq(Char)
    <3>1. s[i] \in Char /\ (i < Len(s) => s[i + 1] \in Char)
      BY <1>1, ElementOfSeq
    <3>2. <<s[i]>> \in Seq(Char) /\ (i < Len(s) => <<s[i + 1]>> \in Seq(Char))
      BY <3>1
    <3> QED BY <3>2, ConcatProperties
  <2> QED BY <2>1 DEF UnquoteStep
<1>3. PICK f : Runs(f, Len(s), Seq(Char), <<>>, UnquoteStep(s))
  BY <1>1, <1>2, RunsExists
<1>4. ASSUME NEW i \in 1..Len(s)
      PROVE  f[i] = IF s[i] = "backslash" /\ i < Len(s) THEN <<s[i + 1]>> \o f[i + 2]
                    ELSE <<s[i]>> \o f[i + 1]
  <2>0. f \in [1..(Len(s) + 2) -> Seq(Char)] /\ i + 1 \in 1..(Len(s) + 2) /\ i + 2 \in 1..(Len(s) + 2)
    BY <1>1, <1>3 DEF Runs
  <2>1. f[i + 1] \in Seq(Char) /\ f[i + 2] \in Seq(Char)
    BY <2>0
  <2>2. f[i] = UnquoteStep(s)[<<i, f[i + 1], f[i + 2]>>]
    BY <1>3 DEF Runs
  <2> QED BY <2>1, <2>2 DEF UnquoteStep
<1>5. f = [i \in 1..(Len(s) + 2) |->
             IF i > Len(s) THEN <<>>
             ELSE IF s[i] = "backslash" /\ i < Len(s) THEN <<s[i + 1]>> \o f[i + 2]
             ELSE <<s[i]>> \o f[i + 1]]
  <2>1. \A i \in 1..(Len(s) + 2) : i > Len(s) => f[i] = <<>>
    BY <1>1, <1>3 DEF Runs
  <2>2. f = [i \in 1..(Len(s) + 2) |-> f[i]]
    BY <1>1, <1>3 DEF Runs
  <2>3. \A i \in 1..(Len(s) + 2) : ~(i > Len(s)) => i \in 1..Len(s)
    BY <1>1
  <2> QED BY <1>4, <2>1, <2>2, <2>3
<1>6. rest = [i \in 1..(Len(s) + 2) |->
                IF i > Len(s) THEN <<>>
                ELSE IF s[i] = "backslash" /\ i < Len(s) THEN <<s[i + 1]>> \o rest[i + 2]
                ELSE <<s[i]>> \o rest[i + 1]]
  BY <1>5, Zenon
<1>7. Unquote(s) = rest[1]
  BY Zenon DEF Unquote
<1> HIDE DEF rest
<1>8. Unquotes(rest, s)
  BY <1>6 DEF Unquotes
<1> QED
  BY <1>7, <1>8

EscapeStep(s) ==
  [x \in (1..Len(s)) \X Seq(Char) \X Seq(Char) |->
     IF s[x[1]] \in {"backslash", "quote"} THEN <<"backslash", s[x[1]]>> \o x[2]
     ELSE <<s[x[1]]>> \o x[2]]

\* What Escape makes of a text from each position on.
Escapes(rest, s) ==
  \A i \in 1..(Len(s) + 2) :
    rest[i] = IF i > Len(s) THEN <<>>
              ELSE IF s[i] \in {"backslash", "quote"} THEN <<"backslash", s[i]>> \o rest[i + 1]
              ELSE <<s[i]>> \o rest[i + 1]

LEMMA EscapeRest ==
  ASSUME NEW s \in Seq(Char)
  PROVE  \E rest : Escapes(rest, s) /\ Escape(s) = rest[1]
<1> DEFINE rest == CHOOSE rest : rest =
             [i \in 1..(Len(s) + 2) |->
                IF i > Len(s) THEN <<>>
                ELSE IF s[i] \in {"backslash", "quote"} THEN <<"backslash", s[i]>> \o rest[i + 1]
                ELSE <<s[i]>> \o rest[i + 1]]
<1>1. Len(s) \in Nat /\ <<>> \in Seq(Char)
  OBVIOUS
<1>2. EscapeStep(s) \in [(1..Len(s)) \X Seq(Char) \X Seq(Char) -> Seq(Char)]
  <2>1. ASSUME NEW i \in 1..Len(s), NEW a \in Seq(Char)
        PROVE  <<s[i]>> \o a \in Seq(Char) /\ <<"backslash", s[i]>> \o a \in Seq(Char)
    <3>1. s[i] \in Char /\ "backslash" \in Char
      BY ElementOfSeq DEF Char
    <3>2. <<s[i]>> \in Seq(Char) /\ <<"backslash", s[i]>> \in Seq(Char)
      BY <3>1
    <3> QED BY <3>2, ConcatProperties
  <2> QED BY <2>1 DEF EscapeStep
<1>3. PICK f : Runs(f, Len(s), Seq(Char), <<>>, EscapeStep(s))
  BY <1>1, <1>2, RunsExists
<1>4. ASSUME NEW i \in 1..Len(s)
      PROVE  f[i] = IF s[i] \in {"backslash", "quote"} THEN <<"backslash", s[i]>> \o f[i + 1]
                    ELSE <<s[i]>> \o f[i + 1]
  <2>0. f \in [1..(Len(s) + 2) -> Seq(Char)] /\ i + 1 \in 1..(Len(s) + 2) /\ i + 2 \in 1..(Len(s) + 2)
    BY <1>1, <1>3 DEF Runs
  <2>1. f[i + 1] \in Seq(Char) /\ f[i + 2] \in Seq(Char)
    BY <2>0
  <2>2. f[i] = EscapeStep(s)[<<i, f[i + 1], f[i + 2]>>]
    BY <1>3 DEF Runs
  <2> QED BY <2>1, <2>2 DEF EscapeStep
<1>5. f = [i \in 1..(Len(s) + 2) |->
             IF i > Len(s) THEN <<>>
             ELSE IF s[i] \in {"backslash", "quote"} THEN <<"backslash", s[i]>> \o f[i + 1]
             ELSE <<s[i]>> \o f[i + 1]]
  <2>1. \A i \in 1..(Len(s) + 2) : i > Len(s) => f[i] = <<>>
    BY <1>1, <1>3 DEF Runs
  <2>2. f = [i \in 1..(Len(s) + 2) |-> f[i]]
    BY <1>1, <1>3 DEF Runs
  <2>3. \A i \in 1..(Len(s) + 2) : ~(i > Len(s)) => i \in 1..Len(s)
    BY <1>1
  <2> QED BY <1>4, <2>1, <2>2, <2>3
<1>6. rest = [i \in 1..(Len(s) + 2) |->
                IF i > Len(s) THEN <<>>
                ELSE IF s[i] \in {"backslash", "quote"} THEN <<"backslash", s[i]>> \o rest[i + 1]
                ELSE <<s[i]>> \o rest[i + 1]]
  BY <1>5, Zenon
<1>7. Escape(s) = rest[1]
  BY Zenon DEF Escape
<1> HIDE DEF rest
<1>8. Escapes(rest, s)
  BY <1>6 DEF Escapes
<1> QED
  BY <1>7, <1>8

-------------------------------------------------------------------------------
\* A text with one more character in front.
LEMMA InFront ==
  ASSUME NEW c \in Char, NEW t \in Seq(Char)
  PROVE  /\ <<c>> \o t \in Seq(Char)
         /\ Len(t) \in Nat /\ Len(<<c>> \o t) = Len(t) + 1
         /\ (<<c>> \o t)[1] = c
         /\ \A i \in 1..Len(t) : (<<c>> \o t)[i + 1] = t[i]
<1>1. <<c>> \in Seq(Char) /\ Len(<<c>>) = 1 /\ <<c>>[1] = c /\ Len(t) \in Nat
  OBVIOUS
<1>2. /\ <<c>> \o t \in Seq(Char)
      /\ Len(<<c>> \o t) = 1 + Len(t)
      /\ \A i \in 1..(1 + Len(t)) :
           (<<c>> \o t)[i] = IF i <= 1 THEN <<c>>[i] ELSE t[i - 1]
  BY <1>1, ConcatProperties
<1> QED
  BY <1>1, <1>2

LEMMA UnquoteShift ==
  ASSUME NEW c \in Char, NEW t \in Seq(Char), NEW rest, NEW tail,
         Unquotes(rest, <<c>> \o t), Unquotes(tail, t)
  PROVE  \A i \in 1..(Len(t) + 2) : rest[i + 1] = tail[i]
<1> DEFINE u == <<c>> \o t
           n == Len(t)
           T == {i \in 1..(n + 2) : rest[i + 1] = tail[i]}
<1>1. n \in Nat /\ Len(u) = n + 1 /\ \A i \in 1..n : u[i + 1] = t[i]
  BY InFront
<1>0. Unquotes(rest, u) /\ Unquotes(tail, t) /\ n = Len(t)
  OBVIOUS
<1> HIDE DEF u, n
<1>2. \A i \in 1..(n + 3) :
        rest[i] = IF i > n + 1 THEN <<>>
                  ELSE IF u[i] = "backslash" /\ i < n + 1 THEN <<u[i + 1]>> \o rest[i + 2]
                  ELSE <<u[i]>> \o rest[i + 1]
  <2>1. Len(u) + 2 = n + 3
    BY <1>1
  <2> QED BY <1>0, <1>1, <2>1 DEF Unquotes
<1>3. \A i \in 1..(n + 2) :
        tail[i] = IF i > n THEN <<>>
                  ELSE IF t[i] = "backslash" /\ i < n THEN <<t[i + 1]>> \o tail[i + 2]
                  ELSE <<t[i]>> \o tail[i + 1]
  BY <1>0 DEF Unquotes
<1>4. n + 1 \in T /\ n + 2 \in T
  <2>1. /\ n + 1 \in 1..(n + 2) /\ n + 1 > n /\ n + 2 \in 1..(n + 2) /\ n + 2 > n
        /\ n + 2 \in 1..(n + 3) /\ n + 2 > n + 1 /\ n + 3 \in 1..(n + 3) /\ n + 3 > n + 1
    BY <1>1
  <2>2. rest[n + 2] = <<>> /\ rest[n + 3] = <<>>
    BY <1>2, <2>1, Zenon
  <2>3. tail[n + 1] = <<>> /\ tail[n + 2] = <<>>
    BY <1>3, <2>1, Zenon
  <2> QED BY <1>1, <2>1, <2>2, <2>3
<1>5. ASSUME NEW i \in 1..n, i + 1 \in T, i + 2 \in T
      PROVE  i \in T
  <2>1. u[i + 1] = t[i] /\ (i < n => u[i + 2] = t[i + 1])
    BY <1>1
  <2>2. rest[i + 1] = IF u[i + 1] = "backslash" /\ i + 1 < n + 1 THEN <<u[i + 2]>> \o rest[i + 3]
                      ELSE <<u[i + 1]>> \o rest[i + 2]
    BY <1>1, <1>2
  <2>3. tail[i] = IF t[i] = "backslash" /\ i < n THEN <<t[i + 1]>> \o tail[i + 2]
                  ELSE <<t[i]>> \o tail[i + 1]
    <3>1. i \in 1..(n + 2) /\ ~(i > n)
      BY <1>1
    <3> QED BY <1>3, <3>1
  <2>4. rest[i + 2] = tail[i + 1] /\ rest[i + 3] = tail[i + 2]
    BY <1>1, <1>5
  <2> QED BY <1>1, <2>1, <2>2, <2>3, <2>4
<1>6. 1..(n + 2) \subseteq T
  BY <1>1, <1>4, <1>5, FromTheEnd
<1> QED
  BY <1>0, <1>6

LEMMA EscapeShift ==
  ASSUME NEW c \in Char, NEW t \in Seq(Char), NEW rest, NEW tail,
         Escapes(rest, <<c>> \o t), Escapes(tail, t)
  PROVE  \A i \in 1..(Len(t) + 2) : rest[i + 1] = tail[i]
<1> DEFINE u == <<c>> \o t
           n == Len(t)
           T == {i \in 1..(n + 2) : rest[i + 1] = tail[i]}
<1>1. n \in Nat /\ Len(u) = n + 1 /\ \A i \in 1..n : u[i + 1] = t[i]
  BY InFront
<1>0. Escapes(rest, u) /\ Escapes(tail, t) /\ n = Len(t)
  OBVIOUS
<1> HIDE DEF u, n
<1>2. \A i \in 1..(n + 3) :
        rest[i] = IF i > n + 1 THEN <<>>
                  ELSE IF u[i] \in {"backslash", "quote"} THEN <<"backslash", u[i]>> \o rest[i + 1]
                  ELSE <<u[i]>> \o rest[i + 1]
  <2>1. Len(u) + 2 = n + 3
    BY <1>1
  <2> QED BY <1>0, <1>1, <2>1 DEF Escapes
<1>3. \A i \in 1..(n + 2) :
        tail[i] = IF i > n THEN <<>>
                  ELSE IF t[i] \in {"backslash", "quote"} THEN <<"backslash", t[i]>> \o tail[i + 1]
                  ELSE <<t[i]>> \o tail[i + 1]
  BY <1>0 DEF Escapes
<1>4. n + 1 \in T /\ n + 2 \in T
  <2>1. /\ n + 1 \in 1..(n + 2) /\ n + 1 > n /\ n + 2 \in 1..(n + 2) /\ n + 2 > n
        /\ n + 2 \in 1..(n + 3) /\ n + 2 > n + 1 /\ n + 3 \in 1..(n + 3) /\ n + 3 > n + 1
    BY <1>1
  <2>2. rest[n + 2] = <<>> /\ rest[n + 3] = <<>>
    BY <1>2, <2>1, Zenon
  <2>3. tail[n + 1] = <<>> /\ tail[n + 2] = <<>>
    BY <1>3, <2>1, Zenon
  <2> QED BY <1>1, <2>1, <2>2, <2>3
<1>5. ASSUME NEW i \in 1..n, i + 1 \in T, i + 2 \in T
      PROVE  i \in T
  <2>1. u[i + 1] = t[i]
    BY <1>1
  <2>2. rest[i + 1] = IF u[i + 1] \in {"backslash", "quote"} THEN <<"backslash", u[i + 1]>> \o rest[i + 2]
                      ELSE <<u[i + 1]>> \o rest[i + 2]
    BY <1>1, <1>2
  <2>3. tail[i] = IF t[i] \in {"backslash", "quote"} THEN <<"backslash", t[i]>> \o tail[i + 1]
                  ELSE <<t[i]>> \o tail[i + 1]
    BY <1>1, <1>3
  <2>4. rest[i + 2] = tail[i + 1]
    BY <1>1, <1>5
  <2> QED BY <1>1, <2>1, <2>2, <2>3, <2>4
<1>6. 1..(n + 2) \subseteq T
  BY <1>1, <1>4, <1>5, FromTheEnd
<1> QED
  BY <1>0, <1>6

\* Unquote and Escape, character by character.
LEMMA UnquoteFirst ==
  ASSUME NEW c \in Char, NEW t \in Seq(Char), c # "backslash"
  PROVE  Unquote(<<c>> \o t) = <<c>> \o Unquote(t)
<1>1. PICK rest : Unquotes(rest, <<c>> \o t) /\ Unquote(<<c>> \o t) = rest[1]
  BY InFront, UnquoteRest
<1>2. PICK tail : Unquotes(tail, t) /\ Unquote(t) = tail[1]
  BY UnquoteRest
<1>3. rest[2] = tail[1]
  <2>1. Len(t) \in Nat /\ 1 \in 1..(Len(t) + 2)
    OBVIOUS
  <2>2. rest[1 + 1] = tail[1]
    BY <1>1, <1>2, <2>1, UnquoteShift
  <2> QED BY <2>2
<1>4. rest[1] = <<c>> \o rest[2]
  <2> DEFINE u == <<c>> \o t
  <2>1. u[1] = c /\ 1 \in 1..(Len(u) + 2) /\ ~(1 > Len(u))
    BY InFront
  <2> HIDE DEF u
  <2>2. Unquotes(rest, u)
    BY <1>1 DEF u
  <2>3. rest[1] = <<u[1]>> \o rest[1 + 1]
    BY <2>1, <2>2 DEF Unquotes
  <2> QED BY <2>1, <2>3
<1> QED
  BY <1>1, <1>2, <1>3, <1>4

LEMMA UnquoteEscaped ==
  ASSUME NEW c \in Char, NEW t \in Seq(Char)
  PROVE  Unquote(<<"backslash">> \o (<<c>> \o t)) = <<c>> \o Unquote(t)
<1> DEFINE v == <<c>> \o t
           u == <<"backslash">> \o v
<1>0. "backslash" \in Char /\ v \in Seq(Char) /\ Len(t) \in Nat /\ Len(v) = Len(t) + 1 /\ v[1] = c
  BY InFront DEF Char
<1>1. u \in Seq(Char) /\ Len(u) = Len(t) + 2 /\ u[1] = "backslash" /\ u[2] = c
  <2>1. /\ u \in Seq(Char) /\ Len(u) = Len(v) + 1 /\ u[1] = "backslash"
        /\ \A i \in 1..Len(v) : u[i + 1] = v[i]
    BY <1>0, InFront
  <2>2. u[1 + 1] = v[1]
    BY <1>0, <2>1
  <2> QED BY <1>0, <2>1, <2>2
<1>2. PICK rest : Unquotes(rest, u) /\ Unquote(u) = rest[1]
  BY <1>1, UnquoteRest
<1>3. PICK mid : Unquotes(mid, v) /\ Unquote(v) = mid[1]
  BY <1>0, UnquoteRest
<1>4. PICK tail : Unquotes(tail, t) /\ Unquote(t) = tail[1]
  BY UnquoteRest
<1>5. rest[2 + 1] = mid[2]
  <2>1. 2 \in 1..(Len(v) + 2)
    BY <1>0
  <2>2. "backslash" \in Char /\ v \in Seq(Char) /\ Unquotes(rest, <<"backslash">> \o v) /\ Unquotes(mid, v)
    BY <1>0, <1>2, <1>3
  <2> HIDE DEF v
  <2> QED BY <2>1, <2>2, UnquoteShift
<1>6. mid[1 + 1] = tail[1]
  <2>1. 1 \in 1..(Len(t) + 2)
    BY <1>0
  <2> QED BY <1>3, <1>4, <2>1, UnquoteShift
<1> HIDE DEF u
<1>7. rest[1] = <<u[1 + 1]>> \o rest[1 + 2]
  <2>1. 1 \in 1..(Len(u) + 2) /\ ~(1 > Len(u)) /\ 1 < Len(u)
    BY <1>0, <1>1
  <2> QED BY <1>1, <1>2, <2>1 DEF Unquotes
<1>8. Unquote(u) = <<c>> \o Unquote(t)
  BY <1>1, <1>2, <1>4, <1>5, <1>6, <1>7
<1> QED
  BY <1>8 DEF u

LEMMA EscapeFirst ==
  ASSUME NEW c \in Char, NEW t \in Seq(Char)
  PROVE  Escape(<<c>> \o t) = IF c \in {"backslash", "quote"} THEN <<"backslash", c>> \o Escape(t)
                              ELSE <<c>> \o Escape(t)
<1>1. PICK rest : Escapes(rest, <<c>> \o t) /\ Escape(<<c>> \o t) = rest[1]
  BY InFront, EscapeRest
<1>2. PICK tail : Escapes(tail, t) /\ Escape(t) = tail[1]
  BY EscapeRest
<1>3. rest[1 + 1] = tail[1]
  <2>1. Len(t) \in Nat /\ 1 \in 1..(Len(t) + 2)
    OBVIOUS
  <2> QED BY <1>1, <1>2, <2>1, EscapeShift
<1> DEFINE u == <<c>> \o t
<1>4. u[1] = c /\ 1 \in 1..(Len(u) + 2) /\ ~(1 > Len(u))
  BY InFront
<1> HIDE DEF u
<1>5. Escapes(rest, u)
  BY <1>1 DEF u
<1>6. rest[1] = IF u[1] \in {"backslash", "quote"} THEN <<"backslash", u[1]>> \o rest[1 + 1]
                ELSE <<u[1]>> \o rest[1 + 1]
  BY <1>4, <1>5 DEF Escapes
<1>7. Escape(<<c>> \o t) = IF c \in {"backslash", "quote"} THEN <<"backslash", c>> \o Escape(t)
                           ELSE <<c>> \o Escape(t)
  <2>1. rest[1] = IF c \in {"backslash", "quote"} THEN <<"backslash", c>> \o tail[1]
                  ELSE <<c>> \o tail[1]
    BY <1>3, <1>4, <1>6
  <2> QED BY <1>1, <1>2, <2>1
<1> QED
  BY <1>7

LEMMA OfNothing == Unquote(<<>>) = <<>> /\ Escape(<<>>) = <<>>
<1>1. <<>> \in Seq(Char) /\ 1 \in 1..(Len(<<>>) + 2) /\ 1 > Len(<<>>)
  OBVIOUS
<1>2. Unquote(<<>>) = <<>>
  <2>1. PICK rest : Unquotes(rest, <<>>) /\ Unquote(<<>>) = rest[1]
    BY <1>1, UnquoteRest
  <2> QED BY <1>1, <2>1, Zenon DEF Unquotes
<1>3. Escape(<<>>) = <<>>
  <2>1. PICK rest : Escapes(rest, <<>>) /\ Escape(<<>>) = rest[1]
    BY <1>1, EscapeRest
  <2> QED BY <1>1, <2>1, Zenon DEF Escapes
<1> QED BY <1>2, <1>3

\* Quoting what Unquote reads gives the text back, which is a text that FindQuote
\* has found the end of.
Lossless(t) == Unquote(t) \in Seq(Char) /\ Escape(Unquote(t)) = t

LEMMA LosslessNothing == Lossless(<<>>)
<1>1. <<>> \in Seq(Char)
  OBVIOUS
<1> QED
  BY <1>1, OfNothing, Zenon DEF Lossless

LEMMA LosslessFirst ==
  ASSUME NEW c \in Char, NEW t \in Seq(Char), c \notin {"backslash", "quote"}, Lossless(t)
  PROVE  Lossless(<<c>> \o t)
<1>1. Unquote(<<c>> \o t) = <<c>> \o Unquote(t)
  BY UnquoteFirst
<1>2. <<c>> \o Unquote(t) \in Seq(Char) /\ Escape(<<c>> \o Unquote(t)) = <<c>> \o t
  BY InFront, EscapeFirst DEF Lossless
<1> QED
  BY <1>1, <1>2 DEF Lossless

LEMMA LosslessEscaped ==
  ASSUME NEW c \in Char, NEW t \in Seq(Char), c \in {"backslash", "quote"}, Lossless(t)
  PROVE  Lossless(<<"backslash">> \o (<<c>> \o t))
<1>1. Unquote(<<"backslash">> \o (<<c>> \o t)) = <<c>> \o Unquote(t)
  BY UnquoteEscaped
<1>2. <<c>> \o Unquote(t) \in Seq(Char) /\ Escape(<<c>> \o Unquote(t)) = <<"backslash", c>> \o t
  BY InFront, EscapeFirst DEF Lossless
<1>3. <<"backslash", c>> \o t = <<"backslash">> \o (<<c>> \o t)
  <2>1. "backslash" \in Char /\ <<"backslash">> \in Seq(Char) /\ <<c>> \in Seq(Char)
    BY DEF Char
  <2>2. <<"backslash">> \o <<c>> = <<"backslash", c>>
    <3> DEFINE two == <<"backslash", c>>
    <3>1. two \in Seq(Char) /\ Len(two) = 2 /\ two[1] = "backslash" /\ two[2] = c
      BY <2>1
    <3>2. Len(<<c>>) = 1 /\ <<c>>[1] = c /\ 1 + 1 = 2
      OBVIOUS
    <3> DEFINE one == <<"backslash">> \o <<c>>
    <3>3. /\ one \in Seq(Char) /\ Len(one) = 2 /\ one[1] = "backslash"
          /\ \A i \in 1..1 : one[i + 1] = <<c>>[i]
      BY <2>1, <3>2, InFront
    <3>4. one[2] = c
      BY <3>2, <3>3
    <3> HIDE DEF one, two
    <3>5. one = two
      BY <3>1, <3>3, <3>4, SeqEqual
    <3> QED BY <3>5 DEF one, two
  <2>3. (<<"backslash">> \o <<c>>) \o t = <<"backslash">> \o (<<c>> \o t)
    BY <2>1, ConcatAssociative
  <2> QED BY <2>2, <2>3
<1> QED
  BY <1>1, <1>2, <1>3 DEF Lossless

LEMMA QuotedText ==
  ASSUME NEW s \in Seq(Char), NEW p \in 1..(Len(s) + 2), NEW e,
         FindQuote(s, p) = e, e \notin {NotFound, Malformed}
  PROVE  e \in p..Len(s) /\ s[e] = "quote" /\ Lossless(SubSeq(s, p, e - 1))
<1> DEFINE n == Len(s)
           T == {i \in 1..(n + 2) :
                   FindQuote(s, i) = e =>
                     e \in i..n /\ s[e] = "quote" /\ Lossless(SubSeq(s, i, e - 1))}
<1>0. n \in Nat
  OBVIOUS
<1>1. n + 1 \in T /\ n + 2 \in T
  <2>1. ASSUME NEW i \in 1..(n + 2), i > n
        PROVE  FindQuote(s, i) # e
    BY <2>1, FindQuoteAt
  <2> QED BY <1>0, <2>1
<1>2. ASSUME NEW i \in 1..n, i + 1 \in T, i + 2 \in T
      PROVE  i \in T
  <2> SUFFICES ASSUME FindQuote(s, i) = e
               PROVE  e \in i..n /\ s[e] = "quote" /\ Lossless(SubSeq(s, i, e - 1))
    BY <1>0
  <2>0. i \in 1..(n + 2) /\ ~(i > n) /\ s[i] \in Char /\ \A j \in 1..n : s[j] \in Char
    BY <1>0, ElementOfSeq
  <2>1. e = IF s[i] = "quote" THEN i
            ELSE IF s[i] # "backslash" THEN FindQuote(s, i + 1)
            ELSE IF i < n /\ s[i + 1] \in {"backslash", "quote"} THEN FindQuote(s, i + 2)
            ELSE Malformed
    BY <2>0, FindQuoteAt
  <2>2. CASE s[i] = "quote"
    <3>1. e = i
      BY <2>1, <2>2
    <3>2. SubSeq(s, i, e - 1) = <<>>
      BY <1>0, <3>1, SubSeqEmpty
    <3>3. Lossless(SubSeq(s, i, e - 1))
      BY <3>2, LosslessNothing, Zenon
    <3> QED BY <1>0, <2>2, <3>1, <3>3
  <2>3. CASE s[i] # "quote" /\ s[i] # "backslash"
    <3>1. FindQuote(s, i + 1) = e
      BY <2>1, <2>3
    <3>2. e \in (i + 1)..n /\ s[e] = "quote" /\ Lossless(SubSeq(s, i + 1, e - 1))
      BY <1>2, <3>1
    <3>3. SubSeq(s, i, e - 1) = <<s[i]>> \o SubSeq(s, i + 1, e - 1)
      <4>1. i \in 1..Len(s) /\ e - 1 \in i..Len(s)
        BY <1>0, <3>2
      <4> QED BY <4>1, SubSeqRecursiveFirst
    <3>4. SubSeq(s, i + 1, e - 1) \in Seq(Char)
      <4>1. i + 1 \in Int /\ e - 1 \in Int /\ \A j \in (i + 1)..(e - 1) : s[j] \in Char
        BY <1>0, <2>0, <3>2
      <4> QED BY <4>1, SubSeqProperties
    <3>5. Lossless(SubSeq(s, i, e - 1))
      BY <2>0, <2>3, <3>2, <3>3, <3>4, LosslessFirst
    <3> QED BY <1>0, <3>2, <3>5
  <2>4. CASE s[i] = "backslash"
    <3>1. i < n /\ s[i + 1] \in {"backslash", "quote"} /\ FindQuote(s, i + 2) = e
      BY <2>1, <2>4
    <3>2. e \in (i + 2)..n /\ s[e] = "quote" /\ Lossless(SubSeq(s, i + 2, e - 1))
      BY <1>2, <3>1
    <3>3. SubSeq(s, i, e - 1) = <<"backslash">> \o SubSeq(s, i + 1, e - 1)
      <4>1. i \in 1..Len(s) /\ e - 1 \in i..Len(s)
        BY <1>0, <3>2
      <4> QED BY <2>4, <4>1, SubSeqRecursiveFirst
    <3>4. SubSeq(s, i + 1, e - 1) = <<s[i + 1]>> \o SubSeq(s, i + 2, e - 1)
      <4>1. i + 1 \in 1..Len(s) /\ e - 1 \in (i + 1)..Len(s) /\ (i + 1) + 1 = i + 2
        BY <1>0, <3>1, <3>2
      <4> QED BY <4>1, SubSeqRecursiveFirst
    <3>5. SubSeq(s, i + 2, e - 1) \in Seq(Char)
      <4>1. i + 2 \in Int /\ e - 1 \in Int /\ \A j \in (i + 2)..(e - 1) : s[j] \in Char
        BY <1>0, <2>0, <3>2
      <4> QED BY <4>1, SubSeqProperties
    <3>6. s[i + 1] \in Char
      BY <3>1 DEF Char
    <3>7. Lossless(SubSeq(s, i, e - 1))
      BY <3>1, <3>2, <3>3, <3>4, <3>5, <3>6, LosslessEscaped
    <3> QED BY <1>0, <3>2, <3>7
  <2> QED BY <2>2, <2>3, <2>4
<1>3. 1..(n + 2) \subseteq T
  BY <1>0, <1>1, <1>2, FromTheEnd
<1> QED
  BY <1>3

-------------------------------------------------------------------------------
(* The tokens of a line.                                                   *)

LEMMA MinIsLeast ==
  ASSUME NEW S, S \subseteq Nat, S # {}
  PROVE  Min(S) \in S /\ \A x \in S : Min(S) <= x
  BY NatMin DEF Min

LEMMA FindHit ==
  ASSUME NEW s \in Seq(Char), NEW p \in Nat \ {0}, NEW chars, Find(s, p, chars) # NotFound
  PROVE  Find(s, p, chars) \in p..Len(s)
<1> DEFINE hits == {i \in p..Len(s) : s[i] \in chars}
<1>1. hits # {} /\ Find(s, p, chars) = Min(hits)
  BY DEF Find
<1>2. hits \subseteq Nat
  OBVIOUS
<1>3. Min(hits) \in hits
  BY <1>1, <1>2, MinIsLeast
<1> QED
  BY <1>1, <1>3

LEMMA SpaceSkipped ==
  ASSUME NEW s \in Seq(Char), NEW p \in 1..(Len(s) + 1)
  PROVE  /\ SkipSpace(s, p) \in p..(Len(s) + 1)
         /\ SkipSpace(s, p) <= Len(s) => s[SkipSpace(s, p)] # "space"
         /\ \A i \in p..Len(s) : i < SkipSpace(s, p) => s[i] = "space"
<1> DEFINE hits == {i \in p..Len(s) : s[i] # "space"}
<1>0. Len(s) \in Nat
  OBVIOUS
<1>1. CASE hits = {}
  <2>1. SkipSpace(s, p) = Len(s) + 1
    BY <1>1 DEF SkipSpace
  <2> QED BY <1>0, <1>1, <2>1
<1>2. CASE hits # {}
  <2>1. SkipSpace(s, p) = Min(hits)
    BY <1>2 DEF SkipSpace
  <2>2. hits \subseteq Nat
    OBVIOUS
  <2>3. Min(hits) \in hits /\ \A x \in hits : Min(hits) <= x
    BY <1>2, <2>2, MinIsLeast
  <2>4. ASSUME NEW i \in p..Len(s), i < Min(hits)
        PROVE  s[i] = "space"
    BY <1>0, <2>3, <2>4
  <2> HIDE DEF hits
  <2>5. Min(hits) \in p..Len(s) /\ s[Min(hits)] # "space"
    BY <2>3 DEF hits
  <2> QED BY <1>0, <2>1, <2>4, <2>5
<1> QED
  BY <1>1, <1>2

\* The scan is always at a character that starts a token, or at the end, past all
\* tokens; and where a quoted text ends is where FindQuote found its quote.
Scanned ==
  /\ input \in Seq(Char)
  /\ tokens \in Seq(Token)
  /\ stage \in {"tokenizing", "tokenized", "done"}
  /\ first \in 1..(Len(input) + 1)
  /\ first <= Len(input) => input[first] # "space"
  /\ TokensTile
  /\ stage = "tokenizing" => \A i \in DOMAIN tokens : UpTo(tokens[i]) < first
  /\ \A i \in DOMAIN tokens :
       tokens[i].kind = "quote" => FindQuote(input, tokens[i].from) = tokens[i].to + 1

LEMMA TokenBounds ==
  ASSUME NEW t \in Token
  PROVE  From(t) \in Nat /\ UpTo(t) \in Nat
  BY DEF Token, From, UpTo

\* One more token, from where the scan is, with nothing but spaces after it up to
\* where the scan goes on.
LEMMA TokenAdded ==
  ASSUME Scanned, stage = "tokenizing", first <= Len(input), NEW t \in Token,
         input' = input, tokens' = Append(tokens, t),
         From(t) = first, t.from <= t.to + 1, UpTo(t) <= Len(input),
         t.kind = "quote" => FindQuote(input, t.from) = t.to + 1,
         stage' \in {"tokenizing", "tokenized"},
         first' \in 1..(Len(input) + 1),
         first' <= Len(input) => input[first'] # "space",
         stage' = "tokenizing" => UpTo(t) < first',
         \A p \in 1..Len(input) :
           (p < first' \/ stage' = "tokenized") /\ p > UpTo(t) => input[p] = "space"
  PROVE  Scanned'
<1> DEFINE n == Len(tokens)
<1>0. /\ n \in Nat /\ DOMAIN tokens = 1..n /\ first \in Nat /\ Len(input) \in Nat
      /\ From(t) \in Nat /\ UpTo(t) \in Nat
      /\ \A i \in 1..n : tokens[i] \in Token
  BY TokenBounds DEF Scanned
<1>1. /\ tokens' \in Seq(Token) /\ DOMAIN tokens' = 1..(n + 1)
      /\ tokens'[n + 1] = t
      /\ \A i \in 1..n : tokens'[i] = tokens[i]
  <2>1. /\ tokens' \in Seq(Token) /\ Len(tokens') = n + 1 /\ tokens'[n + 1] = t
        /\ \A i \in 1..n : tokens'[i] = tokens[i]
    BY AppendProperties DEF Scanned
  <2> QED BY <2>1
<1>2. \A i \in 1..(n + 1) : i \in 1..n \/ i = n + 1
  BY <1>0
<1>3. \A i \in 1..n : UpTo(tokens[i]) < first
  BY <1>0 DEF Scanned
<1>4. \A i \in 1..n : /\ 1 <= From(tokens[i])
                      /\ tokens[i].from <= tokens[i].to + 1
                      /\ UpTo(tokens[i]) <= Len(input)
  BY <1>0 DEF Scanned, TokensTile
<1> HIDE DEF n
<1>5. \A i \in DOMAIN tokens' : /\ 1 <= From(tokens'[i])
                                /\ tokens'[i].from <= tokens'[i].to + 1
                                /\ UpTo(tokens'[i]) <= Len(input)
  <2>1. 1 <= From(t)
    BY DEF Scanned
  <2> QED BY <1>1, <1>2, <1>4, <2>1
<1>6. ASSUME NEW i \in DOMAIN tokens', NEW j \in DOMAIN tokens', i < j
      PROVE  UpTo(tokens'[i]) < From(tokens'[j])
  <2>1. i \in 1..n /\ tokens'[i] = tokens[i]
    BY <1>0, <1>1, <1>6
  <2>2. CASE j \in 1..n
    <3>1. UpTo(tokens[i]) < From(tokens[j])
      BY <1>0, <1>6, <2>1, <2>2 DEF Scanned, TokensTile
    <3> QED BY <1>1, <2>1, <2>2, <3>1
  <2>3. CASE j = n + 1
    BY <1>1, <1>3, <2>1, <2>3
  <2> QED BY <1>1, <1>2, <2>2, <2>3
<1>7. ASSUME NEW p \in 1..Len(input), p < first' \/ stage' = "tokenized", input[p] # "space"
      PROVE  \E i \in DOMAIN tokens' : p \in From(tokens'[i])..UpTo(tokens'[i])
  <2>1. CASE p < first
    <3>1. PICK i \in 1..n : p \in From(tokens[i])..UpTo(tokens[i])
      BY <1>0, <1>7, <2>1 DEF Scanned, TokensTile
    <3>2. i \in DOMAIN tokens' /\ tokens'[i] = tokens[i]
      BY <1>0, <1>1
    <3> QED BY <3>1, <3>2
  <2>2. CASE ~(p < first)
    <3>1. ~(p > UpTo(t))
      BY <1>7
    <3>2. p \in From(t)..UpTo(t)
      BY <1>0, <2>2, <3>1
    <3>3. n + 1 \in DOMAIN tokens'
      BY <1>0, <1>1
    <3> QED BY <1>1, <3>2, <3>3
  <2> QED BY <2>1, <2>2
<1>8. TokensTile'
  BY <1>5, <1>6, <1>7 DEF TokensTile
<1>9. ASSUME stage' = "tokenizing", NEW i \in DOMAIN tokens'
      PROVE  UpTo(tokens'[i]) < first'
  <2>1. CASE i = n + 1
    BY <1>1, <1>9, <2>1
  <2>2. CASE i \in 1..n
    <3>1. first <= first'
      <4>1. first - 1 <= UpTo(t)
        BY <1>0 DEF Token, From, UpTo
      <4> QED BY <1>0, <1>9, <4>1
    <3>2. UpTo(tokens[i]) \in Nat /\ first' \in Nat
      BY <1>0, <2>2, TokenBounds
    <3> QED BY <1>0, <1>1, <1>3, <2>2, <3>1, <3>2
  <2> QED BY <1>1, <1>2, <2>1, <2>2
<1>10. ASSUME NEW i \in DOMAIN tokens', tokens'[i].kind = "quote"
       PROVE  FindQuote(input, tokens'[i].from) = tokens'[i].to + 1
  <2>1. CASE i = n + 1
    BY <1>1, <1>10, <2>1
  <2>2. CASE i \in 1..n
    BY <1>0, <1>1, <1>10, <2>2 DEF Scanned
  <2> QED BY <1>1, <1>2, <2>1, <2>2
<1>11. input' \in Seq(Char) /\ stage' \in {"tokenizing", "tokenized", "done"}
  BY DEF Scanned
<1> QED
  BY <1>1, <1>8, <1>9, <1>10, <1>11 DEF Scanned

\* The same for a token after which the loop goes on behind l.
LEMMA PushScanned ==
  ASSUME Scanned, stage = "tokenizing", first <= Len(input), NEW kind, NEW from, NEW to, NEW l,
         Push(kind, from, to, l),
         [kind |-> kind, from |-> from, to |-> to] \in Token,
         From([kind |-> kind, from |-> from, to |-> to]) = first, from <= to + 1,
         l \in first..Len(input),
         UpTo([kind |-> kind, from |-> from, to |-> to]) <= l,
         kind = "quote" => FindQuote(input, from) = to + 1,
         \A p \in 1..l : p > UpTo([kind |-> kind, from |-> from, to |-> to]) => input[p] = "space"
  PROVE  Scanned'
<1> DEFINE t == [kind |-> kind, from |-> from, to |-> to]
<1>1. /\ input \in Seq(Char) /\ Len(input) \in Nat /\ first \in Nat \ {0} /\ UpTo(t) \in Nat
      /\ l + 1 \in 1..(Len(input) + 1)
  BY TokenBounds DEF Scanned
<1>2. /\ input' = input /\ stage' = "tokenizing" /\ tokens' = Append(tokens, t)
      /\ first' = SkipSpace(input, l + 1)
  BY DEF Push
<1>3. /\ first' \in (l + 1)..(Len(input) + 1)
      /\ first' <= Len(input) => input[first'] # "space"
      /\ \A i \in (l + 1)..Len(input) : i < first' => input[i] = "space"
  BY <1>1, <1>2, SpaceSkipped
<1>4. t.kind = kind /\ t.from = from /\ t.to = to
  OBVIOUS
<1>5. t \in Token /\ From(t) = first /\ UpTo(t) <= l /\ \A p \in 1..l : p > UpTo(t) => input[p] = "space"
  OBVIOUS
<1> HIDE DEF t
<1>6. ASSUME NEW p \in 1..Len(input), p < first', p > UpTo(t)
      PROVE  input[p] = "space"
  BY <1>1, <1>3, <1>5, <1>6
<1>7. UpTo(t) <= Len(input) /\ UpTo(t) < first' /\ first' \in 1..(Len(input) + 1)
  BY <1>1, <1>3, <1>5
<1> QED
  BY <1>2, <1>3, <1>4, <1>5, <1>6, <1>7, TokenAdded

LEMMA PushRestScanned ==
  ASSUME Scanned, stage = "tokenizing", first <= Len(input), NEW kind, NEW from,
         PushRest(kind, from), kind \in {"hash", "semicolon", "text"},
         from = IF kind = "text" THEN first ELSE first + 1
  PROVE  Scanned'
<1> DEFINE t == [kind |-> kind, from |-> from, to |-> Len(input)]
<1>1. /\ Len(input) \in Nat /\ first \in Nat \ {0} /\ first \in 1..(Len(input) + 1)
      /\ input[first] # "space"
  BY DEF Scanned
<1>2. /\ input' = input /\ first' = first /\ stage' = "tokenized" /\ tokens' = Append(tokens, t)
  BY DEF PushRest
<1>3. t \in Token /\ From(t) = first /\ UpTo(t) = Len(input)
  BY <1>1 DEF Token, From, UpTo
<1>4. t.from <= t.to + 1 /\ t.kind # "quote"
  BY <1>1
<1> HIDE DEF t
<1>5. \A p \in 1..Len(input) : ~(p > UpTo(t))
  BY <1>1, <1>3
<1>6. UpTo(t) <= Len(input)
  BY <1>1, <1>3
<1> QED
  BY <1>1, <1>2, <1>3, <1>4, <1>5, <1>6, TokenAdded

LEMMA ScanningFacts ==
  ASSUME Scanned, NEW chars, Scanning(chars)
  PROVE  /\ stage = "tokenizing" /\ first <= Len(input) /\ first \in 1..Len(input)
         /\ input \in Seq(Char) /\ Len(input) \in Nat
         /\ input[first] \in chars
  BY DEF Scanned, Scanning

\* Nothing changes but the stage and the outcome.
LEMMA SameTokens ==
  ASSUME Scanned, UNCHANGED <<input, first, tokens>>, stage' \in {"tokenized", "done"},
         stage' = "tokenized" => stage # "done" /\ (stage = "tokenized" \/ first > Len(input))
  PROVE  Scanned'
<1>1. TokensTile'
  <2>1. \A p \in 1..Len(input) : p < first' \/ stage' = "tokenized" => p < first \/ stage = "tokenized"
    BY DEF Scanned
  <2> QED BY <2>1 DEF Scanned, TokensTile
<1> QED
  BY <1>1 DEF Scanned

LEMMA QuotedScanned == ASSUME Scanned, Quoted PROVE Scanned'
<1> DEFINE end == FindQuote(input, first + 1)
<1>1. /\ stage = "tokenizing" /\ first <= Len(input) /\ first \in 1..Len(input)
      /\ input \in Seq(Char) /\ Len(input) \in Nat
  BY ScanningFacts DEF Quoted
<1>2. CASE end \in {NotFound, Malformed}
  <2>1. Throw
    BY <1>2 DEF Quoted
  <2> QED BY <2>1, SameTokens DEF Throw
<1>3. CASE end \notin {NotFound, Malformed}
  <2>1. Push("quote", first + 1, end - 1, end)
    BY <1>3 DEF Quoted
  <2>2. first + 1 \in 1..(Len(input) + 2)
    BY <1>1
  <2>3. end \in (first + 1)..Len(input)
    BY <1>1, <1>3, <2>2, QuotedText
  <2>4. FindQuote(input, first + 1) = (end - 1) + 1
    BY <1>1, <2>3
  <2> HIDE DEF end
  <2> DEFINE t == [kind |-> "quote", from |-> first + 1, to |-> end - 1]
  <2>5. t \in Token /\ From(t) = first /\ UpTo(t) = end
    BY <1>1, <2>3 DEF Token, From, UpTo
  <2>6. \A p \in 1..end : ~(p > UpTo(t))
    BY <1>1, <2>3, <2>5
  <2>7. end \in first..Len(input) /\ UpTo(t) <= end /\ first + 1 <= (end - 1) + 1
    BY <1>1, <2>3, <2>5
  <2> QED
    BY <1>1, <2>1, <2>4, <2>5, <2>6, <2>7, PushScanned
<1> QED
  BY <1>2, <1>3

LEMMA IncludeScanned == ASSUME Scanned, IncludeWord PROVE Scanned'
<1>1. /\ stage = "tokenizing" /\ first <= Len(input) /\ first \in 1..Len(input)
      /\ input \in Seq(Char) /\ Len(input) \in Nat
  BY ScanningFacts DEF IncludeWord
<1>2. first + 1 <= Len(input) /\ Push("include", first + 1, first + 1, first + 1)
  BY <1>1 DEF IncludeWord, IsInclude
<1> DEFINE t == [kind |-> "include", from |-> first + 1, to |-> first + 1]
<1>3. t \in Token /\ From(t) = first /\ UpTo(t) = first + 1
  BY <1>1 DEF Token, From, UpTo
<1>4. \A p \in 1..(first + 1) : ~(p > UpTo(t))
  BY <1>1, <1>3
<1>5. first + 1 \in first..Len(input) /\ UpTo(t) <= first + 1 /\ first + 1 <= (first + 1) + 1
  BY <1>1, <1>2, <1>3
<1> QED
  BY <1>1, <1>2, <1>3, <1>4, <1>5, PushScanned

LEMMA CommentScanned == ASSUME Scanned, CommentTail PROVE Scanned'
<1>1. /\ stage = "tokenizing" /\ first <= Len(input)
      /\ input[first] \in {"hash", "semicolon"} /\ PushRest(input[first], first + 1)
  BY ScanningFacts DEF CommentTail, Comment
<1> QED
  BY <1>1, PushRestScanned

LEMMA EqualsScanned == ASSUME Scanned, Equals PROVE Scanned'
<1>1. /\ stage = "tokenizing" /\ first <= Len(input) /\ first \in 1..Len(input)
      /\ input \in Seq(Char) /\ Len(input) \in Nat
  BY ScanningFacts DEF Equals
<1>2. Push("equals", first, first, first)
  BY DEF Equals
<1> DEFINE t == [kind |-> "equals", from |-> first, to |-> first]
<1>3. t \in Token /\ From(t) = first /\ UpTo(t) = first
  BY <1>1 DEF Token, From, UpTo
<1>4. \A p \in 1..first : ~(p > UpTo(t))
  BY <1>1, <1>3
<1>5. first \in first..Len(input) /\ UpTo(t) <= first /\ first <= first + 1
  BY <1>1, <1>3
<1> QED
  BY <1>1, <1>2, <1>3, <1>4, <1>5, PushScanned

LEMMA SectionScanned == ASSUME Scanned, Section PROVE Scanned'
<1> DEFINE end == Find(input, first + 1, {"close"})
<1>1. /\ stage = "tokenizing" /\ first <= Len(input) /\ first \in 1..Len(input)
      /\ input \in Seq(Char) /\ Len(input) \in Nat
  BY ScanningFacts DEF Section
<1>2. CASE end = NotFound \/ last = Len(input)
  <2>1. Throw
    BY <1>2 DEF Section
  <2> QED BY <2>1, SameTokens DEF Throw
<1>3. CASE ~(end = NotFound \/ last = Len(input))
  <2>1. Push("open", first + 1, end - 1, end)
    BY <1>3 DEF Section
  <2>2. end \in (first + 1)..Len(input)
    BY <1>1, <1>3, FindHit
  <2> HIDE DEF end
  <2> DEFINE t == [kind |-> "open", from |-> first + 1, to |-> end - 1]
  <2>3. t \in Token /\ From(t) = first /\ UpTo(t) = end
    BY <1>1, <2>2 DEF Token, From, UpTo
  <2>4. \A p \in 1..end : ~(p > UpTo(t))
    BY <1>1, <2>2, <2>3
  <2>5. end \in first..Len(input) /\ UpTo(t) <= end /\ first + 1 <= (end - 1) + 1
    BY <1>1, <2>2, <2>3
  <2> QED
    BY <1>1, <2>1, <2>3, <2>4, <2>5, PushScanned
<1> QED
  BY <1>2, <1>3

LEMMA TextScanned == ASSUME Scanned, Text PROVE Scanned'
<1> DEFINE end == Find(input, first + 1, IF tokens = <<>> THEN Delimiters ELSE Comment)
<1>1. /\ stage = "tokenizing" /\ first <= Len(input) /\ first \in 1..Len(input)
      /\ input \in Seq(Char) /\ Len(input) \in Nat
  BY ScanningFacts DEF Text
<1>2. CASE end = NotFound \/ last = Len(input)
  <2>1. PushRest("text", first)
    BY <1>2 DEF Text
  <2> QED BY <1>1, <2>1, PushRestScanned
<1>3. CASE ~(end = NotFound \/ last = Len(input))
  <2> DEFINE l == IF input[end] = "space" THEN end ELSE end - 1
  <2>1. Push("text", first, end - 1, l)
    BY <1>3 DEF Text
  <2>2. end \in (first + 1)..Len(input)
    BY <1>1, <1>3, FindHit
  <2> HIDE DEF end
  <2> DEFINE t == [kind |-> "text", from |-> first, to |-> end - 1]
  <2>3. t \in Token /\ From(t) = first /\ UpTo(t) = end - 1
    BY <1>1, <2>2 DEF Token, From, UpTo
  <2>4. ASSUME NEW p \in 1..l, p > UpTo(t)
        PROVE  input[p] = "space"
    BY <1>1, <2>2, <2>3, <2>4
  <2>5. l \in first..Len(input) /\ UpTo(t) <= l /\ first <= (end - 1) + 1
    BY <1>1, <2>2, <2>3
  <2> HIDE DEF l
  <2> QED
    BY <1>1, <2>1, <2>3, <2>4, <2>5, PushScanned
<1> QED
  BY <1>2, <1>3

LEMMA ScannedInit == LineInit => Scanned
<1> SUFFICES ASSUME LineInit PROVE Scanned
  OBVIOUS
<1>1. input \in Seq(Char) /\ Len(input) \in Nat /\ 1 \in 1..(Len(input) + 1)
  BY InputsAssumption DEF LineInit
<1>2. /\ first \in 1..(Len(input) + 1)
      /\ first <= Len(input) => input[first] # "space"
      /\ \A i \in 1..Len(input) : i < first => input[i] = "space"
  BY <1>1, SpaceSkipped DEF LineInit
<1>3. tokens = <<>> /\ tokens \in Seq(Token) /\ DOMAIN tokens = {} /\ stage = "tokenizing"
  BY DEF LineInit
<1> QED
  BY <1>1, <1>2, <1>3 DEF Scanned, TokensTile

LEMMA ScannedStep == Scanned /\ [LineNext]_lineVars => Scanned'
<1> SUFFICES ASSUME Scanned, [LineNext]_lineVars PROVE Scanned'
  OBVIOUS
<1>1. CASE EndOfLine
  BY <1>1, SameTokens DEF EndOfLine
<1>2. CASE Interpret
  BY <1>2, SameTokens DEF Interpret
<1>3. CASE UNCHANGED lineVars
  BY <1>3 DEF lineVars, Scanned, TokensTile
<1> QED
  BY <1>1, <1>2, <1>3, QuotedScanned, IncludeScanned, CommentScanned, EqualsScanned,
     SectionScanned, TextScanned DEF LineNext

\* The tokens of any line are its characters but for spaces between them, each
\* once and in order, whatever the scan stops at (lines 265-313).
THEOREM LineCovered == LineSpec => []TokensTile
<1>1. Scanned => TokensTile
  BY DEF Scanned
<1> QED
  BY <1>1, ScannedInit, ScannedStep, PTL DEF LineSpec

\* What process_quoted_value reads from a quoted text, quoted again, is that text:
\* the assertion of line 56 holds for whatever find_quote has let through.
THEOREM QuotingReadBack == LineSpec => []QuotingLossless
<1>1. Scanned => QuotingLossless
  <2> SUFFICES ASSUME Scanned, NEW i \in DOMAIN tokens, tokens[i].kind = "quote"
               PROVE  Escape(Unquote(TextOf(tokens[i]))) = TextOf(tokens[i])
    BY DEF QuotingLossless
  <2> DEFINE t == tokens[i]
  <2>1. t \in Token /\ t.from \in Nat \ {0} /\ t.to \in Nat
    <3>1. t \in Token
      BY DEF Scanned
    <3> QED BY <3>1 DEF Token
  <2>2. FindQuote(input, t.from) = t.to + 1 /\ t.from <= t.to + 1 /\ t.to + 1 <= Len(input)
    BY DEF Scanned, TokensTile, UpTo
  <2> HIDE DEF t
  <2>3. input \in Seq(Char) /\ Len(input) \in Nat
    BY DEF Scanned
  <2>4. t.from \in 1..(Len(input) + 2) /\ t.to + 1 \notin {NotFound, Malformed}
    BY <2>1, <2>2, <2>3 DEF NotFound, Malformed
  <2>5. Lossless(SubSeq(input, t.from, (t.to + 1) - 1))
    BY <2>2, <2>3, <2>4, QuotedText
  <2>6. (t.to + 1) - 1 = t.to
    BY <2>1
  <2>7. Lossless(SubSeq(input, t.from, t.to))
    BY <2>5, <2>6
  <2>8. Escape(Unquote(TextOf(t))) = TextOf(t)
    BY <2>7 DEF Lossless, TextOf
  <2> QED BY <2>8 DEF t
<1> QED
  BY <1>1, ScannedInit, ScannedStep, PTL DEF LineSpec

-------------------------------------------------------------------------------
(* What a line means.  First what the scan's helpers find and read; then   *)
(* what the format says of a line from its start on, as a function of the  *)
(* tokens up to where the scan has stopped; last, that operator() makes    *)
(* the same of them.                                                       *)

\* The space behind p ends where the first other character is.
LEMMA SolidIs ==
  ASSUME NEW s \in Seq(Char), NEW p \in 1..(Len(s) + 1), NEW q \in p..(Len(s) + 1),
         q <= Len(s) => s[q] # "space", \A i \in p..(q - 1) : s[i] = "space"
  PROVE  SkipSpace(s, p) = q
<1> DEFINE k == SkipSpace(s, p)
<1>1. /\ k \in p..(Len(s) + 1) /\ (k <= Len(s) => s[k] # "space")
      /\ \A i \in p..Len(s) : i < k => s[i] = "space"
  BY SpaceSkipped
<1> HIDE DEF k
<1>2. ~(q < k)
  BY <1>1
<1>3. ~(k < q)
  BY <1>1
<1>4. k = q
  BY <1>1, <1>2, <1>3
<1> QED
  BY <1>4 DEF k

\* What Find has found, or that there is nothing to find.
LEMMA FindMeans ==
  ASSUME NEW s \in Seq(Char), NEW p \in Nat \ {0}, NEW chars
  PROVE  \/ /\ Find(s, p, chars) \in p..Len(s) /\ s[Find(s, p, chars)] \in chars
            /\ \A i \in p..Len(s) : i < Find(s, p, chars) => s[i] \notin chars
         \/ /\ Find(s, p, chars) = NotFound
            /\ \A i \in p..Len(s) : s[i] \notin chars
<1> DEFINE hits == {i \in p..Len(s) : s[i] \in chars}
<1>1. CASE hits = {}
  BY <1>1 DEF Find
<1>2. CASE hits # {}
  <2>1. Find(s, p, chars) = Min(hits)
    BY <1>2 DEF Find
  <2>2. hits \subseteq Nat
    OBVIOUS
  <2>3. Min(hits) \in hits /\ \A x \in hits : Min(hits) <= x
    BY <1>2, <2>2, MinIsLeast
  <2>4. ASSUME NEW i \in p..Len(s), i < Min(hits)
        PROVE  s[i] \notin chars
    BY <2>3, <2>4
  <2> QED BY <2>1, <2>3, <2>4
<1> QED
  BY <1>1, <1>2

LEMMA UnquoteTyped == ASSUME NEW s \in Seq(Char) PROVE Unquote(s) \in Seq(Char)
<1>1. PICK rest : Unquotes(rest, s) /\ Unquote(s) = rest[1]
  BY UnquoteRest
<1> DEFINE n == Len(s)
           T == {i \in 1..(n + 2) : rest[i] \in Seq(Char)}
<1>2. n \in Nat
  OBVIOUS
<1>3. n + 1 \in T /\ n + 2 \in T
  <2>1. ASSUME NEW i \in 1..(n + 2), i > n
        PROVE  rest[i] = <<>>
    BY <1>1, <2>1 DEF Unquotes
  <2>2. n + 1 \in 1..(n + 2) /\ n + 2 \in 1..(n + 2) /\ n + 1 > n /\ n + 2 > n
    BY <1>2
  <2>3. rest[n + 1] = <<>> /\ rest[n + 2] = <<>>
    BY <2>1, <2>2
  <2>4. <<>> \in Seq(Char)
    OBVIOUS
  <2> QED BY <2>2, <2>3, <2>4, Zenon
<1>4. ASSUME NEW i \in 1..n, i + 1 \in T, i + 2 \in T
      PROVE  i \in T
  <2>1. s[i] \in Char /\ rest[i + 1] \in Seq(Char) /\ rest[i + 2] \in Seq(Char) /\ i \in 1..(n + 2)
    BY <1>2, <1>4, ElementOfSeq
  <2>2. rest[i] = IF s[i] = "backslash" /\ i < n THEN <<s[i + 1]>> \o rest[i + 2]
                  ELSE <<s[i]>> \o rest[i + 1]
    BY <1>1, <1>2, <2>1 DEF Unquotes
  <2>3. i < n => s[i + 1] \in Char
    BY <1>2, ElementOfSeq
  <2>4. rest[i] \in Seq(Char)
    BY <2>1, <2>2, <2>3, InFront
  <2> QED BY <2>1, <2>4
<1> HIDE DEF T
<1>5. 1..(n + 2) \subseteq T
  BY <1>2, <1>3, <1>4, FromTheEnd
<1>6. 1 \in T
  BY <1>2, <1>5
<1> QED
  BY <1>1, <1>6 DEF T

LEMMA EscapeTyped == ASSUME NEW s \in Seq(Char) PROVE Escape(s) \in Seq(Char)
<1>1. PICK rest : Escapes(rest, s) /\ Escape(s) = rest[1]
  BY EscapeRest
<1> DEFINE n == Len(s)
           T == {i \in 1..(n + 2) : rest[i] \in Seq(Char)}
<1>2. n \in Nat /\ "backslash" \in Char
  BY DEF Char
<1>3. n + 1 \in T /\ n + 2 \in T
  <2>1. ASSUME NEW i \in 1..(n + 2), i > n
        PROVE  rest[i] = <<>>
    BY <1>1, <2>1 DEF Escapes
  <2>2. n + 1 \in 1..(n + 2) /\ n + 2 \in 1..(n + 2) /\ n + 1 > n /\ n + 2 > n
    BY <1>2
  <2>3. rest[n + 1] = <<>> /\ rest[n + 2] = <<>>
    BY <2>1, <2>2
  <2>4. <<>> \in Seq(Char)
    OBVIOUS
  <2> QED BY <2>2, <2>3, <2>4, Zenon
<1>4. ASSUME NEW i \in 1..n, i + 1 \in T, i + 2 \in T
      PROVE  i \in T
  <2>1. s[i] \in Char /\ rest[i + 1] \in Seq(Char) /\ i \in 1..(n + 2)
    BY <1>2, <1>4, ElementOfSeq
  <2>2. rest[i] = IF s[i] \in {"backslash", "quote"} THEN <<"backslash", s[i]>> \o rest[i + 1]
                  ELSE <<s[i]>> \o rest[i + 1]
    BY <1>1, <1>2, <2>1 DEF Escapes
  <2>3. <<"backslash", s[i]>> \in Seq(Char) /\ <<s[i]>> \in Seq(Char)
    BY <1>2, <2>1
  <2>4. rest[i] \in Seq(Char)
    BY <2>1, <2>2, <2>3, ConcatProperties
  <2> QED BY <2>1, <2>4
<1> HIDE DEF T
<1>5. 1..(n + 2) \subseteq T
  BY <1>2, <1>3, <1>4, FromTheEnd
<1>6. 1 \in T
  BY <1>2, <1>5
<1> QED
  BY <1>1, <1>6 DEF T

LEMMA TrimSolid ==
  ASSUME NEW w \in Seq(Char), w # <<>>, w[1] # "space", w[Len(w)] # "space"
  PROVE  Trim(w) = w
<1> DEFINE n == Len(w)
           solid == {i \in DOMAIN w : w[i] # "space"}
<1>1. n \in Nat \ {0} /\ DOMAIN w = 1..n
  BY EmptySeq
<1>2. 1 \in solid /\ n \in solid /\ solid \subseteq 1..n
  BY <1>1
<1> HIDE DEF n, solid
<1>3. Min(solid) = 1
  <2>1. solid \subseteq Nat /\ solid # {}
    BY <1>1, <1>2
  <2>2. Min(solid) \in solid /\ \A x \in solid : Min(solid) <= x
    BY <2>1, MinIsLeast
  <2>3. Min(solid) <= 1 /\ Min(solid) \in 1..n
    BY <1>2, <2>2
  <2> QED BY <1>1, <2>3
<1>4. Max(solid) = n
  <2>1. n \in solid /\ \A y \in solid : n >= y
    BY <1>1, <1>2
  <2>2. Max(solid) \in solid /\ \A y \in solid : Max(solid) >= y
    BY <2>1 DEF Max
  <2>3. Max(solid) >= n /\ Max(solid) \in 1..n
    BY <1>2, <2>2
  <2> QED BY <1>1, <2>3
<1>5. Trim(w) = SubSeq(w, 1, n)
  BY <1>2, <1>3, <1>4 DEF Trim, solid
<1> QED
  BY <1>5, SubSeqFull DEF n

\* The same first character in front of two texts.
LEMMA FrontCancel ==
  ASSUME NEW c, NEW d, NEW t \in Seq(Char), NEW u \in Seq(Char), c \in Char, d \in Char,
         <<c>> \o t = <<d>> \o u
  PROVE  c = d /\ t = u
<1> DEFINE a == <<c>> \o t
           b == <<d>> \o u
<1>1. /\ Len(a) = Len(t) + 1 /\ a[1] = c /\ Len(t) \in Nat
      /\ \A i \in 1..Len(t) : a[i + 1] = t[i]
  BY InFront
<1>2. /\ Len(b) = Len(u) + 1 /\ b[1] = d /\ Len(u) \in Nat
      /\ \A i \in 1..Len(u) : b[i + 1] = u[i]
  BY InFront
<1>3. a = b
  OBVIOUS
<1> HIDE DEF a, b
<1>4. Len(t) = Len(u) /\ c = d
  BY <1>1, <1>2, <1>3
<1>5. \A i \in 1..Len(t) : t[i] = u[i]
  BY <1>1, <1>2, <1>3, <1>4
<1>6. t = u
  BY <1>4, <1>5, SeqEqual
<1> QED
  BY <1>4, <1>6

LEMMA TwoInFront ==
  ASSUME NEW c \in Char, NEW d \in Char, NEW t \in Seq(Char)
  PROVE  <<c, d>> \o t = <<c>> \o (<<d>> \o t)
<1>1. <<c>> \in Seq(Char) /\ <<d>> \in Seq(Char)
  OBVIOUS
<1>2. <<c>> \o <<d>> = <<c, d>>
  <2> DEFINE two == <<c, d>>
             joined == <<c>> \o <<d>>
  <2>1. two \in Seq(Char) /\ Len(two) = 2 /\ two[1] = c /\ two[2] = d
    OBVIOUS
  <2>2. Len(<<d>>) = 1 /\ <<d>>[1] = d /\ 1 + 1 = 2
    OBVIOUS
  <2>3. /\ joined \in Seq(Char) /\ Len(joined) = 2 /\ joined[1] = c
        /\ \A i \in 1..1 : joined[i + 1] = <<d>>[i]
    BY <1>1, <2>2, InFront
  <2>4. joined[2] = d
    BY <2>2, <2>3
  <2> HIDE DEF two, joined
  <2>5. joined = two
    BY <2>1, <2>3, <2>4, SeqEqual
  <2> QED BY <2>5 DEF two, joined
<1>3. (<<c>> \o <<d>>) \o t = <<c>> \o (<<d>> \o t)
  BY <1>1, ConcatAssociative
<1> QED BY <1>2, <1>3

\* A text that is the quoting of what it stands for goes on to be one behind its
\* first character, or is a single escape in front of one.
LEMMA LosslessCases ==
  ASSUME NEW c \in Char, NEW t \in Seq(Char), Lossless(<<c>> \o t)
  PROVE  \/ c \notin {"backslash", "quote"} /\ Lossless(t)
         \/ /\ c = "backslash" /\ t # <<>>
            /\ t[1] \in {"backslash", "quote"}
            /\ \A d \in Char, u \in Seq(Char) : t = <<d>> \o u => Lossless(u)
<1> DEFINE w == <<c>> \o t
<1>0. "backslash" \in Char /\ "quote" \in Char
  BY DEF Char
<1>1. CASE c # "backslash"
  <2>1. Unquote(w) = <<c>> \o Unquote(t)
    BY <1>1, UnquoteFirst
  <2>2. Unquote(t) \in Seq(Char) /\ Escape(Unquote(t)) \in Seq(Char)
    BY UnquoteTyped, EscapeTyped
  <2>3. Escape(<<c>> \o Unquote(t)) = <<c>> \o t
    BY <2>1 DEF Lossless
  <2>4. c # "quote"
    <3> SUFFICES ASSUME c = "quote" PROVE FALSE
      OBVIOUS
    <3>1. Escape(<<c>> \o Unquote(t)) = <<"backslash", c>> \o Escape(Unquote(t))
      BY <2>2, EscapeFirst
    <3>2. <<c>> \o t = <<"backslash">> \o (<<c>> \o Escape(Unquote(t)))
      BY <1>0, <2>2, <2>3, <3>1, TwoInFront
    <3>3. <<c>> \o Escape(Unquote(t)) \in Seq(Char)
      BY <2>2, InFront
    <3>4. c = "backslash"
      BY <1>0, <3>2, <3>3, FrontCancel
    <3> QED BY <3>4
  <2>5. Escape(<<c>> \o Unquote(t)) = <<c>> \o Escape(Unquote(t))
    BY <1>1, <2>2, <2>4, EscapeFirst
  <2>6. Escape(Unquote(t)) = t
    BY <2>2, <2>3, <2>5, FrontCancel
  <2> QED BY <1>1, <2>2, <2>4, <2>6 DEF Lossless
<1>2. CASE c = "backslash"
  <2>1. t # <<>>
    <3> SUFFICES ASSUME t = <<>> PROVE FALSE
      OBVIOUS
    <3>1. w \in Seq(Char) /\ Len(w) = 1 /\ w[1] = c
      BY InFront
    <3> HIDE DEF w
    <3>2. PICK rest : Unquotes(rest, w) /\ Unquote(w) = rest[1]
      BY <3>1, UnquoteRest
    <3>3. 1 \in 1..(Len(w) + 2) /\ 2 \in 1..(Len(w) + 2) /\ 2 > Len(w) /\ ~(1 > Len(w)) /\ ~(1 < Len(w))
      BY <3>1
    <3>4. rest[2] = <<>>
      BY <3>2, <3>3 DEF Unquotes
    <3>5. rest[1] = <<c>> \o rest[2]
      <4>1. rest[1] = <<w[1]>> \o rest[1 + 1]
        BY <3>2, <3>3 DEF Unquotes
      <4>2. 1 + 1 = 2
        OBVIOUS
      <4> QED BY <3>1, <4>1, <4>2
    <3>6. <<>> \in Seq(Char)
      OBVIOUS
    <3>7. Unquote(w) = <<c>> \o <<>>
      BY <3>2, <3>4, <3>5, Zenon
    <3>8. Escape(<<c>> \o <<>>) = <<"backslash", c>> \o Escape(<<>>)
      BY <1>2, <3>6, EscapeFirst
    <3>9. Escape(Unquote(w)) = <<"backslash">> \o (<<c>> \o <<>>)
      BY <1>0, <3>6, <3>7, <3>8, OfNothing, TwoInFront
    <3>10. w = <<c>> \o (<<c>> \o <<>>)
      BY <1>2, <3>9 DEF Lossless, w
    <3>11. <<c>> \o <<>> \in Seq(Char) /\ Len(<<c>> \o <<>>) = 1
      BY <3>6, InFront
    <3>12. Len(w) = 2
      BY <3>10, <3>11, InFront
    <3> QED BY <3>1, <3>12
  <2>2. t[1] \in Char /\ Tail(t) \in Seq(Char) /\ t = <<t[1]>> \o Tail(t)
    <3>1. t[1] \in Char /\ Tail(t) \in Seq(Char)
      BY <2>1
    <3>2. t = <<Head(t)>> \o Tail(t)
      BY <2>1
    <3> QED BY <3>1, <3>2
  <2>3. ASSUME NEW d \in Char, NEW u \in Seq(Char), t = <<d>> \o u
        PROVE  d \in {"backslash", "quote"} /\ Lossless(u)
    <3>1. Unquote(w) = <<d>> \o Unquote(u)
      BY <1>2, <2>3, UnquoteEscaped
    <3>2. Unquote(u) \in Seq(Char) /\ Escape(Unquote(u)) \in Seq(Char)
      BY UnquoteTyped, EscapeTyped
    <3>3. Escape(<<d>> \o Unquote(u)) = <<"backslash">> \o t
      BY <1>2, <3>1 DEF Lossless
    <3>4. d \in {"backslash", "quote"}
      <4> SUFFICES ASSUME d \notin {"backslash", "quote"} PROVE FALSE
        OBVIOUS
      <4>1. Escape(<<d>> \o Unquote(u)) = <<d>> \o Escape(Unquote(u))
        BY <3>2, EscapeFirst
      <4>2. d = "backslash"
        BY <1>0, <3>2, <3>3, <4>1, FrontCancel
      <4> QED BY <4>2
    <3>5. Escape(<<d>> \o Unquote(u)) = <<"backslash">> \o (<<d>> \o Escape(Unquote(u)))
      BY <1>0, <3>2, <3>4, EscapeFirst, TwoInFront
    <3>6. <<d>> \o Escape(Unquote(u)) \in Seq(Char)
      BY <3>2, InFront
    <3>7. <<d>> \o Escape(Unquote(u)) = <<d>> \o u
      BY <1>0, <2>3, <3>3, <3>5, <3>6, FrontCancel
    <3>8. Escape(Unquote(u)) = u
      BY <3>2, <3>7, FrontCancel
    <3> QED BY <3>2, <3>4, <3>8 DEF Lossless
  <2>4. t[1] \in {"backslash", "quote"}
    BY <2>2, <2>3
  <2> QED BY <1>2, <2>1, <2>3, <2>4
<1> QED
  BY <1>1, <1>2

\* FindQuote finds the end of every text that is the quoting of what it stands for.
LEMMA QuoteEnds ==
  ASSUME NEW s \in Seq(Char), NEW p \in Nat \ {0}, NEW e \in p..Len(s),
         s[e] = "quote", Lossless(SubSeq(s, p, e - 1))
  PROVE  FindQuote(s, p) = e
<1> DEFINE m == e - 1
           T == {i \in 1..(m + 2) :
                   i <= e /\ Lossless(SubSeq(s, i, e - 1)) => FindQuote(s, i) = e}
<1>0. Len(s) \in Nat /\ m \in Nat /\ e \in 1..Len(s) /\ \A j \in 1..Len(s) : s[j] \in Char
  BY ElementOfSeq
<1>1. m + 1 \in T /\ m + 2 \in T
  <2>1. FindQuote(s, e) = e
    <3>1. e \in 1..(Len(s) + 2) /\ ~(e > Len(s))
      BY <1>0
    <3> QED BY <3>1, FindQuoteAt
  <2> QED BY <1>0, <2>1
<1>2. ASSUME NEW i \in 1..m, i + 1 \in T, i + 2 \in T
      PROVE  i \in T
  <2> SUFFICES ASSUME Lossless(SubSeq(s, i, e - 1)) PROVE FindQuote(s, i) = e
    BY <1>0
  <2> DEFINE t == SubSeq(s, i + 1, e - 1)
  <2>0. /\ i \in 1..(Len(s) + 2) /\ ~(i > Len(s)) /\ i < Len(s) /\ s[i] \in Char
        /\ i + 1 <= e
    BY <1>0
  <2>1. SubSeq(s, i, e - 1) = <<s[i]>> \o t
    <3>1. i \in 1..Len(s) /\ e - 1 \in i..Len(s)
      BY <1>0
    <3> QED BY <3>1, SubSeqRecursiveFirst
  <2>2. t \in Seq(Char) /\ (i + 1 <= e - 1 => t # <<>> /\ t[1] = s[i + 1])
    <3>1. i + 1 \in Int /\ e - 1 \in Int /\ \A j \in (i + 1)..(e - 1) : s[j] \in Char
      BY <1>0
    <3>2. /\ t \in Seq(Char)
          /\ Len(t) = IF i + 1 <= e - 1 THEN (e - 1) - (i + 1) + 1 ELSE 0
          /\ \A k \in 1..((e - 1) - (i + 1) + 1) : t[k] = s[(i + 1) + k - 1]
      BY <3>1, SubSeqProperties
    <3>3. ASSUME i + 1 <= e - 1
          PROVE  t # <<>> /\ t[1] = s[i + 1]
      <4>1. 1 \in 1..((e - 1) - (i + 1) + 1) /\ (i + 1) + 1 - 1 = i + 1
        BY <1>0, <3>3
      <4>2. t[1] = s[i + 1]
        BY <3>2, <4>1
      <4>3. Len(t) # 0
        BY <3>2, <3>3, <4>1
      <4>4. t # <<>>
        BY <4>3
      <4> QED BY <4>2, <4>4
    <3> QED BY <3>2, <3>3
  <2>3. t # <<>> => i + 1 <= e - 1
    BY <1>0, SubSeqEmpty
  <2>4. FindQuote(s, i) = IF s[i] = "quote" THEN i
                          ELSE IF s[i] # "backslash" THEN FindQuote(s, i + 1)
                          ELSE IF s[i + 1] \in {"backslash", "quote"}
                                 THEN FindQuote(s, i + 2)
                          ELSE Malformed
    BY <2>0, FindQuoteAt
  <2> HIDE DEF t
  <2>5. \/ s[i] \notin {"backslash", "quote"} /\ Lossless(t)
        \/ /\ s[i] = "backslash" /\ t # <<>> /\ t[1] \in {"backslash", "quote"}
           /\ \A d \in Char, u \in Seq(Char) : t = <<d>> \o u => Lossless(u)
    BY <2>0, <2>1, <2>2, LosslessCases
  <2>6. CASE s[i] \notin {"backslash", "quote"} /\ Lossless(t)
    <3>1. FindQuote(s, i + 1) = e
      BY <1>2, <2>0, <2>6 DEF t
    <3> QED BY <2>4, <2>6, <3>1
  <2>7. CASE /\ s[i] = "backslash" /\ t # <<>> /\ t[1] \in {"backslash", "quote"}
             /\ \A d \in Char, u \in Seq(Char) : t = <<d>> \o u => Lossless(u)
    <3>1. i + 1 <= e - 1 /\ s[i + 1] \in {"backslash", "quote"} /\ s[i + 1] \in Char
      BY <1>0, <2>2, <2>3, <2>7
    <3>2. t = <<s[i + 1]>> \o SubSeq(s, i + 2, e - 1)
      <4>1. i + 1 \in 1..Len(s) /\ e - 1 \in (i + 1)..Len(s) /\ (i + 1) + 1 = i + 2
        BY <1>0, <3>1
      <4> QED BY <4>1, SubSeqRecursiveFirst DEF t
    <3>3. SubSeq(s, i + 2, e - 1) \in Seq(Char)
      <4>1. i + 2 \in Int /\ e - 1 \in Int /\ \A j \in (i + 2)..(e - 1) : s[j] \in Char
        BY <1>0
      <4> QED BY <4>1, SubSeqProperties
    <3>4. Lossless(SubSeq(s, i + 2, e - 1))
      BY <2>7, <3>1, <3>2, <3>3
    <3>5. FindQuote(s, i + 2) = e
      <4>1. i + 2 <= e
        BY <1>0, <3>1
      <4> QED BY <1>2, <3>4, <4>1
    <3> QED BY <2>4, <2>7, <3>1, <3>5
  <2> QED BY <2>5, <2>6, <2>7
<1> HIDE DEF T
<1>3. 1..(m + 2) \subseteq T
  BY <1>0, <1>1, <1>2, FromTheEnd
<1>4. p \in 1..(m + 2) /\ p <= e
  BY <1>0
<1>5. p \in T
  BY <1>3, <1>4
<1> QED
  BY <1>4, <1>5 DEF T

\* The line has nothing more to say at position p: it is at its end, or at a comment.
AtRest(p) == p > Len(input) \/ input[p] \in Comment

LEMMA RestIs ==
  ASSUME input \in Seq(Char), NEW p \in 1..(Len(input) + 1)
  PROVE  Rest(p) <=> AtRest(SkipSpace(input, p))
<1> DEFINE q == SkipSpace(input, p)
<1>0. Len(input) \in Nat
  OBVIOUS
<1>1. /\ q \in p..(Len(input) + 1) /\ (q <= Len(input) => input[q] # "space")
      /\ \A i \in p..Len(input) : i < q => input[i] = "space"
  BY SpaceSkipped
<1>2. ASSUME Rest(p) PROVE AtRest(q)
  <2>1. PICK j \in p..(Len(input) + 1) :
               Spaces(p, j - 1) /\ (j = Len(input) + 1 \/ input[j] \in Comment)
    BY <1>2 DEF Rest
  <2>2. j <= Len(input) => input[j] # "space"
    BY <1>0, <2>1 DEF Comment
  <2>3. q = j
    BY <2>1, <2>2, SolidIs DEF Spaces
  <2> QED BY <1>0, <2>1, <2>3 DEF AtRest
<1> HIDE DEF q
<1>3. ASSUME AtRest(q) PROVE Rest(p)
  <2>1. Spaces(p, q - 1)
    BY <1>0, <1>1 DEF Spaces
  <2>2. q = Len(input) + 1 \/ input[q] \in Comment
    BY <1>0, <1>1, <1>3 DEF AtRest
  <2> QED BY <1>1, <2>1, <2>2 DEF Rest
<1> QED
  BY <1>2, <1>3 DEF q

\* A quoted text from position g to e, and a bare one that goes on up to one of the
\* characters that end it.
QuotedIn(s, g, e) == g < e /\ s[g] = "quote" /\ FindQuote(s, g + 1) = e
BareIn(s, g, e, ends) ==
  /\ s[g] \notin {"space", "quote", "equals"}
  /\ \A p \in g..e : s[p] \notin ends
  /\ e = Len(s) \/ s[e + 1] \in ends

\* The positions of a token in the line, and those of one that is a key or a value.
Placed(s, t) ==
  /\ t \in Token
  /\ From(t) \in 1..Len(s)
  /\ UpTo(t) \in From(t)..Len(s)
Worded(s, t, ends) ==
  \/ t.kind = "quote" /\ QuotedIn(s, From(t), UpTo(t))
  \/ t.kind = "text" /\ BareIn(s, From(t), UpTo(t), ends)

\* Which quotings the format sees from position g on.
LEMMA QuotedOnce ==
  ASSUME input \in Seq(Char), NEW g \in 1..Len(input), NEW k \in 1..Len(input),
         NEW v, v = Unquote(SubSeq(input, g + 1, k - 1))
  PROVE  QuotedAt(g, k, v) <=> QuotedIn(input, g, k)
<1>0. Len(input) \in Nat /\ \A j \in 1..Len(input) : input[j] \in Char
  BY ElementOfSeq
<1>1. ASSUME QuotedAt(g, k, v) PROVE QuotedIn(input, g, k)
  <2>1. g < k /\ input[g] = "quote" /\ input[k] = "quote" /\ SubSeq(input, g + 1, k - 1) = Escape(v)
    BY <1>1 DEF QuotedAt
  <2>2. SubSeq(input, g + 1, k - 1) \in Seq(Char)
    <3>1. g + 1 \in Int /\ k - 1 \in Int /\ \A j \in (g + 1)..(k - 1) : input[j] \in Char
      BY <1>0
    <3> QED BY <3>1, SubSeqProperties
  <2>3. Lossless(SubSeq(input, g + 1, k - 1))
    BY <2>1, <2>2, UnquoteTyped DEF Lossless
  <2>4. g + 1 \in Nat \ {0} /\ k \in (g + 1)..Len(input)
    BY <1>0, <2>1
  <2>5. FindQuote(input, g + 1) = k
    BY <2>1, <2>3, <2>4, QuoteEnds
  <2> QED BY <2>1, <2>5 DEF QuotedIn
<1>2. ASSUME QuotedIn(input, g, k) PROVE QuotedAt(g, k, v)
  <2>1. g < k /\ input[g] = "quote" /\ FindQuote(input, g + 1) = k
    BY <1>2 DEF QuotedIn
  <2>2. g + 1 \in 1..(Len(input) + 2) /\ k \notin {NotFound, Malformed}
    BY <1>0 DEF NotFound, Malformed
  <2>3. input[k] = "quote" /\ Lossless(SubSeq(input, g + 1, k - 1))
    BY <2>1, <2>2, QuotedText
  <2> QED BY <2>1, <2>3 DEF QuotedAt, Lossless
<1> QED
  BY <1>1, <1>2

\* The one value that the format sees from where a token starts.
LEMMA ValueOnce ==
  ASSUME input \in Seq(Char), NEW t, Placed(input, t), Worded(input, t, Comment),
         NEW k \in 1..Len(input), NEW v
  PROVE  v \in ValueAt(From(t), k) <=> k = UpTo(t) /\ v = ValueOf(t)
<1> DEFINE g == From(t)
           e == UpTo(t)
<1>0. /\ Len(input) \in Nat /\ g \in 1..Len(input) /\ e \in g..Len(input)
      /\ t \in Token /\ t.from \in Nat \ {0} /\ t.to \in Nat
  BY DEF Placed, Token
<1>1. CASE t.kind = "quote"
  <2>1. g = t.from - 1 /\ e = t.to + 1
    BY <1>1 DEF From, UpTo
  <2>2. QuotedIn(input, g, e)
    BY <1>1 DEF Worded
  <2>3. ValueOf(t) = Unquote(SubSeq(input, t.from, t.to))
    BY <1>1 DEF ValueOf, TextOf
  <2>4. ValueOf(t) = Unquote(SubSeq(input, g + 1, e - 1))
    <3>1. t.from = g + 1 /\ t.to = e - 1
      BY <1>0, <2>1
    <3> QED BY <2>3, <3>1
  <2>6. v \in ValueAt(g, k) <=> v = Unquote(SubSeq(input, g + 1, k - 1)) /\ QuotedAt(g, k, v)
    <3>1. ~BareAt(g, k, Comment)
      BY <2>2 DEF BareAt, QuotedIn
    <3> QED BY <3>1 DEF ValueAt
  <2>7. QuotedIn(input, g, k) => k = e
    BY <2>2 DEF QuotedIn
  <2> HIDE DEF g, e
  <2>8. v \in ValueAt(g, k) <=> v = Unquote(SubSeq(input, g + 1, k - 1)) /\ QuotedIn(input, g, k)
    BY <1>0, <2>6, QuotedOnce
  <2>9. v \in ValueAt(g, k) <=> k = e /\ v = ValueOf(t)
    BY <2>2, <2>4, <2>7, <2>8
  <2> QED BY <2>9 DEF g, e
<1>2. CASE t.kind = "text"
  <2>1. g = t.from /\ e = t.to
    BY <1>2 DEF From, UpTo
  <2>2. BareIn(input, g, e, Comment)
    BY <1>2 DEF Worded
  <2>3. ValueOf(t) = Trim(SubSeq(input, g, e))
    BY <1>2, <2>1 DEF ValueOf, TextOf
  <2> HIDE DEF g, e
  <2>4. v \in ValueAt(g, k) <=>
          /\ v = Trim(SubSeq(input, g, k))
          /\ BareAt(g, k, Comment) /\ (k = Len(input) \/ input[k + 1] \in Comment)
    <3>1. ~QuotedAt(g, k, v)
      BY <2>2 DEF QuotedAt, BareIn
    <3> QED BY <3>1 DEF ValueAt
  <2>5. BareAt(g, k, Comment) /\ (k = Len(input) \/ input[k + 1] \in Comment) => k = e
    <3> SUFFICES ASSUME g <= k, \A p \in g..k : input[p] \notin Comment,
                        k = Len(input) \/ input[k + 1] \in Comment
                 PROVE  k = e
      BY DEF BareAt
    <3>1. (\A p \in g..e : input[p] \notin Comment) /\ (e = Len(input) \/ input[e + 1] \in Comment)
      BY <2>2 DEF BareIn
    <3>2. ~(k < e)
      <4>1. k < e => k + 1 \in g..e
        BY <1>0
      <4> QED BY <1>0, <3>1, <4>1
    <3>3. ~(e < k)
      <4>1. e < k => e + 1 \in g..k /\ e # Len(input)
        BY <1>0
      <4> QED BY <1>0, <3>1, <4>1
    <3> QED BY <1>0, <3>2, <3>3
  <2>6. BareAt(g, e, Comment) /\ (e = Len(input) \/ input[e + 1] \in Comment)
    BY <1>0, <2>2 DEF BareAt, BareIn
  <2>7. v \in ValueAt(g, k) <=> k = e /\ v = ValueOf(t)
    BY <2>3, <2>4, <2>5, <2>6
  <2> QED BY <2>7 DEF g, e
<1> QED
  BY <1>1, <1>2 DEF Worded

\* A character that starts no value.
LEMMA NoValue ==
  ASSUME input \in Seq(Char), NEW g \in 1..Len(input),
         \/ input[g] \in {"space", "equals"} \cup Comment
         \/ input[g] = "quote" /\ FindQuote(input, g + 1) \in {NotFound, Malformed},
         NEW k \in 1..Len(input), NEW v
  PROVE  v \notin ValueAt(g, k)
<1>1. ~BareAt(g, k, Comment)
  <2> SUFFICES ASSUME BareAt(g, k, Comment) PROVE FALSE
    OBVIOUS
  <2>1. g \in g..k
    BY DEF BareAt
  <2> QED BY <2>1 DEF BareAt
<1>2. ~(v = Unquote(SubSeq(input, g + 1, k - 1)) /\ QuotedAt(g, k, v))
  <2> SUFFICES ASSUME v = Unquote(SubSeq(input, g + 1, k - 1)), QuotedAt(g, k, v) PROVE FALSE
    OBVIOUS
  <2>1. QuotedIn(input, g, k)
    BY QuotedOnce
  <2>2. k \notin {NotFound, Malformed}
    BY DEF NotFound, Malformed
  <2> QED BY <2>1, <2>2 DEF QuotedIn, Comment
<1> QED
  BY <1>1, <1>2 DEF ValueAt

\* The values behind position i start at the first character that is no space.
LEMMA ValuesAfterAre ==
  ASSUME input \in Seq(Char), NEW i \in 0..Len(input), NEW q, q = SkipSpace(input, i + 1), NEW v
  PROVE  v \in ValuesAfter(i) <=>
           q <= Len(input) /\ \E k \in 1..Len(input) : Rest(k + 1) /\ v \in ValueAt(q, k)
<1>0. Len(input) \in Nat /\ i + 1 \in 1..(Len(input) + 1)
  OBVIOUS
<1>1. /\ q \in (i + 1)..(Len(input) + 1) /\ (q <= Len(input) => input[q] # "space")
      /\ \A j \in (i + 1)..Len(input) : j < q => input[j] = "space"
  BY <1>0, SpaceSkipped
<1>2. ASSUME v \in ValuesAfter(i)
      PROVE  q <= Len(input) /\ \E k \in 1..Len(input) : Rest(k + 1) /\ v \in ValueAt(q, k)
  <2>1. PICK j \in (i + 1)..Len(input), k \in (i + 1)..Len(input) :
               Spaces(i + 1, j - 1) /\ Rest(k + 1) /\ v \in ValueAt(j, k)
    BY <1>2 DEF ValuesAfter
  <2>2. k \in 1..Len(input) /\ j \in 1..Len(input)
    BY <1>0
  <2>3. input[j] # "space"
    BY <2>1, <2>2, NoValue
  <2>4. q = j
    BY <1>0, <2>1, <2>3, SolidIs DEF Spaces
  <2> QED BY <2>1, <2>2, <2>4
<1>3. ASSUME q <= Len(input), NEW k \in 1..Len(input), Rest(k + 1), v \in ValueAt(q, k)
      PROVE  v \in ValuesAfter(i)
  <2>1. q <= k
    BY <1>0, <1>1, <1>3 DEF ValueAt, QuotedAt, BareAt
  <2>2. q \in (i + 1)..Len(input) /\ k \in (i + 1)..Len(input)
    BY <1>0, <1>1, <1>3, <2>1
  <2>3. Spaces(i + 1, q - 1)
    BY <1>0, <1>1, <1>3 DEF Spaces
  <2> QED BY <1>3, <2>2, <2>3 DEF ValuesAfter
<1> QED
  BY <1>2, <1>3

LEMMA ValuesOfToken ==
  ASSUME input \in Seq(Char), NEW i \in 0..Len(input), NEW t, Placed(input, t),
         Worded(input, t, Comment), From(t) = SkipSpace(input, i + 1)
  PROVE  ValuesAfter(i) = IF AtRest(SkipSpace(input, UpTo(t) + 1)) THEN {ValueOf(t)} ELSE {}
<1>1. /\ Len(input) \in Nat /\ UpTo(t) \in 1..Len(input) /\ UpTo(t) + 1 \in 1..(Len(input) + 1)
      /\ From(t) <= Len(input)
  BY DEF Placed
<1>2. Rest(UpTo(t) + 1) <=> AtRest(SkipSpace(input, UpTo(t) + 1))
  BY <1>1, RestIs
<1>3. ASSUME NEW v
      PROVE  v \in ValuesAfter(i) <=> v = ValueOf(t) /\ Rest(UpTo(t) + 1)
  <2>1. v \in ValuesAfter(i) <=> \E k \in 1..Len(input) : Rest(k + 1) /\ v \in ValueAt(From(t), k)
    BY <1>1, ValuesAfterAre
  <2>2. \A k \in 1..Len(input) : v \in ValueAt(From(t), k) <=> k = UpTo(t) /\ v = ValueOf(t)
    BY ValueOnce
  <2> QED BY <1>1, <2>1, <2>2
<1> QED
  BY <1>2, <1>3

\* A position at which nothing starts that could be read.
Unreadable(p) == input[p] = "quote" /\ FindQuote(input, p + 1) \in {NotFound, Malformed}

LEMMA NoValues ==
  ASSUME input \in Seq(Char), NEW i \in 0..Len(input), NEW q, q = SkipSpace(input, i + 1),
         AtRest(q) \/ Unreadable(q) \/ input[q] = "equals"
  PROVE  ValuesAfter(i) = {}
<1>1. i + 1 \in 1..(Len(input) + 1) /\ Len(input) \in Nat
  OBVIOUS
<1>2. q \in 1..(Len(input) + 1)
  BY <1>1, SpaceSkipped
<1>3. ASSUME NEW v, v \in ValuesAfter(i)
      PROVE  FALSE
  <2>1. PICK k \in 1..Len(input) : q <= Len(input) /\ v \in ValueAt(q, k)
    BY <1>3, ValuesAfterAre
  <2>2. /\ q \in 1..Len(input)
        /\ \/ input[q] \in {"space", "equals"} \cup Comment
           \/ input[q] = "quote" /\ FindQuote(input, q + 1) \in {NotFound, Malformed}
    BY <1>1, <1>2, <2>1 DEF AtRest, Unreadable
  <2> QED BY <2>1, <2>2, NoValue
<1> QED
  BY <1>3

-------------------------------------------------------------------------------
LEMMA BareText ==
  ASSUME input \in Seq(Char), NEW g \in 1..Len(input), NEW e \in g..Len(input),
         \A p \in g..e : input[p] \notin Delimiters
  PROVE  SubSeq(input, g, e) # <<>> /\ Trim(SubSeq(input, g, e)) = SubSeq(input, g, e)
<1> DEFINE w == SubSeq(input, g, e)
<1>0. Len(input) \in Nat /\ e \in Nat /\ g \in Nat /\ \A j \in g..e : input[j] \in Char
  BY ElementOfSeq
<1>1. /\ w \in Seq(Char)
      /\ Len(w) = IF g <= e THEN e - g + 1 ELSE 0
      /\ \A k \in 1..(e - g + 1) : w[k] = input[g + k - 1]
  BY <1>0, SubSeqProperties
<1> HIDE DEF w
<1>2. Len(w) = e - g + 1 /\ 1 \in 1..(e - g + 1) /\ e - g + 1 \in 1..(e - g + 1)
  BY <1>0, <1>1
<1>3. w[1] = input[g] /\ w[e - g + 1] = input[e]
  <2>1. g + 1 - 1 = g /\ g + (e - g + 1) - 1 = e
    BY <1>0
  <2> QED BY <1>1, <1>2, <2>1
<1>4. input[g] # "space" /\ input[e] # "space"
  BY <1>0 DEF Delimiters
<1>5. w # <<>>
  <2>1. Len(w) # 0
    BY <1>0, <1>2
  <2> QED BY <2>1
<1>6. Trim(w) = w
  BY <1>1, <1>2, <1>3, <1>4, <1>5, TrimSolid
<1> QED
  BY <1>5, <1>6 DEF w

\* The one key that the format sees from where the first token starts.
LEMMA KeyOnce ==
  ASSUME input \in Seq(Char), NEW t, Placed(input, t), Worded(input, t, Delimiters),
         input[From(t)] # "open",
         NEW k \in 1..Len(input), k < Len(input), input[k + 1] \in {"space", "equals"}, NEW v
  PROVE  v \in KeyAt(From(t), k) <=> k = UpTo(t) /\ v = ValueOf(t) /\ Trim(ValueOf(t)) # <<>>
<1> DEFINE g == From(t)
           e == UpTo(t)
<1>0. /\ Len(input) \in Nat /\ g \in 1..Len(input) /\ e \in g..Len(input)
      /\ t \in Token /\ t.from \in Nat \ {0} /\ t.to \in Nat
  BY DEF Placed, Token
<1>1. CASE t.kind = "quote"
  <2>1. g = t.from - 1 /\ e = t.to + 1
    BY <1>1 DEF From, UpTo
  <2>2. QuotedIn(input, g, e)
    BY <1>1 DEF Worded
  <2>3. ValueOf(t) = Unquote(SubSeq(input, t.from, t.to))
    BY <1>1 DEF ValueOf, TextOf
  <2>4. ValueOf(t) = Unquote(SubSeq(input, g + 1, e - 1))
    <3>1. t.from = g + 1 /\ t.to = e - 1
      BY <1>0, <2>1
    <3> QED BY <2>3, <3>1
  <2>5. v \in KeyAt(g, k) <=>
          v = Unquote(SubSeq(input, g + 1, k - 1)) /\ QuotedAt(g, k, v) /\ Trim(v) # <<>>
    <3>1. ~BareAt(g, k, Delimiters)
      BY <2>2 DEF BareAt, QuotedIn
    <3> QED BY <3>1 DEF KeyAt
  <2>6. QuotedIn(input, g, k) => k = e
    BY <2>2 DEF QuotedIn
  <2> HIDE DEF g, e
  <2>7. v = Unquote(SubSeq(input, g + 1, k - 1)) => (QuotedAt(g, k, v) <=> QuotedIn(input, g, k))
    BY <1>0, QuotedOnce
  <2>8. v \in KeyAt(g, k) <=> k = e /\ v = ValueOf(t) /\ Trim(ValueOf(t)) # <<>>
    BY <2>2, <2>4, <2>5, <2>6, <2>7
  <2> QED BY <2>8 DEF g, e
<1>2. CASE t.kind = "text"
  <2>1. g = t.from /\ e = t.to
    BY <1>2 DEF From, UpTo
  <2>2. BareIn(input, g, e, Delimiters) /\ input[g] # "open"
    BY <1>2 DEF Worded
  <2>3. ValueOf(t) = Trim(SubSeq(input, g, e))
    BY <1>2, <2>1 DEF ValueOf, TextOf
  <2> HIDE DEF g, e
  <2>4. SubSeq(input, g, e) # <<>> /\ Trim(SubSeq(input, g, e)) = SubSeq(input, g, e)
    BY <1>0, <2>2, BareText DEF BareIn
  <2>5. ValueOf(t) = SubSeq(input, g, e) /\ Trim(ValueOf(t)) # <<>>
    BY <2>3, <2>4
  <2>6. v \in KeyAt(g, k) <=> v = SubSeq(input, g, k) /\ BareAt(g, k, Delimiters)
    <3>1. ~QuotedAt(g, k, v)
      BY <2>2 DEF QuotedAt, BareIn
    <3> QED BY <2>2, <3>1 DEF KeyAt
  <2>7. BareAt(g, k, Delimiters) => k = e
    <3> SUFFICES ASSUME g <= k, \A p \in g..k : input[p] \notin Delimiters
                 PROVE  k = e
      BY DEF BareAt
    <3>1. /\ \A p \in g..e : input[p] \notin Delimiters
          /\ e = Len(input) \/ input[e + 1] \in Delimiters
          /\ input[k + 1] \in Delimiters
      BY <2>2 DEF BareIn, Delimiters
    <3>2. ~(k < e)
      <4>1. k < e => k + 1 \in g..e
        BY <1>0
      <4> QED BY <3>1, <4>1
    <3>3. ~(e < k)
      <4>1. e < k => e + 1 \in g..k /\ e # Len(input)
        BY <1>0
      <4> QED BY <3>1, <4>1
    <3> QED BY <1>0, <3>2, <3>3
  <2>8. BareAt(g, e, Delimiters)
    BY <1>0, <2>2 DEF BareAt, BareIn
  <2>9. v \in KeyAt(g, k) <=> k = e /\ v = ValueOf(t) /\ Trim(ValueOf(t)) # <<>>
    BY <2>5, <2>6, <2>7, <2>8
  <2> QED BY <2>9 DEF g, e
<1> QED
  BY <1>1, <1>2 DEF Worded

LEMMA NoKey ==
  ASSUME input \in Seq(Char), NEW g \in 1..Len(input),
         \/ input[g] \in {"space", "equals", "open"} \cup Comment
         \/ Unreadable(g),
         NEW k \in 1..Len(input), NEW v
  PROVE  v \notin KeyAt(g, k)
<1>1. ~(BareAt(g, k, Delimiters) /\ input[g] # "open")
  <2> SUFFICES ASSUME BareAt(g, k, Delimiters), input[g] # "open" PROVE FALSE
    OBVIOUS
  <2>1. g \in g..k
    BY DEF BareAt
  <2> QED BY <2>1 DEF BareAt, Unreadable, Delimiters
<1>2. ~(v = Unquote(SubSeq(input, g + 1, k - 1)) /\ QuotedAt(g, k, v))
  <2> SUFFICES ASSUME v = Unquote(SubSeq(input, g + 1, k - 1)), QuotedAt(g, k, v) PROVE FALSE
    OBVIOUS
  <2>1. QuotedIn(input, g, k)
    BY QuotedOnce
  <2>2. k \notin {NotFound, Malformed}
    BY DEF NotFound, Malformed
  <2> QED BY <2>1, <2>2 DEF QuotedIn, Unreadable, Comment
<1> QED
  BY <1>1, <1>2 DEF KeyAt

PairValues(e) == IF Rest(e + 1) THEN {<<>>} ELSE ValuesAfter(e)

\* A key from i to j and the equals sign at e after it.
Split(i, j, e) ==
  /\ i <= j /\ j < e /\ input[e] = "equals"
  /\ Spaces(1, i - 1) /\ Spaces(j + 1, e - 1)

LEMMA PairsAre ==
  ASSUME NEW r
  PROVE  r \in Pairs <=>
           \E i, j, e \in 1..Len(input) :
             Split(i, j, e) /\ r \in [kind : {"pair"}, key : KeyAt(i, j), value : PairValues(e)]
<1> DEFINE P(i, j, e) == [kind : {"pair"}, key : KeyAt(i, j), value : PairValues(e)]
           N == 1..Len(input)
           Splits == {x \in N \X N \X N : Split(x[1], x[2], x[3])}
<1>1. Pairs = UNION {P(x[1], x[2], x[3]) : x \in Splits}
  BY DEF Pairs, PairValues, Split
<1> HIDE DEF P, N
<1>2. r \in Pairs <=> \E x \in N \X N \X N : Split(x[1], x[2], x[3]) /\ r \in P(x[1], x[2], x[3])
  BY <1>1
<1>3. \A i, j, e \in N : /\ <<i, j, e>> \in N \X N \X N
                         /\ <<i, j, e>>[1] = i /\ <<i, j, e>>[2] = j /\ <<i, j, e>>[3] = e
  OBVIOUS
<1>4. \A x \in N \X N \X N : x[1] \in N /\ x[2] \in N /\ x[3] \in N
  OBVIOUS
<1>5. r \in Pairs <=> \E i, j, e \in N : Split(i, j, e) /\ r \in P(i, j, e)
  <2>1. ASSUME NEW i \in N, NEW j \in N, NEW e \in N, Split(i, j, e), r \in P(i, j, e)
        PROVE  r \in Pairs
    <3> DEFINE x == <<i, j, e>>
    <3>1. x \in N \X N \X N /\ x[1] = i /\ x[2] = j /\ x[3] = e
      BY <1>3
    <3> HIDE DEF x
    <3>2. Split(x[1], x[2], x[3]) /\ r \in P(x[1], x[2], x[3])
      BY <2>1, <3>1
    <3> QED BY <1>2, <3>1, <3>2
  <2>2. ASSUME r \in Pairs
        PROVE  \E i, j, e \in N : Split(i, j, e) /\ r \in P(i, j, e)
    BY <1>2, <1>4, <2>2
  <2> QED BY <2>1, <2>2
<1> QED
  BY <1>5 DEF P, N

\* Where the line starts.
Start == SkipSpace(input, 1)

LEMMA StartIs ==
  ASSUME input \in Seq(Char)
  PROVE  /\ Len(input) \in Nat /\ 1 \in 1..(Len(input) + 1)
         /\ Start \in 1..(Len(input) + 1) /\ (Start <= Len(input) => input[Start] # "space")
         /\ Spaces(1, Start - 1)
         /\ \A i \in 1..(Len(input) + 1) :
              Spaces(1, i - 1) /\ (i <= Len(input) => input[i] # "space") => i = Start
<1>1. Len(input) \in Nat /\ 1 \in 1..(Len(input) + 1)
  OBVIOUS
<1>2. /\ Start \in 1..(Len(input) + 1) /\ (Start <= Len(input) => input[Start] # "space")
      /\ \A i \in 1..Len(input) : i < Start => input[i] = "space"
  BY <1>1, SpaceSkipped DEF Start
<1>3. Spaces(1, Start - 1)
  BY <1>1, <1>2 DEF Spaces
<1>4. ASSUME NEW i \in 1..(Len(input) + 1), Spaces(1, i - 1), i <= Len(input) => input[i] # "space"
      PROVE  i = Start
  BY <1>1, <1>4, SolidIs DEF Spaces, Start
<1> QED
  BY <1>1, <1>2, <1>3, <1>4

LEMMA PairsOfKey ==
  ASSUME input \in Seq(Char), NEW t, Placed(input, t), Worded(input, t, Delimiters),
         From(t) = Start, input[Start] # "open",
         NEW q, q = SkipSpace(input, UpTo(t) + 1), NEW r
  PROVE  r \in Pairs <=>
           /\ q <= Len(input) /\ input[q] = "equals" /\ Trim(ValueOf(t)) # <<>>
           /\ r \in [kind : {"pair"}, key : {ValueOf(t)}, value : PairValues(q)]
<1>0. /\ Len(input) \in Nat /\ Start \in 1..Len(input) /\ UpTo(t) \in Start..Len(input)
      /\ UpTo(t) + 1 \in 1..(Len(input) + 1) /\ UpTo(t) \in 1..Len(input)
  BY DEF Placed
<1>1. /\ q \in (UpTo(t) + 1)..(Len(input) + 1)
      /\ \A j \in (UpTo(t) + 1)..Len(input) : j < q => input[j] = "space"
  BY <1>0, SpaceSkipped
<1>2. ASSUME r \in Pairs
      PROVE  /\ q <= Len(input) /\ input[q] = "equals" /\ Trim(ValueOf(t)) # <<>>
             /\ r \in [kind : {"pair"}, key : {ValueOf(t)}, value : PairValues(q)]
  <2>1. PICK i \in 1..Len(input), j \in 1..Len(input), e \in 1..Len(input) :
               Split(i, j, e) /\ r \in [kind : {"pair"}, key : KeyAt(i, j), value : PairValues(e)]
    BY <1>2, PairsAre
  <2>2. r.kind = "pair" /\ r.key \in KeyAt(i, j) /\ r.value \in PairValues(e)
        /\ r = [kind |-> r.kind, key |-> r.key, value |-> r.value]
    BY <2>1
  <2>3. input[i] # "space"
    BY <2>2, NoKey
  <2>4. i = Start
    BY <1>0, <2>1, <2>3, StartIs DEF Split
  <2>5. j < Len(input) /\ input[j + 1] \in {"space", "equals"}
    <3>1. j < e /\ input[e] = "equals" /\ \A p \in (j + 1)..(e - 1) : input[p] = "space"
      BY <2>1 DEF Split, Spaces
    <3>2. j + 1 = e \/ j + 1 \in (j + 1)..(e - 1)
      BY <1>0, <3>1
    <3> QED BY <1>0, <3>1, <3>2
  <2>6. j = UpTo(t) /\ r.key = ValueOf(t) /\ Trim(ValueOf(t)) # <<>>
    BY <2>2, <2>4, <2>5, KeyOnce
  <2>7. q = e
    <3>1. /\ e \in (UpTo(t) + 1)..(Len(input) + 1) /\ input[e] # "space"
          /\ \A p \in (UpTo(t) + 1)..(e - 1) : input[p] = "space"
      BY <1>0, <2>1, <2>6 DEF Split, Spaces
    <3> QED BY <1>0, <3>1, SolidIs
  <2>8. q <= Len(input) /\ input[q] = "equals"
    BY <1>0, <2>1, <2>7 DEF Split
  <2>9. r \in [kind : {"pair"}, key : {ValueOf(t)}, value : PairValues(q)]
    BY <2>2, <2>6, <2>7
  <2> QED BY <2>6, <2>8, <2>9
<1>3. ASSUME q <= Len(input), input[q] = "equals", Trim(ValueOf(t)) # <<>>,
             r \in [kind : {"pair"}, key : {ValueOf(t)}, value : PairValues(q)]
      PROVE  r \in Pairs
  <2>1. Split(Start, UpTo(t), q)
    <3>1. Spaces(1, Start - 1)
      BY StartIs
    <3>2. Spaces(UpTo(t) + 1, q - 1)
      BY <1>0, <1>1, <1>3 DEF Spaces
    <3> QED BY <1>0, <1>1, <1>3, <3>1, <3>2 DEF Split
  <2>2. UpTo(t) < Len(input) /\ input[UpTo(t) + 1] \in {"space", "equals"}
    <3>1. UpTo(t) + 1 = q \/ UpTo(t) + 1 < q
      BY <1>0, <1>1
    <3>2. UpTo(t) < Len(input) /\ UpTo(t) + 1 \in (UpTo(t) + 1)..Len(input)
      BY <1>0, <1>1, <1>3
    <3> QED BY <1>1, <1>3, <3>1, <3>2
  <2>3. ValueOf(t) \in KeyAt(Start, UpTo(t))
    BY <1>0, <1>3, <2>2, KeyOnce
  <2>4. r \in [kind : {"pair"}, key : KeyAt(Start, UpTo(t)), value : PairValues(q)]
    BY <1>3, <2>3
  <2>5. q \in 1..Len(input)
    BY <1>0, <1>1, <1>3
  <2> QED BY <1>0, <2>1, <2>4, <2>5, PairsAre
<1> QED
  BY <1>2, <1>3

LEMMA NoPairs ==
  ASSUME input \in Seq(Char),
         \/ Start > Len(input)
         \/ input[Start] \in {"equals", "open"} \cup Comment
         \/ Unreadable(Start)
  PROVE  Pairs = {}
<1>1. ASSUME NEW r, r \in Pairs PROVE FALSE
  <2>1. PICK i \in 1..Len(input), j \in 1..Len(input), e \in 1..Len(input) :
               Split(i, j, e) /\ r \in [kind : {"pair"}, key : KeyAt(i, j), value : PairValues(e)]
    BY <1>1, PairsAre
  <2>2. r.key \in KeyAt(i, j)
    BY <2>1
  <2>3. input[i] # "space"
    BY <2>2, NoKey
  <2>4. i = Start
    BY <2>1, <2>3, StartIs DEF Split
  <2> QED BY <2>2, <2>4, NoKey
<1> QED
  BY <1>1

-------------------------------------------------------------------------------
Fetches(p) == [kind : {"include"}, name : {Trim(v) : v \in ValuesAfter(p + 1)} \ {<<>>}]

LEMMA IncludesAre ==
  ASSUME input \in Seq(Char)
  PROVE  /\ Start <= Len(input) /\ StartsInclude(Start) => Includes = Fetches(Start)
         /\ ~(Start <= Len(input) /\ StartsInclude(Start)) => Includes = {}
<1> DEFINE S == {p \in 1..Len(input) : Spaces(1, p - 1) /\ StartsInclude(p)}
<1>1. Includes = UNION {Fetches(p) : p \in S}
  BY DEF Includes, Fetches
<1>2. ASSUME NEW p \in S PROVE p = Start /\ Start <= Len(input) /\ StartsInclude(Start)
  <2>1. input[p] # "space" /\ p \in 1..(Len(input) + 1)
    BY DEF StartsInclude
  <2>2. p = Start
    BY <2>1, StartIs
  <2> QED BY <2>2
<1>3. Start <= Len(input) /\ StartsInclude(Start) => Start \in S
  BY StartIs
<1> HIDE DEF S
<1>4. CASE Start <= Len(input) /\ StartsInclude(Start)
  <2>1. S = {Start}
    BY <1>2, <1>3, <1>4
  <2> QED BY <1>1, <1>4, <2>1
<1>5. CASE ~(Start <= Len(input) /\ StartsInclude(Start))
  <2>1. S = {}
    BY <1>2, <1>5
  <2> QED BY <1>1, <1>5, <2>1
<1> QED
  BY <1>4, <1>5

\* The section that brackets at positions i and j make.
Titles(i, j) == [kind : {"section"}, name : SectionNames(Trim(SubSeq(input, i + 1, j - 1)))]

\* Brackets at i and j with nothing before them and only a comment after them.
Brackets(i, j) ==
  /\ i < j /\ input[i] = "open" /\ input[j] = "close"
  /\ \A p \in (i + 1)..(j - 1) : input[p] # "close"
  /\ Spaces(1, i - 1) /\ Rest(j + 1)

LEMMA HeadersAre ==
  ASSUME NEW r
  PROVE  r \in Headers <=> \E i, j \in 1..Len(input) : Brackets(i, j) /\ r \in Titles(i, j)
<1> DEFINE N == 1..Len(input)
           S == {x \in N \X N : Brackets(x[1], x[2])}
<1>1. Headers = UNION {Titles(x[1], x[2]) : x \in S}
  BY DEF Headers, Titles, Brackets
<1> HIDE DEF N
<1>2. r \in Headers <=> \E x \in N \X N : Brackets(x[1], x[2]) /\ r \in Titles(x[1], x[2])
  BY <1>1
<1>3. \A x \in N \X N : x[1] \in N /\ x[2] \in N
  OBVIOUS
<1>4. ASSUME NEW i \in N, NEW j \in N, Brackets(i, j), r \in Titles(i, j)
      PROVE  r \in Headers
  <2> DEFINE x == <<i, j>>
  <2>1. x \in N \X N /\ x[1] = i /\ x[2] = j
    OBVIOUS
  <2> HIDE DEF x
  <2>2. Brackets(x[1], x[2]) /\ r \in Titles(x[1], x[2])
    BY <1>4, <2>1
  <2> QED BY <1>2, <2>1, <2>2
<1>5. r \in Headers => \E i, j \in N : Brackets(i, j) /\ r \in Titles(i, j)
  BY <1>2, <1>3
<1> QED
  BY <1>4, <1>5 DEF N

LEMMA HeadersOfOpen ==
  ASSUME input \in Seq(Char), Start <= Len(input), input[Start] = "open",
         NEW c \in Start..Len(input), input[c] = "close",
         \A p \in (Start + 1)..(c - 1) : input[p] # "close"
  PROVE  Headers = IF AtRest(SkipSpace(input, c + 1)) THEN Titles(Start, c) ELSE {}
<1>0. /\ Len(input) \in Nat /\ Start \in 1..Len(input) /\ c \in 1..Len(input) /\ Start < c
      /\ c + 1 \in 1..(Len(input) + 1)
  <2>1. Start # c
    OBVIOUS
  <2> QED BY <2>1, StartIs
<1>1. Rest(c + 1) <=> AtRest(SkipSpace(input, c + 1))
  BY <1>0, RestIs
<1>2. ASSUME NEW i \in 1..Len(input), NEW j \in 1..Len(input), Brackets(i, j)
      PROVE  i = Start /\ j = c /\ Rest(c + 1)
  <2>1. /\ i < j /\ input[i] = "open" /\ input[j] = "close" /\ Spaces(1, i - 1) /\ Rest(j + 1)
        /\ \A p \in (i + 1)..(j - 1) : input[p] # "close"
    BY <1>2 DEF Brackets
  <2>2. i = Start
    <3>1. i \in 1..(Len(input) + 1) /\ input[i] # "space"
      BY <1>0, <2>1
    <3> QED BY <2>1, <3>1, StartIs
  <2>3. j = c
    <3>1. ~(j < c)
      <4>1. j < c => j \in (Start + 1)..(c - 1)
        BY <1>0, <2>1, <2>2
      <4> QED BY <2>1, <4>1
    <3>2. ~(c < j)
      <4>1. c < j => c \in (i + 1)..(j - 1)
        BY <1>0, <2>1, <2>2
      <4> QED BY <2>1, <4>1
    <3> QED BY <1>0, <3>1, <3>2
  <2> QED BY <2>1, <2>2, <2>3
<1>3. Rest(c + 1) => Brackets(Start, c)
  BY <1>0, StartIs DEF Brackets
<1>4. ASSUME NEW r PROVE r \in Headers <=> Rest(c + 1) /\ r \in Titles(Start, c)
  BY <1>0, <1>2, <1>3, HeadersAre
<1> QED
  BY <1>1, <1>4

LEMMA NoHeaders ==
  ASSUME input \in Seq(Char),
         \/ Start > Len(input)
         \/ input[Start] # "open"
         \/ \A p \in (Start + 1)..Len(input) : input[p] # "close"
  PROVE  Headers = {}
<1>1. ASSUME NEW r, r \in Headers PROVE FALSE
  <2>1. PICK i \in 1..Len(input), j \in 1..Len(input) : Brackets(i, j)
    BY <1>1, HeadersAre
  <2>2. i < j /\ input[i] = "open" /\ input[j] = "close" /\ Spaces(1, i - 1)
    BY <2>1 DEF Brackets
  <2>3. i = Start
    <3>1. i \in 1..(Len(input) + 1) /\ input[i] # "space"
      BY <2>2
    <3> QED BY <2>2, <3>1, StartIs
  <2>4. j \in (Start + 1)..Len(input) /\ Start <= Len(input)
    BY <2>2, <2>3
  <2> QED BY <2>2, <2>3, <2>4
<1> QED
  BY <1>1

LEMMA BlanksAre ==
  ASSUME input \in Seq(Char)
  PROVE  Blanks = IF AtRest(Start) /\ ~(Start <= Len(input) /\ StartsInclude(Start))
                  THEN {[kind |-> "blank"]} ELSE {}
<1>1. Rest(1) <=> AtRest(Start)
  BY StartIs, RestIs DEF Start
<1>2. (\A i \in 1..Len(input) : Spaces(1, i - 1) => ~StartsInclude(i)) <=>
        ~(Start <= Len(input) /\ StartsInclude(Start))
  <2>1. ASSUME NEW i \in 1..Len(input), Spaces(1, i - 1), StartsInclude(i)
        PROVE  Start <= Len(input) /\ StartsInclude(Start)
    <3>1. input[i] # "space" /\ i \in 1..(Len(input) + 1)
      BY <2>1 DEF StartsInclude
    <3>2. i = Start
      BY <2>1, <3>1, StartIs
    <3> QED BY <2>1, <3>2
  <2>2. Start <= Len(input) => Start \in 1..Len(input) /\ Spaces(1, Start - 1)
    BY StartIs
  <2> QED BY <2>1, <2>2
<1> QED
  BY <1>1, <1>2 DEF Blanks

\* What the scan finds where a token is: #include and [ only as the first one.
LexedAt(s, t, isFirst) ==
  /\ Placed(s, t)
  /\ \/ /\ Worded(s, t, IF isFirst THEN Delimiters ELSE Comment)
        /\ isFirst => s[From(t)] # "open"
     \/ t.kind = "equals" /\ s[From(t)] = "equals" /\ UpTo(t) = From(t)
     \/ /\ isFirst /\ t.kind = "include"
        /\ s[From(t)] = "hash" /\ UpTo(t) = From(t) + 1 /\ s[From(t) + 1] = "word"
        /\ From(t) + 1 = Len(s) \/ s[From(t) + 2] = "space"
     \/ /\ isFirst /\ t.kind = "open"
        /\ s[From(t)] = "open" /\ s[UpTo(t)] = "close"
        /\ \A p \in (From(t) + 1)..(UpTo(t) - 1) : s[p] # "close"

\* The tokens of line s up to position p, where the next one would start.
Lexed(s, ts, p) ==
  /\ ts \in Seq(Token)
  /\ ts = <<>> => p = SkipSpace(s, 1)
  /\ \A i \in DOMAIN ts :
       /\ LexedAt(s, ts[i], i = 1)
       /\ i = 1 => From(ts[i]) = SkipSpace(s, 1)
       /\ i < Len(ts) => From(ts[i + 1]) = SkipSpace(s, UpTo(ts[i]) + 1)
       /\ i = Len(ts) => p = SkipSpace(s, UpTo(ts[i]) + 1)

\* What operator() makes of the tokens in front of the comment.
Verdict(ts) ==
  CASE ts = <<>> -> [kind |-> "blank"]
    [] ts # <<>> /\ ts[1].kind = "include" -> IncludeOutcome(ts)
    [] ts # <<>> /\ ts[1].kind = "open" -> SectionOutcome(ts)
    [] OTHER -> PairOutcome(ts)

Meanings == Pairs \cup Includes \cup Headers \cup Blanks

\* The scan has stopped: there is nothing more, or something that cannot be read.
Stopped(p) == AtRest(p) \/ (p <= Len(input) /\ Unreadable(p))

\* What the line means when its tokens are ts and the scan has stopped at p.
Meant(ts, p) == IF AtRest(p) /\ Verdict(ts) # Bad THEN {Verdict(ts)} ELSE {}

LEMMA Onward ==
  ASSUME NEW n \in Nat, NEW i \in 1..n
  PROVE  (i = n /\ n # i + 1) \/ (i < n /\ i + 1 \in 1..n /\ i + 1 # 1 /\ i # n)
  OBVIOUS

LEMMA StoppedMeans ==
  ASSUME NEW n \in Nat, n = Len(input), NEW p \in Nat, Stopped(p)
  PROVE  \/ AtRest(p) /\ (p > n \/ (p <= n /\ input[p] \in {"hash", "semicolon"}))
         \/ ~AtRest(p) /\ p <= n /\ input[p] = "quote" /\ Unreadable(p)
<1>1. CASE AtRest(p)
  BY <1>1 DEF AtRest, Comment
<1>2. CASE ~AtRest(p)
  BY <1>2 DEF Stopped, Unreadable
<1> QED
  BY <1>1, <1>2

\* A token starts where something is left to read.
LEMMA TokenNotAtRest ==
  ASSUME input \in Seq(Char), NEW t, LexedAt(input, t, FALSE)
  PROVE  ~AtRest(From(t))
<1>1. From(t) \in 1..Len(input) /\ UpTo(t) \in From(t)..Len(input)
  BY DEF LexedAt, Placed
<1>2. input[From(t)] \notin Comment
  <2>1. CASE Worded(input, t, Comment)
    <3>1. From(t) \in From(t)..UpTo(t)
      BY <1>1
    <3> QED BY <2>1, <3>1 DEF Worded, QuotedIn, BareIn, Comment
  <2>2. CASE input[From(t)] = "equals"
    BY <2>2 DEF Comment
  <2> QED BY <2>1, <2>2 DEF LexedAt
<1> QED
  BY <1>1, <1>2 DEF AtRest

\* Behind a token there is nothing left but a comment if it is the last one, and the
\* scan has come to its end.
LEMMA RestsAfter ==
  ASSUME input \in Seq(Char), NEW ts, NEW p, Lexed(input, ts, p), NEW i \in 1..Len(ts)
  PROVE  AtRest(SkipSpace(input, UpTo(ts[i]) + 1)) <=> i = Len(ts) /\ AtRest(p)
<1>1. Len(ts) \in Nat /\ DOMAIN ts = 1..Len(ts)
  BY DEF Lexed
<1>2. CASE i = Len(ts)
  BY <1>1, <1>2 DEF Lexed
<1>3. CASE i # Len(ts)
  <2>1. i < Len(ts) /\ i + 1 \in 1..Len(ts) /\ i + 1 # 1
    BY <1>1, <1>3, Onward
  <2>2. LexedAt(input, ts[i + 1], FALSE) /\ From(ts[i + 1]) = SkipSpace(input, UpTo(ts[i]) + 1)
    BY <1>1, <2>1 DEF Lexed
  <2> QED BY <1>3, <2>2, TokenNotAtRest
<1> QED
  BY <1>2, <1>3

LEMMA FirstToken ==
  ASSUME input \in Seq(Char), NEW ts, NEW p, Lexed(input, ts, p), ts # <<>>
  PROVE  /\ Len(ts) \in Nat \ {0} /\ 1 \in 1..Len(ts)
         /\ LexedAt(input, ts[1], TRUE) /\ From(ts[1]) = Start
         /\ Start \in 1..Len(input) /\ UpTo(ts[1]) \in Start..Len(input)
<1>1. Len(ts) \in Nat \ {0} /\ DOMAIN ts = 1..Len(ts)
  BY EmptySeq DEF Lexed
<1>2. 1 \in 1..Len(ts) /\ LexedAt(input, ts[1], 1 = 1) /\ From(ts[1]) = Start
  BY <1>1 DEF Lexed, Start
<1> QED
  BY <1>1, <1>2 DEF LexedAt, Placed

\* The token behind another, or where the scan has stopped.
LEMMA NextToken ==
  ASSUME input \in Seq(Char), NEW ts, NEW p, Lexed(input, ts, p), NEW i \in 1..Len(ts)
  PROVE  /\ i = Len(ts) => p = SkipSpace(input, UpTo(ts[i]) + 1)
         /\ i < Len(ts) => /\ LexedAt(input, ts[i + 1], FALSE)
                           /\ From(ts[i + 1]) = SkipSpace(input, UpTo(ts[i]) + 1)
                           /\ i + 1 \in 1..Len(ts)
<1>1. Len(ts) \in Nat /\ DOMAIN ts = 1..Len(ts)
  BY DEF Lexed
<1>2. CASE i = Len(ts)
  <2>1. i \in DOMAIN ts /\ ~(i < Len(ts))
    BY <1>1, <1>2, Onward
  <2>2. p = SkipSpace(input, UpTo(ts[i]) + 1)
    BY <1>2, <2>1 DEF Lexed
  <2> QED BY <2>1, <2>2
<1>3. CASE i # Len(ts)
  <2>0. i < Len(ts) /\ i + 1 \in 1..Len(ts) /\ i + 1 # 1
    BY <1>1, <1>3, Onward
  <2>1. i + 1 \in 1..Len(ts) /\ i + 1 # 1 /\ i # Len(ts) /\ i \in DOMAIN ts /\ i + 1 \in DOMAIN ts
    BY <1>1, <1>3, <2>0, Zenon
  <2>2. From(ts[i + 1]) = SkipSpace(input, UpTo(ts[i]) + 1)
    BY <2>0, <2>1 DEF Lexed
  <2>3. LexedAt(input, ts[i + 1], (i + 1) = 1)
    BY <2>1 DEF Lexed
  <2>4. LexedAt(input, ts[i + 1], FALSE)
    BY <2>1, <2>3
  <2> QED BY <1>3, <2>1, <2>2, <2>4
<1> QED
  BY <1>2, <1>3

\* A token that is not the first is a value or an equals sign.
LEMMA LaterToken ==
  ASSUME NEW t, LexedAt(input, t, FALSE)
  PROVE  \/ Placed(input, t) /\ Worded(input, t, Comment) /\ IsValue(t) /\ input[From(t)] # "equals"
            /\ t.kind # "equals"
         \/ Placed(input, t) /\ t.kind = "equals" /\ input[From(t)] = "equals" /\ UpTo(t) = From(t)
            /\ ~IsValue(t)
  BY DEF LexedAt, Worded, QuotedIn, BareIn, IsValue

\* The values from where token i ends.
LEMMA ValuesBehind ==
  ASSUME input \in Seq(Char), NEW ts, NEW p, Lexed(input, ts, p), Stopped(p), NEW i \in 1..Len(ts)
  PROVE  ValuesAfter(UpTo(ts[i])) =
           IF Len(ts) = i + 1 /\ IsValue(ts[i + 1]) /\ AtRest(p) THEN {ValueOf(ts[i + 1])} ELSE {}
<1>1. Len(ts) \in Nat /\ DOMAIN ts = 1..Len(ts) /\ Len(input) \in Nat
  BY DEF Lexed
<1>2. UpTo(ts[i]) \in 0..Len(input)
  <2>1. UpTo(ts[i]) \in From(ts[i])..Len(input) /\ From(ts[i]) \in 1..Len(input)
    BY <1>1 DEF Lexed, LexedAt, Placed
  <2> QED BY <1>1, <2>1
<1>3. CASE i = Len(ts)
  <2>1. p = SkipSpace(input, UpTo(ts[i]) + 1) /\ Len(ts) # i + 1
    BY <1>1, <1>3, NextToken, Onward
  <2>2. ValuesAfter(UpTo(ts[i])) = {}
    BY <1>2, <2>1, NoValues DEF Stopped
  <2> QED BY <2>1, <2>2
<1>4. CASE i # Len(ts)
  <2> DEFINE t == ts[i + 1]
  <2>1. /\ LexedAt(input, t, FALSE) /\ From(t) = SkipSpace(input, UpTo(ts[i]) + 1)
        /\ i + 1 \in 1..Len(ts)
    <3>1. i < Len(ts)
      BY <1>1, <1>4, Onward
    <3> QED BY <3>1, NextToken
  <2>2. AtRest(SkipSpace(input, UpTo(t) + 1)) <=> i + 1 = Len(ts) /\ AtRest(p)
    BY <2>1, RestsAfter
  <2> HIDE DEF t
  <2>3. CASE Placed(input, t) /\ Worded(input, t, Comment) /\ IsValue(t)
    <3>1. ValuesAfter(UpTo(ts[i])) = IF AtRest(SkipSpace(input, UpTo(t) + 1)) THEN {ValueOf(t)} ELSE {}
      BY <1>2, <2>1, <2>3, ValuesOfToken
    <3> QED BY <2>2, <2>3, <3>1 DEF t
  <2>4. CASE input[From(t)] = "equals" /\ ~IsValue(t)
    <3>1. ValuesAfter(UpTo(ts[i])) = {}
      BY <1>2, <2>1, <2>4, NoValues
    <3> QED BY <2>4, <3>1 DEF t
  <2> QED BY <2>1, <2>3, <2>4, LaterToken
<1> QED
  BY <1>3, <1>4

-------------------------------------------------------------------------------
LEMMA MeansNothingRead ==
  ASSUME input \in Seq(Char), Stopped(Start), ~(Start <= Len(input) /\ StartsInclude(Start))
  PROVE  Meanings = Meant(<<>>, Start)
<1>1. Pairs = {} /\ Includes = {} /\ Headers = {}
  <2>0. Len(input) \in Nat /\ Start \in Nat
    BY StartIs
  <2>1. Start > Len(input) \/ input[Start] # "open"
    BY <2>0, StoppedMeans
  <2>2. Pairs = {}
    BY NoPairs DEF Stopped, AtRest
  <2>3. Headers = {}
    BY <2>1, NoHeaders
  <2> QED BY <2>2, <2>3, IncludesAre
<1>2. Blanks = IF AtRest(Start) THEN {[kind |-> "blank"]} ELSE {}
  BY BlanksAre
<1>3. Verdict(<<>>) = [kind |-> "blank"] /\ Verdict(<<>>) # Bad
  BY DEF Verdict, Bad
<1> QED
  BY <1>1, <1>2, <1>3 DEF Meanings, Meant

LEMMA MeansInclude ==
  ASSUME input \in Seq(Char), NEW ts, NEW p, Lexed(input, ts, p), Stopped(p), ts # <<>>,
         ts[1].kind = "include"
  PROVE  Meanings = Meant(ts, p)
<1>1. /\ Len(ts) \in Nat \ {0} /\ 1 \in 1..Len(ts) /\ From(ts[1]) = Start
      /\ Start \in 1..Len(input) /\ UpTo(ts[1]) = Start + 1 /\ input[Start] = "hash"
      /\ input[Start + 1] = "word" /\ (Start + 1 = Len(input) \/ input[Start + 2] = "space")
      /\ UpTo(ts[1]) <= Len(input)
  BY FirstToken DEF LexedAt, Worded
<1>2. StartsInclude(Start) /\ Start <= Len(input)
  BY <1>1 DEF StartsInclude
<1>3. Pairs = {} /\ Headers = {} /\ Blanks = {} /\ Includes = Fetches(Start)
  <2>1. Pairs = {}
    BY <1>1, NoPairs DEF Comment
  <2>2. Headers = {}
    BY <1>1, NoHeaders
  <2> QED BY <1>2, <2>1, <2>2, BlanksAre, IncludesAre
<1>4. ValuesAfter(Start + 1) =
        IF Len(ts) = 2 /\ IsValue(ts[2]) /\ AtRest(p) THEN {ValueOf(ts[2])} ELSE {}
  <2>1. 1 + 1 = 2
    OBVIOUS
  <2>2. ValuesAfter(UpTo(ts[1])) =
          IF Len(ts) = 1 + 1 /\ IsValue(ts[1 + 1]) /\ AtRest(p) THEN {ValueOf(ts[1 + 1])} ELSE {}
    BY <1>1, ValuesBehind
  <2> QED BY <1>1, <2>1, <2>2
<1>5. Verdict(ts) = IncludeOutcome(ts)
  BY DEF Verdict
<1> DEFINE name == Trim(ValueOf(ts[2]))
<1>6. Fetches(Start) = IF Len(ts) = 2 /\ IsValue(ts[2]) /\ AtRest(p) /\ name # <<>>
                       THEN {[kind |-> "include", name |-> name]} ELSE {}
  <2>1. CASE Len(ts) = 2 /\ IsValue(ts[2]) /\ AtRest(p)
    <3>1. {Trim(v) : v \in ValuesAfter(Start + 1)} = {name}
      BY <1>4, <2>1
    <3> HIDE DEF name
    <3>2. Fetches(Start) = [kind : {"include"}, name : {name} \ {<<>>}]
      BY <3>1 DEF Fetches
    <3>3. \A x : x \in Fetches(Start) <=> name # <<>> /\ x = [kind |-> "include", name |-> name]
      BY <3>2
    <3> QED BY <2>1, <3>3
  <2>2. CASE ~(Len(ts) = 2 /\ IsValue(ts[2]) /\ AtRest(p))
    <3>1. {Trim(v) : v \in ValuesAfter(Start + 1)} \ {<<>>} = {}
      BY <1>4, <2>2
    <3>2. Fetches(Start) = {}
      BY <3>1 DEF Fetches
    <3> QED BY <2>2, <3>2
  <2> QED BY <2>1, <2>2
<1>7. IncludeOutcome(ts) = IF Len(ts) = 2 /\ IsValue(ts[2]) /\ name # <<>>
                           THEN [kind |-> "include", name |-> name] ELSE Bad
  BY DEF IncludeOutcome
<1> HIDE DEF name
<1>8. [kind |-> "include", name |-> name] # Bad
  BY DEF Bad
<1> QED
  BY <1>3, <1>5, <1>6, <1>7, <1>8 DEF Meanings, Meant

\* A text in quotes.
LEMMA Enclosed ==
  ASSUME NEW w \in Seq(Char)
  PROVE  LET v == <<"quote">> \o w \o <<"quote">>
         IN  /\ v \in Seq(Char) /\ Len(v) = Len(w) + 2 /\ Len(w) \in Nat
             /\ v[1] = "quote" /\ v[Len(w) + 2] = "quote"
             /\ \A i \in 2..(Len(w) + 1) : v[i] = w[i - 1]
<1> DEFINE q == <<"quote">>
           u == q \o w
           v == u \o q
<1>1. q \in Seq(Char) /\ Len(q) = 1 /\ q[1] = "quote" /\ "quote" \in Char /\ Len(w) \in Nat
  BY DEF Char
<1>2. /\ u \in Seq(Char) /\ Len(u) = Len(w) + 1 /\ u[1] = "quote"
      /\ \A i \in 1..Len(w) : u[i + 1] = w[i]
  BY <1>1, InFront
<1> HIDE DEF q, u
<1>3. /\ v \in Seq(Char) /\ Len(v) = Len(u) + Len(q)
      /\ \A i \in 1..(Len(u) + Len(q)) : v[i] = IF i <= Len(u) THEN u[i] ELSE q[i - Len(u)]
  BY <1>1, <1>2, ConcatProperties
<1> HIDE DEF v
<1>4. v[1] = "quote"
  BY <1>1, <1>2, <1>3
<1>5. v[Len(w) + 2] = "quote"
  <2>1. /\ Len(w) + 2 \in 1..(Len(u) + Len(q)) /\ ~(Len(w) + 2 <= Len(u))
        /\ Len(w) + 2 - Len(u) = 1
    BY <1>1, <1>2
  <2> QED BY <1>1, <1>3, <2>1
<1>6. ASSUME NEW i \in 2..(Len(w) + 1) PROVE v[i] = w[i - 1]
  <2>1. /\ i \in 1..(Len(u) + Len(q)) /\ i <= Len(u) /\ i - 1 \in 1..Len(w) /\ (i - 1) + 1 = i
    BY <1>1, <1>2
  <2> QED BY <1>2, <1>3, <2>1
<1>7. Len(v) = Len(w) + 2
  BY <1>1, <1>2, <1>3
<1> QED
  BY <1>1, <1>3, <1>4, <1>5, <1>6, <1>7 DEF v, u, q

\* The names of a section are those that operator() reads from its brackets.
LEMMA NamesRead ==
  ASSUME NEW name \in Seq(Char), name # <<>>, name[1] = "quote",
         NEW inner, inner = SubSeq(name, 2, Len(name) - 1)
  PROVE  name = <<"quote">> \o Escape(Unquote(inner)) \o <<"quote">> <=> FindQuote(name, 2) = Len(name)
<1> DEFINE q == <<"quote">>
<1>0. Len(name) \in Nat \ {0} /\ \A j \in 1..Len(name) : name[j] \in Char
  BY EmptySeq, ElementOfSeq
<1>1. /\ inner \in Seq(Char)
      /\ Len(inner) = IF 2 <= Len(name) - 1 THEN (Len(name) - 1) - 2 + 1 ELSE 0
      /\ \A k \in 1..((Len(name) - 1) - 2 + 1) : inner[k] = name[2 + k - 1]
  <2>1. 2 \in Int /\ Len(name) - 1 \in Int /\ \A j \in 2..(Len(name) - 1) : name[j] \in Char
    BY <1>0
  <2> QED BY <2>1, SubSeqProperties
<1>2. ASSUME NEW w \in Seq(Char)
      PROVE  /\ q \o w \o q \in Seq(Char) /\ Len(q \o w \o q) = Len(w) + 2 /\ Len(w) \in Nat
             /\ (q \o w \o q)[1] = "quote" /\ (q \o w \o q)[Len(w) + 2] = "quote"
             /\ \A i \in 2..(Len(w) + 1) : (q \o w \o q)[i] = w[i - 1]
  BY Enclosed DEF q
<1> HIDE DEF q
<1>3. ASSUME name = q \o Escape(Unquote(inner)) \o q
      PROVE  FindQuote(name, 2) = Len(name)
  <2> DEFINE w == Escape(Unquote(inner))
  <2>1. w \in Seq(Char)
    BY <1>1, UnquoteTyped, EscapeTyped
  <2> HIDE DEF w
  <2>2. /\ Len(name) = Len(w) + 2 /\ Len(w) \in Nat /\ name[Len(w) + 2] = "quote"
        /\ \A i \in 2..(Len(w) + 1) : name[i] = w[i - 1]
    BY <1>2, <1>3, <2>1 DEF w
  <2>3. Len(inner) = Len(w)
    BY <1>1, <2>2
  <2>4. ASSUME NEW k \in 1..Len(w) PROVE inner[k] = w[k]
    <3>1. k \in 1..((Len(name) - 1) - 2 + 1) /\ 2 + k - 1 = k + 1 /\ k + 1 \in 2..(Len(w) + 1)
          /\ (k + 1) - 1 = k
      BY <2>2
    <3>2. inner[k] = name[k + 1]
      BY <1>1, <3>1
    <3>3. name[k + 1] = w[(k + 1) - 1]
      BY <2>2, <3>1
    <3> QED BY <3>1, <3>2, <3>3
  <2>5. inner = w
    BY <1>1, <2>1, <2>3, <2>4, SeqEqual
  <2>6. Lossless(inner)
    BY <1>1, <2>5, UnquoteTyped DEF Lossless, w
  <2>7. 2 \in Nat \ {0} /\ Len(name) \in 2..Len(name) /\ name[Len(name)] = "quote"
    BY <2>2
  <2> QED BY <2>6, <2>7, QuoteEnds
<1>4. ASSUME FindQuote(name, 2) = Len(name)
      PROVE  name = q \o Escape(Unquote(inner)) \o q
  <2>1. 2 \in 1..(Len(name) + 2) /\ Len(name) \notin {NotFound, Malformed}
    BY <1>0 DEF NotFound, Malformed
  <2>2. Len(name) \in 2..Len(name) /\ name[Len(name)] = "quote" /\ Lossless(inner)
    BY <1>4, <2>1, QuotedText
  <2>3. Escape(Unquote(inner)) = inner
    BY <2>2 DEF Lossless
  <2> DEFINE v == q \o inner \o q
  <2>4. /\ v \in Seq(Char) /\ Len(v) = Len(inner) + 2 /\ Len(inner) \in Nat
        /\ v[1] = "quote" /\ v[Len(inner) + 2] = "quote"
        /\ \A i \in 2..(Len(inner) + 1) : v[i] = inner[i - 1]
    BY <1>1, <1>2
  <2> HIDE DEF v
  <2>5. Len(name) = Len(inner) + 2
    <3>1. Len(inner) = IF 2 <= Len(name) - 1 THEN (Len(name) - 1) - 2 + 1 ELSE 0
      BY <1>1
    <3>2. Len(name) \in Nat /\ 2 <= Len(name)
      BY <1>0, <2>2
    <3>3. \A k : \A n \in Nat : 2 <= n /\ k = (IF 2 <= n - 1 THEN (n - 1) - 2 + 1 ELSE 0) => n = k + 2
      OBVIOUS
    <3> QED BY <3>1, <3>2, <3>3
  <2>6. ASSUME NEW i \in 1..Len(name) PROVE name[i] = v[i]
    <3>1. CASE i = 1
      BY <2>4, <3>1
    <3>2. CASE i = Len(name)
      BY <2>2, <2>4, <2>5, <3>2
    <3>3. CASE i # 1 /\ i # Len(name)
      <4>1. i \in 2..(Len(inner) + 1) /\ i - 1 \in 1..((Len(name) - 1) - 2 + 1) /\ 2 + (i - 1) - 1 = i
        BY <2>4, <2>5, <3>3
      <4>2. inner[i - 1] = name[i]
        BY <1>1, <4>1
      <4> QED BY <2>4, <4>1, <4>2
    <3> QED BY <3>1, <3>2, <3>3
  <2>7. name = v
    BY <1>0, <2>4, <2>5, <2>6, SeqEqual
  <2> QED BY <2>3, <2>7 DEF v
<1>5. name = q \o Escape(Unquote(inner)) \o q <=> FindQuote(name, 2) = Len(name)
  BY <1>3, <1>4
<1> QED
  BY <1>5 DEF q

LEMMA TrimTyped == ASSUME NEW w \in Seq(Char) PROVE Trim(w) \in Seq(Char)
<1> DEFINE solid == {i \in DOMAIN w : w[i] # "space"}
<1>1. CASE solid = {}
  BY <1>1 DEF Trim
<1>2. CASE solid # {}
  <2>1. Trim(w) = SubSeq(w, Min(solid), Max(solid))
    BY <1>2 DEF Trim
  <2>2. solid \subseteq 1..Len(w) /\ Len(w) \in Nat /\ \A j \in 1..Len(w) : w[j] \in Char
    BY ElementOfSeq
  <2>3. Min(solid) \in Nat \ {0}
    <3>1. solid \subseteq Nat
      BY <2>2
    <3>2. Min(solid) \in solid
      BY <1>2, <3>1, MinIsLeast
    <3> HIDE DEF solid
    <3>3. Min(solid) \in 1..Len(w)
      BY <2>2, <3>2
    <3> QED BY <2>2, <3>3
  <2> DEFINE B == {d \in Nat : Len(w) - d \in solid}
  <2>4. PICK x : x \in solid
    BY <1>2
  <2>5. \E m \in solid : \A y \in solid : m >= y
    <3> HIDE DEF solid
    <3>1. Len(w) - x \in B /\ B \subseteq Nat
      <4>1. x \in 1..Len(w) /\ Len(w) - x \in Nat /\ Len(w) - (Len(w) - x) = x
        BY <2>2, <2>4
      <4> QED BY <2>4, <4>1
    <3>2. PICK d \in B : \A e \in B : d <= e
      BY <3>1, NatMin
    <3>3. d \in Nat /\ Len(w) - d \in solid
      BY <3>2
    <3>4. ASSUME NEW y \in solid PROVE Len(w) - d >= y
      <4>1. y \in 1..Len(w)
        BY <2>2
      <4>2. Len(w) - y \in Nat /\ Len(w) - (Len(w) - y) = y
        BY <2>2, <4>1
      <4>3. Len(w) - y \in B
        BY <4>2
      <4>4. d <= Len(w) - y
        BY <3>2, <4>3
      <4> QED BY <2>2, <3>3, <4>1, <4>4
    <3> QED BY <3>3, <3>4
  <2>6. Max(solid) \in solid
    <3> HIDE DEF solid
    <3> QED BY <2>5 DEF Max
  <2> HIDE DEF solid
  <2>7. Max(solid) \in 1..Len(w)
    BY <2>2, <2>6
  <2>8. Min(solid) \in Int /\ Max(solid) \in Int /\ \A j \in Min(solid)..Max(solid) : w[j] \in Char
    BY <2>2, <2>3, <2>7
  <2> QED BY <2>1, <2>8, SubSeqProperties
<1> QED
  BY <1>1, <1>2

LEMMA SectionNamesAre ==
  ASSUME NEW name \in Seq(Char)
  PROVE  [kind : {"section"}, name : SectionNames(name)] =
           LET inner == SubSeq(name, 2, Len(name) - 1)
           IN  IF name = <<>> THEN {}
               ELSE IF name[1] # "quote" THEN {[kind |-> "section", name |-> name]}
               ELSE IF FindQuote(name, 2) = Len(name) /\ Trim(Unquote(inner)) # <<>>
                      THEN {[kind |-> "section", name |-> Unquote(inner)]}
               ELSE {}
<1> DEFINE inner == SubSeq(name, 2, Len(name) - 1)
           R(S) == [kind : {"section"}, name : S]
<1>1. R({}) = {} /\ \A v : R({v}) = {[kind |-> "section", name |-> v]}
  <2>1. ASSUME NEW v, NEW r PROVE r \in R({v}) <=> r = [kind |-> "section", name |-> v]
    OBVIOUS
  <2>2. R({}) = {}
    OBVIOUS
  <2> HIDE DEF R
  <2> QED BY <2>1, <2>2
<1>2. CASE name = <<>>
  <2>1. SectionNames(name) = {}
    BY <1>2 DEF SectionNames
  <2> QED BY <1>1, <1>2, <2>1
<1>3. CASE name # <<>> /\ name[1] # "quote"
  <2>1. SectionNames(name) = {name}
    BY <1>3 DEF SectionNames
  <2> QED BY <1>1, <1>3, <2>1
<1>4. CASE name # <<>> /\ name[1] = "quote"
  <2>1. name = <<"quote">> \o Escape(Unquote(inner)) \o <<"quote">> <=> FindQuote(name, 2) = Len(name)
    BY <1>4, NamesRead
  <2>2. SectionNames(name) =
          {v \in {Unquote(inner)} :
             name = <<"quote">> \o Escape(v) \o <<"quote">> /\ Trim(v) # <<>>}
    BY <1>4 DEF SectionNames
  <2> HIDE DEF inner
  <2>3. SectionNames(name) =
          IF FindQuote(name, 2) = Len(name) /\ Trim(Unquote(inner)) # <<>> THEN {Unquote(inner)} ELSE {}
    BY <2>1, <2>2
  <2>4. R(SectionNames(name)) =
          IF FindQuote(name, 2) = Len(name) /\ Trim(Unquote(inner)) # <<>>
            THEN {[kind |-> "section", name |-> Unquote(inner)]} ELSE {}
    <3> HIDE DEF R
    <3> QED BY <1>1, <2>3
  <2> QED BY <1>4, <2>4 DEF inner, R
<1> QED
  BY <1>2, <1>3, <1>4

LEMMA NotOne == \A n \in Nat \ {0} : (n > 1 <=> n # 1) /\ (1 < n <=> n # 1)
  OBVIOUS

LEMMA MeansSection ==
  ASSUME input \in Seq(Char), NEW ts, NEW p, Lexed(input, ts, p), Stopped(p), ts # <<>>,
         ts[1].kind = "open"
  PROVE  Meanings = Meant(ts, p)
<1> DEFINE t == ts[1]
           c == UpTo(t)
           name == Trim(TextOf(t))
           inner == SubSeq(name, 2, Len(name) - 1)
<1>1. /\ Len(ts) \in Nat \ {0} /\ 1 \in 1..Len(ts) /\ From(t) = Start
      /\ Start \in 1..Len(input) /\ c \in Start..Len(input)
      /\ input[Start] = "open" /\ input[c] = "close"
      /\ \A i \in (Start + 1)..(c - 1) : input[i] # "close"
      /\ t \in Token
  BY FirstToken DEF LexedAt, Placed, Worded
<1>2. Len(input) \in Nat /\ Start + 1 = t.from /\ c - 1 = t.to /\ t.from \in Nat \ {0} /\ t.to \in Nat
  <2>1. Start = t.from - 1 /\ c = t.to + 1 /\ t.from \in Nat \ {0} /\ t.to \in Nat
    BY <1>1 DEF From, UpTo, Token
  <2> QED BY <2>1
<1>3. AtRest(SkipSpace(input, c + 1)) <=> Len(ts) = 1 /\ AtRest(p)
  BY <1>1, RestsAfter
<1>4. Pairs = {} /\ Includes = {} /\ Blanks = {}
  <2>1. ~StartsInclude(Start) /\ ~AtRest(Start)
    BY <1>1, <1>2 DEF StartsInclude, AtRest, Comment
  <2> QED BY <1>1, <2>1, NoPairs, IncludesAre, BlanksAre
<1> HIDE DEF c
<1>5. Headers = IF Len(ts) = 1 /\ AtRest(p) THEN Titles(Start, c) ELSE {}
  BY <1>1, <1>2, <1>3, HeadersOfOpen
<1>6. Titles(Start, c) = [kind : {"section"}, name : SectionNames(name)]
  BY <1>2 DEF Titles, TextOf
<1>7. name \in Seq(Char)
  <2>1. t.from \in Int /\ t.to \in Int /\ \A j \in t.from..t.to : input[j] \in Char
    <3>1. \A j \in t.from..t.to : j \in 1..Len(input)
      BY <1>1, <1>2
    <3> QED BY <1>2, <3>1, ElementOfSeq
  <2>2. TextOf(t) \in Seq(Char)
    BY <2>1, SubSeqProperties DEF TextOf
  <2> QED BY <2>2, TrimTyped
<1>8. Verdict(ts) = SectionOutcome(ts)
  BY DEF Verdict
<1>9. SectionOutcome(ts) =
        IF name = <<>> \/ Len(ts) > 1 THEN Bad
        ELSE IF name[1] # "quote" THEN [kind |-> "section", name |-> name]
        ELSE IF FindQuote(name, 2) = Len(name) /\ Trim(Unquote(inner)) # <<>>
               THEN [kind |-> "section", name |-> Unquote(inner)]
        ELSE Bad
  <2>1. Len(ts) > 1 <=> Len(ts) # 1
    BY <1>1, NotOne
  <2> HIDE DEF t
  <2>2. SectionOutcome(ts) =
          CASE name = <<>> \/ Len(ts) > 1 -> Bad
            [] name # <<>> /\ Len(ts) = 1 /\ name[1] # "quote" -> [kind |-> "section", name |-> name]
            [] OTHER -> IF FindQuote(name, 2) = Len(name) /\ Trim(Unquote(inner)) # <<>>
                          THEN [kind |-> "section", name |-> Unquote(inner)] ELSE Bad
    BY DEF SectionOutcome, t
  <2> HIDE DEF name, inner
  <2>3. CASE name = <<>> \/ Len(ts) > 1
    <3>1. ~(name # <<>> /\ Len(ts) = 1 /\ name[1] # "quote")
      BY <2>1, <2>3, Zenon
    <3> QED BY <2>2, <2>3, <3>1
  <2>4. CASE ~(name = <<>> \/ Len(ts) > 1)
    BY <2>1, <2>2, <2>4
  <2> QED BY <2>3, <2>4
<1> HIDE DEF t
<1>10. [kind : {"section"}, name : SectionNames(name)] =
         IF name = <<>> THEN {}
         ELSE IF name[1] # "quote" THEN {[kind |-> "section", name |-> name]}
         ELSE IF FindQuote(name, 2) = Len(name) /\ Trim(Unquote(inner)) # <<>>
                THEN {[kind |-> "section", name |-> Unquote(inner)]}
         ELSE {}
  <2> HIDE DEF name
  <2> QED BY <1>7, SectionNamesAre DEF inner
<1> HIDE DEF name, inner
<1>11. \A v : [kind |-> "section", name |-> v] # Bad
  BY DEF Bad
<1>12. Len(ts) > 1 <=> Len(ts) # 1
  BY <1>1, NotOne
<1> DEFINE R == [kind : {"section"}, name : SectionNames(name)]
           o == SectionOutcome(ts)
<1>13. Len(ts) = 1 => R = IF o # Bad THEN {o} ELSE {}
  BY <1>9, <1>10, <1>11, <1>12
<1>14. Len(ts) # 1 => o = Bad
  BY <1>9, <1>12
<1>15. Headers = IF Len(ts) = 1 /\ AtRest(p) THEN R ELSE {}
  BY <1>5, <1>6
<1> HIDE DEF R, o
<1>16. Headers = IF AtRest(p) /\ o # Bad THEN {o} ELSE {}
  BY <1>13, <1>14, <1>15
<1> QED
  BY <1>4, <1>8, <1>16 DEF Meanings, Meant, o

LEMMA MeansLoneEquals ==
  ASSUME input \in Seq(Char), NEW ts, NEW p, Lexed(input, ts, p), ts # <<>>,
         ts[1].kind = "equals"
  PROVE  Meanings = Meant(ts, p)
<1>1. /\ From(ts[1]) = Start /\ Start \in 1..Len(input) /\ input[Start] = "equals"
      /\ Len(input) \in Nat
  BY FirstToken DEF LexedAt, Worded
<1>2. ~StartsInclude(Start) /\ ~AtRest(Start)
  BY <1>1 DEF StartsInclude, AtRest, Comment
<1>3. Meanings = {}
  BY <1>1, <1>2, NoPairs, NoHeaders, IncludesAre, BlanksAre DEF Meanings
<1>4. Verdict(ts) = Bad
  BY DEF Verdict, PairOutcome, IsValue
<1> QED
  BY <1>3, <1>4 DEF Meant

LEMMA MeansPair ==
  ASSUME input \in Seq(Char), NEW ts, NEW p, Lexed(input, ts, p), Stopped(p), ts # <<>>,
         ts[1].kind \in {"text", "quote"}
  PROVE  Meanings = Meant(ts, p)
<1> DEFINE t == ts[1]
           q == SkipSpace(input, UpTo(t) + 1)
           key == ValueOf(t)
<1>1. /\ Len(ts) \in Nat \ {0} /\ 1 \in 1..Len(ts) /\ From(t) = Start
      /\ Start \in 1..Len(input) /\ UpTo(t) \in Start..Len(input)
      /\ Placed(input, t) /\ Worded(input, t, Delimiters) /\ input[Start] # "open"
      /\ Len(input) \in Nat
  BY FirstToken DEF LexedAt
<1>2. ~AtRest(Start) /\ ~StartsInclude(Start)
  <2>1. input[Start] \notin Comment
    <3>1. Start \in Start..UpTo(t)
      BY <1>1
    <3> QED BY <1>1, <3>1 DEF Worded, QuotedIn, BareIn, Delimiters, Comment
  <2> QED BY <1>1, <2>1 DEF AtRest, StartsInclude, Comment
<1>3. Includes = {} /\ Headers = {} /\ Blanks = {}
  BY <1>1, <1>2, NoHeaders, IncludesAre, BlanksAre
<1>4. UpTo(t) + 1 \in 1..(Len(input) + 1) /\ q \in Nat
  <2>1. UpTo(t) + 1 \in 1..(Len(input) + 1)
    BY <1>1
  <2>2. q \in (UpTo(t) + 1)..(Len(input) + 1)
    BY <2>1, SpaceSkipped
  <2> QED BY <1>1, <2>1, <2>2
<1>5. IsValue(t)
  BY DEF IsValue
<1>6. \A r : r \in Pairs <=>
        /\ q <= Len(input) /\ input[q] = "equals" /\ Trim(key) # <<>>
        /\ r \in [kind : {"pair"}, key : {key}, value : PairValues(q)]
  BY <1>1, PairsOfKey
<1>7. Verdict(ts) = PairOutcome(ts)
  BY DEF Verdict
<1> DEFINE value == IF Len(ts) = 3 THEN ValueOf(ts[3]) ELSE <<>>
           Fits == /\ Trim(key) # <<>> /\ Len(ts) \in {2, 3} /\ ts[2].kind = "equals"
                   /\ Len(ts) = 3 => IsValue(ts[3])
<1>8. PairOutcome(ts) = IF Fits THEN [kind |-> "pair", key |-> key, value |-> value] ELSE Bad
  BY <1>5 DEF PairOutcome
<1>9. [kind |-> "pair", key |-> key, value |-> value] # Bad
  BY DEF Bad
<1>10. Len(ts) = 1 => q = p
  BY <1>1, NextToken
<1>11. Len(ts) # 1 => LexedAt(input, ts[2], FALSE) /\ From(ts[2]) = q /\ 2 \in 1..Len(ts)
  <2> SUFFICES ASSUME Len(ts) # 1 PROVE LexedAt(input, ts[2], FALSE) /\ From(ts[2]) = q /\ 2 \in 1..Len(ts)
    OBVIOUS
  <2>0. 1 < Len(ts)
    BY <1>1, NotOne
  <2>1. 1 < Len(ts) /\ 1 + 1 = 2
    BY <2>0
  <2>2. LexedAt(input, ts[1 + 1], FALSE) /\ From(ts[1 + 1]) = q /\ 1 + 1 \in 1..Len(ts)
    BY <1>1, <2>1, NextToken
  <2> QED BY <2>1, <2>2
<1> HIDE DEF q, key, t, value
<1>12. CASE Len(ts) = 1
  <2>1. ~(q <= Len(input) /\ input[q] = "equals")
    BY <1>1, <1>4, <1>10, <1>12, StoppedMeans
  <2>2. Pairs = {} /\ ~Fits
    BY <1>6, <1>12, <2>1
  <2> QED BY <1>3, <1>7, <1>8, <2>2 DEF Meanings, Meant
<1>13. CASE Len(ts) # 1 /\ ts[2].kind # "equals"
  <2>1. input[q] # "equals"
    BY <1>11, <1>13, LaterToken
  <2>2. Pairs = {} /\ ~Fits
    BY <1>6, <1>13, <2>1
  <2> QED BY <1>3, <1>7, <1>8, <2>2 DEF Meanings, Meant
<1>14. CASE Len(ts) # 1 /\ ts[2].kind = "equals"
  <2>1. input[q] = "equals" /\ UpTo(ts[2]) = q /\ q \in 1..Len(input)
    BY <1>11, <1>14, LaterToken DEF Placed
  <2>2. Rest(q + 1) <=> Len(ts) = 2 /\ AtRest(p)
    <3>1. q + 1 \in 1..(Len(input) + 1)
      BY <1>1, <2>1
    <3>2. AtRest(SkipSpace(input, UpTo(ts[2]) + 1)) <=> 2 = Len(ts) /\ AtRest(p)
      BY <1>11, <1>14, RestsAfter
    <3> QED BY <2>1, <3>1, <3>2, RestIs
  <2>3. ValuesAfter(q) = IF Len(ts) = 3 /\ IsValue(ts[3]) /\ AtRest(p) THEN {ValueOf(ts[3])} ELSE {}
    <3>1. 2 + 1 = 3
      OBVIOUS
    <3>2. ValuesAfter(UpTo(ts[2])) =
            IF Len(ts) = 2 + 1 /\ IsValue(ts[2 + 1]) /\ AtRest(p) THEN {ValueOf(ts[2 + 1])} ELSE {}
      BY <1>11, <1>14, ValuesBehind
    <3> QED BY <2>1, <3>1, <3>2
  <2>4. PairValues(q) =
          IF AtRest(p) /\ Len(ts) \in {2, 3} /\ (Len(ts) = 3 => IsValue(ts[3])) THEN {value} ELSE {}
    <3>1. CASE Len(ts) = 2 /\ AtRest(p)
      BY <2>2, <3>1 DEF PairValues, value
    <3>2. CASE ~(Len(ts) = 2 /\ AtRest(p))
      <4>1. PairValues(q) = ValuesAfter(q)
        BY <2>2, <3>2 DEF PairValues
      <4> QED BY <2>3, <3>2, <4>1 DEF value
    <3> QED BY <3>1, <3>2
  <2>5. q <= Len(input)
    BY <1>1, <2>1
  <2>6. \A r : r \in Pairs <=> /\ AtRest(p) /\ Fits
                               /\ r = [kind |-> "pair", key |-> key, value |-> value]
    BY <1>6, <1>14, <2>1, <2>4, <2>5
  <2> HIDE DEF Fits
  <2>7. Pairs = IF AtRest(p) /\ Fits THEN {[kind |-> "pair", key |-> key, value |-> value]} ELSE {}
    BY <2>6
  <2>8. Meanings = Pairs
    BY <1>3 DEF Meanings
  <2> QED BY <1>7, <1>8, <1>9, <2>7, <2>8 DEF Meant
<1> QED
  BY <1>12, <1>13, <1>14

\* The line means what operator() makes of its tokens, or nothing.
LEMMA MeansVerdict ==
  ASSUME input \in Seq(Char), NEW ts, NEW p, Lexed(input, ts, p), Stopped(p),
         ts = <<>> => ~(p <= Len(input) /\ StartsInclude(p))
  PROVE  Meanings = Meant(ts, p)
<1>1. CASE ts = <<>>
  <2>1. p = Start
    BY <1>1 DEF Lexed, Start
  <2> QED BY <1>1, <2>1, MeansNothingRead
<1>2. CASE ts # <<>>
  <2>1. ts[1].kind \in {"include", "open", "equals", "text", "quote"}
    <3>1. LexedAt(input, ts[1], TRUE)
      BY <1>2, FirstToken
    <3> QED BY <3>1 DEF LexedAt, Worded
  <2> QED BY <1>2, <2>1, MeansInclude, MeansSection, MeansLoneEquals, MeansPair
<1> QED
  BY <1>1, <1>2

LEMMA NoComments ==
  ASSUME NEW s, NEW ts, NEW p, Lexed(s, ts, p)
  PROVE  ts \in Seq(Token) /\ \A i \in DOMAIN ts : ts[i].kind \notin Comment
<1>1. ASSUME NEW i \in DOMAIN ts PROVE ts[i].kind \notin Comment
  <2>1. LexedAt(s, ts[i], i = 1)
    BY DEF Lexed
  <2> QED BY <2>1 DEF LexedAt, Worded, Comment
<1> QED
  BY <1>1 DEF Lexed

LEMMA NothingErased ==
  ASSUME NEW ts, \A i \in DOMAIN ts : ts[i].kind \notin Comment
  PROVE  Uncommented(ts) = ts
  BY DEF Uncommented

LEMMA CommentErased ==
  ASSUME NEW ts \in Seq(Token), \A i \in DOMAIN ts : ts[i].kind \notin Comment,
         NEW t \in Token, t.kind \in Comment
  PROVE  Uncommented(Append(ts, t)) = ts
<1> DEFINE n == Len(ts)
           all == Append(ts, t)
           comments == {i \in DOMAIN all : all[i].kind \in Comment}
<1>1. n \in Nat /\ DOMAIN ts = 1..n
  OBVIOUS
<1>2. /\ all \in Seq(Token) /\ DOMAIN all = 1..(n + 1) /\ all[n + 1] = t
      /\ \A i \in 1..n : all[i] = ts[i]
  <2>1. /\ all \in Seq(Token) /\ Len(all) = n + 1 /\ all[n + 1] = t
        /\ \A i \in 1..n : all[i] = ts[i]
    BY AppendProperties
  <2> QED BY <2>1
<1> HIDE DEF n, all
<1>3. comments = {n + 1}
  <2>1. n + 1 \in comments
    BY <1>1, <1>2
  <2>2. ASSUME NEW i \in 1..(n + 1), i # n + 1 PROVE i \notin comments
    <3>1. i \in 1..n
      BY <1>1, <2>2
    <3> QED BY <1>1, <1>2, <3>1
  <2> QED BY <1>2, <2>1, <2>2
<1>4. Min(comments) = n + 1
  <2>1. {n + 1} \subseteq Nat /\ {n + 1} # {}
    BY <1>1
  <2>2. Min({n + 1}) \in {n + 1}
    BY <2>1, MinIsLeast
  <2> QED BY <1>3, <2>2
<1> HIDE DEF comments
<1>5. Uncommented(all) = SubSeq(all, 1, n)
  <2>1. Uncommented(all) = IF comments = {} THEN all ELSE SubSeq(all, 1, Min(comments) - 1)
    BY DEF Uncommented, comments
  <2>2. comments # {} /\ Min(comments) - 1 = n
    BY <1>1, <1>3, <1>4
  <2> QED BY <2>1, <2>2
<1>6. SubSeq(all, 1, n) = ts
  <2> DEFINE front == SubSeq(all, 1, n)
  <2>1. 1 \in Int /\ n \in Int /\ \A i \in 1..n : all[i] \in Token
    <3>1. \A i \in 1..n : ts[i] \in Token
      BY ElementOfSeq DEF n
    <3> QED BY <1>1, <1>2, <3>1
  <2>2. /\ front \in Seq(Token)
        /\ Len(front) = IF 1 <= n THEN n - 1 + 1 ELSE 0
        /\ \A k \in 1..(n - 1 + 1) : front[k] = all[1 + k - 1]
    BY <2>1, SubSeqProperties
  <2> HIDE DEF front
  <2>3. Len(front) = n
    BY <1>1, <2>2
  <2>4. ASSUME NEW k \in 1..n PROVE front[k] = ts[k]
    <3>1. k \in 1..(n - 1 + 1) /\ 1 + k - 1 = k
      BY <1>1
    <3> QED BY <1>2, <2>2, <3>1
  <2>5. front = ts
    BY <2>2, <2>3, <2>4, SeqEqual DEF n
  <2> QED BY <2>5 DEF front
<1> QED
  BY <1>5, <1>6 DEF all

\* One more token.
LEMMA LexedNext ==
  ASSUME NEW s, NEW ts, NEW p, Lexed(s, ts, p), NEW t \in Token, LexedAt(s, t, ts = <<>>),
         From(t) = p
  PROVE  Lexed(s, Append(ts, t), SkipSpace(s, UpTo(t) + 1))
<1> DEFINE n == Len(ts)
           all == Append(ts, t)
           q == SkipSpace(s, UpTo(t) + 1)
<1>0. ts \in Seq(Token) /\ n \in Nat /\ DOMAIN ts = 1..n
  BY DEF Lexed
<1>1. /\ all \in Seq(Token) /\ Len(all) = n + 1 /\ DOMAIN all = 1..(n + 1) /\ all[n + 1] = t
      /\ \A i \in 1..n : all[i] = ts[i]
  <2>1. /\ all \in Seq(Token) /\ Len(all) = n + 1 /\ all[n + 1] = t
        /\ \A i \in 1..n : all[i] = ts[i]
    BY <1>0, AppendProperties
  <2> QED BY <2>1
<1>2. ts = <<>> <=> n = 0
  BY <1>0, EmptySeq
<1>3. ts = <<>> => p = SkipSpace(s, 1)
  BY DEF Lexed
<1> HIDE DEF n, all, q
<1>4. ASSUME NEW i \in 1..n
      PROVE  /\ LexedAt(s, ts[i], i = 1) /\ (i = 1 => From(ts[i]) = SkipSpace(s, 1))
             /\ i < n => From(ts[i + 1]) = SkipSpace(s, UpTo(ts[i]) + 1)
             /\ i = n => p = SkipSpace(s, UpTo(ts[i]) + 1)
  BY <1>0 DEF Lexed, n
<1>5. ASSUME NEW i \in 1..(n + 1)
      PROVE  /\ LexedAt(s, all[i], i = 1)
             /\ i = 1 => From(all[i]) = SkipSpace(s, 1)
             /\ i < n + 1 => From(all[i + 1]) = SkipSpace(s, UpTo(all[i]) + 1)
             /\ i = n + 1 => q = SkipSpace(s, UpTo(all[i]) + 1)
  <2>1. CASE i = n + 1
    <3>1. (i = 1) = (ts = <<>>) /\ ~(i < n + 1)
      BY <1>0, <1>2, <2>1
    <3>2. all[i] = t
      BY <1>1, <2>1
    <3>3. LexedAt(s, all[i], i = 1)
      BY <3>1, <3>2
    <3>4. i = 1 => From(all[i]) = SkipSpace(s, 1)
      BY <1>3, <3>1, <3>2
    <3> QED BY <3>1, <3>2, <3>3, <3>4 DEF q
  <2>2. CASE i # n + 1
    <3>1. i \in 1..n /\ i < n + 1 /\ (i < n \/ i = n)
      BY <1>0, <2>2
    <3>2. all[i] = ts[i]
      BY <1>1, <3>1
    <3>3. From(all[i + 1]) = SkipSpace(s, UpTo(all[i]) + 1)
      <4>1. CASE i < n
        <5>1. i + 1 \in 1..n
          BY <1>0, <3>1, <4>1
        <5> QED BY <1>1, <1>4, <3>1, <3>2, <4>1, <5>1
      <4>2. CASE i = n
        BY <1>1, <1>4, <3>1, <3>2, <4>2
      <4> QED BY <3>1, <4>1, <4>2
    <3> QED BY <1>4, <2>2, <3>1, <3>2, <3>3
  <2> QED BY <2>1, <2>2
<1>6. all # <<>>
  <2>1. Len(all) # 0
    BY <1>0, <1>1
  <2> QED BY <2>1
<1>7. Lexed(s, all, q)
  BY <1>1, <1>5, <1>6 DEF Lexed
<1> QED
  BY <1>7 DEF all, q

LEMMA SpaceStep ==
  ASSUME NEW s \in Seq(Char), NEW i \in 1..Len(s), s[i] = "space"
  PROVE  SkipSpace(s, i) = SkipSpace(s, i + 1)
<1> DEFINE q == SkipSpace(s, i + 1)
<1>1. Len(s) \in Nat /\ i + 1 \in 1..(Len(s) + 1) /\ i \in 1..(Len(s) + 1)
  OBVIOUS
<1>2. /\ q \in (i + 1)..(Len(s) + 1) /\ (q <= Len(s) => s[q] # "space")
      /\ \A j \in (i + 1)..Len(s) : j < q => s[j] = "space"
  BY <1>1, SpaceSkipped
<1> HIDE DEF q
<1>3. q \in i..(Len(s) + 1) /\ \A j \in i..(q - 1) : s[j] = "space"
  BY <1>1, <1>2
<1>4. SkipSpace(s, i) = q
  BY <1>1, <1>2, <1>3, SolidIs
<1> QED
  BY <1>4 DEF q

LEMMA PastTheEnd ==
  ASSUME NEW s \in Seq(Char)
  PROVE  SkipSpace(s, Len(s) + 1) = Len(s) + 1
<1>1. Len(s) \in Nat /\ Len(s) + 1 \in 1..(Len(s) + 1)
  OBVIOUS
<1>2. SkipSpace(s, Len(s) + 1) \in (Len(s) + 1)..(Len(s) + 1)
  BY <1>1, SpaceSkipped
<1> QED
  BY <1>1, <1>2

\* What the line is known to mean: while it is scanned, its tokens up to where the
\* next one starts; then those in front of the comment; in the end, the outcome.
LineMeant ==
  /\ input \in Seq(Char) /\ last \in Nat \ {0}
  /\ stage = "tokenizing" =>
       /\ Lexed(input, tokens, first)
       /\ (tokens = <<>> /\ last = 1) \/ last < first
  /\ stage = "tokenized" =>
       \E p \in 1..(Len(input) + 1) :
         /\ Lexed(input, Uncommented(tokens), p) /\ AtRest(p)
         /\ Uncommented(tokens) = <<>> => ~(p <= Len(input) /\ StartsInclude(p))
  /\ OutcomeMatchesFormat

LEMMA SameMeanings == ASSUME input' = input PROVE Meanings' = Meanings
<1>1. Pairs' = Pairs
  BY DEF Pairs, KeyAt, ValuesAfter, ValueAt, Rest, Spaces, QuotedAt, BareAt
<1>2. Includes' = Includes
  BY DEF Includes, ValuesAfter, ValueAt, Rest, Spaces, QuotedAt, BareAt, StartsInclude
<1>3. Headers' = Headers
  BY DEF Headers, Rest, Spaces
<1>4. Blanks' = Blanks
  BY DEF Blanks, Rest, Spaces, StartsInclude
<1> QED
  BY <1>1, <1>2, <1>3, <1>4 DEF Meanings

\* The line is done with, and the outcome is its meaning.
LEMMA Settle ==
  ASSUME LineMeant, input' = input, last' = last, stage' = "done",
         Meanings = IF outcome' # Bad THEN {outcome'} ELSE {}
  PROVE  LineMeant'
<1>1. Meanings' = Meanings
  BY SameMeanings
<1>2. OutcomeMatchesFormat'
  <2>1. IF Meanings' = {} THEN outcome' = Bad ELSE Meanings' = {outcome'}
    BY <1>1
  <2> QED BY <2>1 DEF OutcomeMatchesFormat, Meanings
<1> QED
  BY <1>2 DEF LineMeant

\* A token after which the loop goes on behind l.
LEMMA PushMeant ==
  ASSUME LineMeant, stage = "tokenizing", first \in 1..Len(input),
         NEW kind, NEW from, NEW to, NEW l,
         Push(kind, from, to, l),
         [kind |-> kind, from |-> from, to |-> to] \in Token,
         From([kind |-> kind, from |-> from, to |-> to]) = first,
         LexedAt(input, [kind |-> kind, from |-> from, to |-> to], tokens = <<>>),
         l \in 1..Len(input),
         SkipSpace(input, l + 1) = SkipSpace(input, UpTo([kind |-> kind, from |-> from, to |-> to]) + 1)
  PROVE  LineMeant'
<1> DEFINE t == [kind |-> kind, from |-> from, to |-> to]
<1>1. /\ input' = input /\ stage' = "tokenizing" /\ tokens' = Append(tokens, t)
      /\ first' = SkipSpace(input, l + 1) /\ last' = l
  BY DEF Push
<1>2. Lexed(input, tokens, first) /\ input \in Seq(Char)
  BY DEF LineMeant
<1>3. t \in Token /\ From(t) = first /\ LexedAt(input, t, tokens = <<>>)
      /\ first' = SkipSpace(input, UpTo(t) + 1)
  BY <1>1
<1> HIDE DEF t
<1>4. Lexed(input, Append(tokens, t), SkipSpace(input, UpTo(t) + 1))
  BY <1>2, <1>3, LexedNext
<1>5. Lexed(input', tokens', first')
  BY <1>1, <1>3, <1>4
<1>6. last' < first' /\ last' \in Nat \ {0}
  <2>1. l + 1 \in 1..(Len(input) + 1) /\ l \in Nat /\ Len(input) \in Nat
    BY <1>2
  <2>2. first' \in (l + 1)..(Len(input) + 1)
    BY <1>1, <1>2, <2>1, SpaceSkipped
  <2> QED BY <1>1, <2>1, <2>2
<1> QED
  BY <1>1, <1>2, <1>5, <1>6 DEF LineMeant, OutcomeMatchesFormat

\* The scan is over, with tokens ts in front of the comment.
LEMMA TokenizedMeant ==
  ASSUME LineMeant, input' = input, last' = last, stage' = "tokenized",
         NEW p \in 1..(Len(input) + 1), Lexed(input, Uncommented(tokens'), p), AtRest(p),
         Uncommented(tokens') = <<>> => ~(p <= Len(input) /\ StartsInclude(p))
  PROVE  LineMeant'
<1>1. AtRest(p)' /\ (StartsInclude(p)' <=> StartsInclude(p))
  BY DEF AtRest, StartsInclude
<1>2. Lexed(input', Uncommented(tokens'), p)
  OBVIOUS
<1>3. input' \in Seq(Char) /\ last' \in Nat \ {0}
  BY DEF LineMeant
<1> QED
  BY <1>1, <1>2, <1>3 DEF LineMeant, OutcomeMatchesFormat

LEMMA QuotedMeant == ASSUME Scanned, LineMeant, Quoted PROVE LineMeant'
<1> DEFINE end == FindQuote(input, first + 1)
<1>1. /\ stage = "tokenizing" /\ first <= Len(input) /\ first \in 1..Len(input)
      /\ input \in Seq(Char) /\ Len(input) \in Nat /\ input[first] = "quote"
  BY ScanningFacts DEF Quoted
<1>2. Lexed(input, tokens, first)
  BY <1>1 DEF LineMeant
<1>3. CASE end \in {NotFound, Malformed}
  <2>1. Throw
    BY <1>3 DEF Quoted
  <2>2. Unreadable(first) /\ ~StartsInclude(first) /\ ~AtRest(first)
    BY <1>1, <1>3 DEF Unreadable, StartsInclude, AtRest, Comment
  <2>3. Meanings = Meant(tokens, first)
    BY <1>1, <1>2, <2>2, MeansVerdict DEF Stopped
  <2>4. Meanings = {}
    BY <2>2, <2>3 DEF Meant
  <2> QED BY <2>1, <2>4, Settle DEF Throw
<1>4. CASE end \notin {NotFound, Malformed}
  <2>1. Push("quote", first + 1, end - 1, end)
    BY <1>4 DEF Quoted
  <2>2. end \in (first + 1)..Len(input)
    <3>1. first + 1 \in 1..(Len(input) + 2)
      BY <1>1
    <3> QED BY <1>1, <1>4, <3>1, QuotedText
  <2>3. QuotedIn(input, first, end)
    BY <1>1, <2>2 DEF QuotedIn
  <2> HIDE DEF end
  <2> DEFINE t == [kind |-> "quote", from |-> first + 1, to |-> end - 1]
  <2>4. t \in Token /\ From(t) = first /\ UpTo(t) = end /\ t.kind = "quote"
    BY <1>1, <2>2 DEF Token, From, UpTo
  <2> HIDE DEF t
  <2>5. Placed(input, t)
    BY <1>1, <2>2, <2>4 DEF Placed
  <2>6. LexedAt(input, t, tokens = <<>>)
    BY <1>1, <2>3, <2>4, <2>5 DEF LexedAt, Worded
  <2>7. end \in 1..Len(input) /\ SkipSpace(input, end + 1) = SkipSpace(input, UpTo(t) + 1)
    BY <1>1, <2>2, <2>4
  <2> QED BY <1>1, <2>1, <2>4, <2>6, <2>7, PushMeant DEF t
<1> QED
  BY <1>3, <1>4

LEMMA IncludeMeant == ASSUME Scanned, LineMeant, IncludeWord PROVE LineMeant'
<1>1. /\ stage = "tokenizing" /\ first <= Len(input) /\ first \in 1..Len(input)
      /\ input \in Seq(Char) /\ Len(input) \in Nat /\ input[first] = "hash"
  BY ScanningFacts DEF IncludeWord
<1>2. /\ first + 1 <= Len(input) /\ Push("include", first + 1, first + 1, first + 1)
      /\ tokens = <<>> /\ input[first + 1] = "word"
      /\ first + 1 = Len(input) \/ input[first + 2] = "space"
  BY <1>1 DEF IncludeWord, IsInclude
<1> DEFINE t == [kind |-> "include", from |-> first + 1, to |-> first + 1]
<1>3. t \in Token /\ From(t) = first /\ UpTo(t) = first + 1 /\ t.kind = "include"
  BY <1>1 DEF Token, From, UpTo
<1> HIDE DEF t
<1>4. Placed(input, t)
  BY <1>1, <1>2, <1>3 DEF Placed
<1>5. LexedAt(input, t, tokens = <<>>)
  BY <1>1, <1>2, <1>3, <1>4 DEF LexedAt
<1>6. first + 1 \in 1..Len(input) /\ SkipSpace(input, (first + 1) + 1) = SkipSpace(input, UpTo(t) + 1)
  BY <1>1, <1>2, <1>3
<1> QED
  BY <1>1, <1>2, <1>3, <1>5, <1>6, PushMeant DEF t

LEMMA CommentMeant == ASSUME Scanned, LineMeant, CommentTail PROVE LineMeant'
<1>1. /\ stage = "tokenizing" /\ first <= Len(input) /\ first \in 1..Len(input)
      /\ input \in Seq(Char) /\ Len(input) \in Nat /\ input[first] \in Comment
      /\ PushRest(input[first], first + 1)
  BY ScanningFacts DEF CommentTail
<1>2. Lexed(input, tokens, first)
  BY <1>1 DEF LineMeant
<1> DEFINE t == [kind |-> input[first], from |-> first + 1, to |-> Len(input)]
<1>3. t \in Token /\ t.kind \in Comment
  BY <1>1 DEF Token, Comment
<1>4. /\ input' = input /\ last' = last /\ stage' = "tokenized" /\ tokens' = Append(tokens, t)
  BY <1>1 DEF PushRest
<1> HIDE DEF t
<1>5. Uncommented(tokens') = tokens
  <2>1. tokens \in Seq(Token) /\ \A i \in DOMAIN tokens : tokens[i].kind \notin Comment
    BY <1>2, NoComments
  <2> QED BY <1>3, <1>4, <2>1, CommentErased
<1>6. AtRest(first) /\ first \in 1..(Len(input) + 1)
  BY <1>1 DEF AtRest
<1>7. tokens = <<>> => ~StartsInclude(first)
  BY <1>1 DEF CommentTail, IsInclude, StartsInclude
<1> QED
  BY <1>2, <1>4, <1>5, <1>6, <1>7, TokenizedMeant

LEMMA EqualsMeant == ASSUME Scanned, LineMeant, Equals PROVE LineMeant'
<1>1. /\ stage = "tokenizing" /\ first <= Len(input) /\ first \in 1..Len(input)
      /\ input \in Seq(Char) /\ Len(input) \in Nat /\ input[first] = "equals"
  BY ScanningFacts DEF Equals
<1>2. Push("equals", first, first, first)
  BY DEF Equals
<1> DEFINE t == [kind |-> "equals", from |-> first, to |-> first]
<1>3. t \in Token /\ From(t) = first /\ UpTo(t) = first /\ t.kind = "equals"
  BY <1>1 DEF Token, From, UpTo
<1> HIDE DEF t
<1>4. Placed(input, t)
  BY <1>1, <1>3 DEF Placed
<1>5. LexedAt(input, t, tokens = <<>>)
  BY <1>1, <1>3, <1>4 DEF LexedAt
<1>6. SkipSpace(input, first + 1) = SkipSpace(input, UpTo(t) + 1)
  BY <1>3
<1> QED
  BY <1>1, <1>2, <1>3, <1>5, <1>6, PushMeant DEF t

LEMMA SectionMeant == ASSUME Scanned, LineMeant, Section PROVE LineMeant'
<1> DEFINE end == Find(input, first + 1, {"close"})
<1>1. /\ stage = "tokenizing" /\ first <= Len(input) /\ first \in 1..Len(input)
      /\ input \in Seq(Char) /\ Len(input) \in Nat /\ input[first] = "open" /\ tokens = <<>>
      /\ first + 1 \in Nat \ {0}
  BY ScanningFacts DEF Section
<1>2. first = Start
  BY <1>1 DEF LineMeant, Lexed, Start
<1>3. \/ /\ end \in (first + 1)..Len(input) /\ input[end] \in {"close"}
         /\ \A i \in (first + 1)..Len(input) : i < end => input[i] \notin {"close"}
      \/ end = NotFound /\ \A i \in (first + 1)..Len(input) : input[i] \notin {"close"}
  BY <1>1, FindMeans
<1> HIDE DEF end
<1>4. CASE end = NotFound \/ last = Len(input)
  <2>1. Throw
    BY <1>4 DEF Section, end
  <2>2. \A i \in (first + 1)..Len(input) : input[i] # "close"
    <3>1. last = Len(input) => first + 1 > Len(input)
      <4>1. last = 1 \/ last < first
        BY <1>1 DEF LineMeant
      <4> QED BY <1>1, <4>1
    <3>2. end = NotFound => ~(end \in (first + 1)..Len(input))
      BY <1>1 DEF NotFound
    <3> QED BY <1>1, <1>3, <1>4, <3>1, <3>2
  <2>3. ~StartsInclude(Start) /\ ~AtRest(Start)
    BY <1>1, <1>2 DEF StartsInclude, AtRest, Comment
  <2>4. Meanings = {}
    BY <1>1, <1>2, <2>2, <2>3, NoPairs, NoHeaders, IncludesAre, BlanksAre DEF Meanings
  <2> QED BY <2>1, <2>4, Settle DEF Throw
<1>5. CASE ~(end = NotFound \/ last = Len(input))
  <2>1. Push("open", first + 1, end - 1, end)
    BY <1>5 DEF Section, end
  <2> DEFINE t == [kind |-> "open", from |-> first + 1, to |-> end - 1]
  <2>2. end \in (first + 1)..Len(input) /\ input[end] = "close"
        /\ \A i \in (first + 1)..(end - 1) : input[i] # "close"
    BY <1>1, <1>3, <1>5
  <2>3. t \in Token /\ From(t) = first /\ UpTo(t) = end /\ t.kind = "open"
    BY <1>1, <2>2 DEF Token, From, UpTo
  <2> HIDE DEF t
  <2>4. Placed(input, t)
    BY <1>1, <2>2, <2>3 DEF Placed
  <2>5. LexedAt(input, t, tokens = <<>>)
    BY <1>1, <2>2, <2>3, <2>4 DEF LexedAt
  <2>6. end \in 1..Len(input) /\ SkipSpace(input, end + 1) = SkipSpace(input, UpTo(t) + 1)
    BY <1>1, <2>2, <2>3
  <2> QED BY <1>1, <2>1, <2>3, <2>5, <2>6, PushMeant DEF t
<1> QED
  BY <1>4, <1>5

\* A text ends where the next space or delimiter is, or with the line.
LEMMA TextMeant == ASSUME Scanned, LineMeant, Text PROVE LineMeant'
<1> DEFINE ends == IF tokens = <<>> THEN Delimiters ELSE Comment
           end == Find(input, first + 1, ends)
<1>1. /\ stage = "tokenizing" /\ first <= Len(input) /\ first \in 1..Len(input)
      /\ input \in Seq(Char) /\ Len(input) \in Nat /\ first + 1 \in Nat \ {0}
      /\ \/ input[first] \in {"backslash", "close", "word", "letter"}
         \/ input[first] \in {"open"} /\ tokens # <<>>
  <2>1. CASE Scanning({"backslash", "close", "word", "letter"})
    BY <2>1, ScanningFacts
  <2>2. CASE Scanning({"open"}) /\ tokens # <<>>
    BY <2>2, ScanningFacts
  <2> QED BY <2>1, <2>2 DEF Text
<1>2. Lexed(input, tokens, first) /\ (last = 1 \/ last < first) /\ last \in Nat \ {0}
  BY <1>1 DEF LineMeant
<1>3. \/ /\ end \in (first + 1)..Len(input) /\ input[end] \in ends
         /\ \A i \in (first + 1)..Len(input) : i < end => input[i] \notin ends
      \/ end = NotFound /\ \A i \in (first + 1)..Len(input) : input[i] \notin ends
  <2> HIDE DEF ends
  <2> QED BY <1>1, FindMeans
<1>4. /\ input[first] \notin ends /\ input[first] \notin {"space", "quote", "equals"}
      /\ tokens = <<>> => input[first] # "open"
  BY <1>1 DEF Delimiters, Comment
<1>5. CASE end = NotFound \/ last = Len(input)
  <2>1. PushRest("text", first)
    BY <1>5 DEF Text
  <2> HIDE DEF ends
  <2>2. \A i \in (first + 1)..Len(input) : input[i] \notin ends
    <3> HIDE DEF end
    <3>1. last = Len(input) => first + 1 > Len(input)
      BY <1>1, <1>2
    <3>2. end = NotFound => ~(end \in (first + 1)..Len(input))
      BY <1>1 DEF NotFound
    <3> QED BY <1>1, <1>3, <1>5, <3>1, <3>2
  <2> DEFINE t == [kind |-> "text", from |-> first, to |-> Len(input)]
  <2>3. t \in Token /\ From(t) = first /\ UpTo(t) = Len(input) /\ t.kind = "text"
    BY <1>1 DEF Token, From, UpTo
  <2>4. /\ input' = input /\ last' = last /\ stage' = "tokenized" /\ tokens' = Append(tokens, t)
    BY <2>1 DEF PushRest
  <2> HIDE DEF t
  <2>5. Placed(input, t)
    BY <1>1, <2>3 DEF Placed
  <2>6. BareIn(input, first, Len(input), ends)
    BY <1>1, <1>4, <2>2 DEF BareIn
  <2>7. LexedAt(input, t, tokens = <<>>)
    BY <1>4, <2>3, <2>5, <2>6 DEF LexedAt, Worded, ends
  <2>8. Lexed(input, tokens', Len(input) + 1)
    BY <1>1, <1>2, <2>3, <2>4, <2>7, LexedNext, PastTheEnd
  <2>9. Uncommented(tokens') = tokens'
    BY <2>8, NoComments, NothingErased
  <2>10. AtRest(Len(input) + 1) /\ Len(input) + 1 \in 1..(Len(input) + 1)
    BY <1>1 DEF AtRest
  <2>11. ~(Len(input) + 1 <= Len(input))
    BY <1>1
  <2> QED BY <2>4, <2>8, <2>9, <2>10, <2>11, TokenizedMeant
<1>6. CASE ~(end = NotFound \/ last = Len(input))
  <2> DEFINE l == IF input[end] = "space" THEN end ELSE end - 1
  <2>1. Push("text", first, end - 1, l)
    BY <1>6 DEF Text
  <2> HIDE DEF ends, end
  <2>2. /\ end \in (first + 1)..Len(input) /\ input[end] \in ends
        /\ \A i \in (first + 1)..(end - 1) : input[i] \notin ends
    BY <1>1, <1>3, <1>6
  <2> DEFINE t == [kind |-> "text", from |-> first, to |-> end - 1]
  <2>3. t \in Token /\ From(t) = first /\ UpTo(t) = end - 1 /\ t.kind = "text"
    BY <1>1, <2>2 DEF Token, From, UpTo
  <2>4. (end - 1) + 1 = end /\ end \in 1..Len(input) /\ end - 1 \in first..Len(input)
        /\ end - 1 \in 1..Len(input)
    BY <1>1, <2>2
  <2> HIDE DEF t
  <2>5. Placed(input, t)
    BY <1>1, <2>3, <2>4 DEF Placed
  <2>6. BareIn(input, first, end - 1, ends)
    <3>1. ASSUME NEW i \in first..(end - 1) PROVE input[i] \notin ends
      <4>1. i = first \/ i \in (first + 1)..(end - 1)
        BY <1>1
      <4> QED BY <1>4, <2>2, <4>1
    <3> QED BY <1>4, <2>2, <2>4, <3>1 DEF BareIn
  <2>7. LexedAt(input, t, tokens = <<>>)
    BY <1>4, <2>3, <2>5, <2>6 DEF LexedAt, Worded, ends
  <2>8. l \in 1..Len(input) /\ SkipSpace(input, l + 1) = SkipSpace(input, UpTo(t) + 1)
    <3>1. CASE input[end] = "space"
      <4>1. l = end
        BY <3>1
      <4>2. SkipSpace(input, end) = SkipSpace(input, end + 1)
        BY <1>1, <2>4, <3>1, SpaceStep
      <4> QED BY <2>3, <2>4, <4>1, <4>2
    <3>2. CASE input[end] # "space"
      BY <2>3, <2>4, <3>2
    <3> QED BY <3>1, <3>2
  <2> HIDE DEF l
  <2> QED BY <1>1, <2>1, <2>3, <2>7, <2>8, PushMeant DEF t
<1> QED
  BY <1>5, <1>6

LEMMA EndMeant == ASSUME Scanned, LineMeant, EndOfLine PROVE LineMeant'
<1>1. /\ stage = "tokenizing" /\ first > Len(input) /\ first \in 1..(Len(input) + 1)
      /\ input' = input /\ last' = last /\ stage' = "tokenized" /\ tokens' = tokens
  BY DEF EndOfLine, Scanned
<1>2. Lexed(input, tokens, first)
  BY <1>1 DEF LineMeant
<1>3. Uncommented(tokens') = tokens
  BY <1>1, <1>2, NoComments, NothingErased
<1>4. AtRest(first) /\ ~(first <= Len(input))
  <2>1. first \in Nat /\ Len(input) \in Nat
    BY <1>1 DEF Scanned
  <2> QED BY <1>1, <2>1 DEF AtRest
<1> QED
  BY <1>1, <1>2, <1>3, <1>4, TokenizedMeant

LEMMA InterpretMeant == ASSUME LineMeant, Interpret PROVE LineMeant'
<1> DEFINE ts == Uncommented(tokens)
<1>1. /\ stage = "tokenized" /\ stage' = "done" /\ input' = input /\ last' = last
      /\ outcome' = Verdict(ts)
  BY DEF Interpret, Verdict
<1>2. input \in Seq(Char)
  BY DEF LineMeant
<1>3. PICK p \in 1..(Len(input) + 1) :
             /\ Lexed(input, ts, p) /\ AtRest(p)
             /\ ts = <<>> => ~(p <= Len(input) /\ StartsInclude(p))
  BY <1>1 DEF LineMeant
<1> HIDE DEF ts
<1>4. Meanings = Meant(ts, p)
  BY <1>2, <1>3, MeansVerdict DEF Stopped
<1>5. Meanings = IF outcome' # Bad THEN {outcome'} ELSE {}
  BY <1>1, <1>3, <1>4 DEF Meant
<1> QED
  BY <1>1, <1>5, Settle

LEMMA MeantInit == LineInit => LineMeant
<1> SUFFICES ASSUME LineInit PROVE LineMeant
  OBVIOUS
<1>1. input \in Seq(Char) /\ last = 1 /\ tokens = <<>> /\ stage = "tokenizing"
      /\ first = SkipSpace(input, 1)
  BY InputsAssumption DEF LineInit
<1>2. tokens \in Seq(Token) /\ DOMAIN tokens = {}
  BY <1>1
<1>3. Lexed(input, tokens, first)
  BY <1>1, <1>2 DEF Lexed
<1> QED
  BY <1>1, <1>3 DEF LineMeant, OutcomeMatchesFormat

LEMMA MeantStep == Scanned /\ LineMeant /\ [LineNext]_lineVars => LineMeant'
<1> SUFFICES ASSUME Scanned, LineMeant, [LineNext]_lineVars PROVE LineMeant'
  OBVIOUS
<1>1. CASE UNCHANGED lineVars
  <2>1. /\ input' = input /\ last' = last /\ first' = first /\ tokens' = tokens
        /\ stage' = stage /\ outcome' = outcome
    BY <1>1 DEF lineVars
  <2>2. CASE stage = "tokenizing"
    <3>1. Lexed(input', tokens', first') /\ input' \in Seq(Char) /\ last' \in Nat \ {0}
          /\ ((tokens' = <<>> /\ last' = 1) \/ last' < first')
      BY <2>1, <2>2 DEF LineMeant
    <3> QED BY <2>1, <2>2, <3>1 DEF LineMeant, OutcomeMatchesFormat
  <2>3. CASE stage = "tokenized"
    <3>1. PICK p \in 1..(Len(input) + 1) :
                 /\ Lexed(input, Uncommented(tokens), p) /\ AtRest(p)
                 /\ Uncommented(tokens) = <<>> => ~(p <= Len(input) /\ StartsInclude(p))
      BY <2>3 DEF LineMeant
    <3>2. Uncommented(tokens') = Uncommented(tokens)
      BY <2>1
    <3> QED BY <2>1, <2>3, <3>1, <3>2, TokenizedMeant
  <2>4. CASE stage = "done"
    <3>1. Meanings' = Meanings
      BY <2>1, SameMeanings
    <3>2. IF Meanings = {} THEN outcome = Bad ELSE Meanings = {outcome}
      BY <2>4 DEF LineMeant, OutcomeMatchesFormat, Meanings
    <3>3. IF Meanings' = {} THEN outcome' = Bad ELSE Meanings' = {outcome'}
      BY <2>1, <3>1, <3>2
    <3>4. OutcomeMatchesFormat'
      BY <3>3 DEF OutcomeMatchesFormat, Meanings
    <3> QED BY <2>1, <2>4, <3>4 DEF LineMeant
  <2> QED BY <2>2, <2>3, <2>4 DEF Scanned
<1> QED
  BY <1>1, QuotedMeant, IncludeMeant, CommentMeant, EqualsMeant, SectionMeant, TextMeant,
     EndMeant, InterpretMeant DEF LineNext

\* Whatever the line, tokenize() and operator() make of it what the format says: the
\* one thing it can be split into, or an error if it cannot be split (lines 160-318).
THEOREM LineRead == LineSpec => []OutcomeMatchesFormat
<1>1. LineMeant => OutcomeMatchesFormat
  BY DEF LineMeant
<1> QED
  BY <1>1, MeantInit, MeantStep, ScannedInit, ScannedStep, PTL DEF LineSpec

LEMMA WordsTyped ==
  ASSUME input \in Seq(Char), NEW t, Placed(input, t)
  PROVE  TextOf(t) \in Seq(Char) /\ ValueOf(t) \in Seq(Char)
<1>1. /\ t.from \in Nat \ {0} /\ t.to \in Nat /\ Len(input) \in Nat
      /\ t.from - 1 <= From(t) /\ From(t) <= t.from /\ t.to <= UpTo(t) /\ UpTo(t) <= Len(input)
  BY DEF Placed, Token, From, UpTo
<1>2. \A j \in t.from..t.to : j \in 1..Len(input)
  <2>1. t.to <= Len(input)
    <3>1. UpTo(t) \in Int
      BY DEF Placed
    <3> QED BY <1>1, <3>1
  <2> QED BY <1>1, <2>1
<1>3. TextOf(t) \in Seq(Char)
  <2>1. t.from \in Int /\ t.to \in Int /\ \A j \in t.from..t.to : input[j] \in Char
    BY <1>1, <1>2, ElementOfSeq
  <2> QED BY <2>1, SubSeqProperties DEF TextOf
<1> QED
  BY <1>3, UnquoteTyped, TrimTyped DEF ValueOf

LEMMA VerdictTyped ==
  ASSUME input \in Seq(Char), NEW ts, NEW p, Lexed(input, ts, p)
  PROVE  Verdict(ts) \in Outcome
<1>1. Len(ts) \in Nat /\ DOMAIN ts = 1..Len(ts)
  BY DEF Lexed
<1>2. ASSUME NEW i \in 1..Len(ts)
      PROVE  TextOf(ts[i]) \in Seq(Char) /\ ValueOf(ts[i]) \in Seq(Char)
  BY <1>1, WordsTyped DEF Lexed, LexedAt
<1>3. Bad \in Outcome /\ [kind |-> "blank"] \in Outcome
  BY DEF Outcome
<1>4. \A v \in Seq(Char) : /\ [kind |-> "include", name |-> v] \in Outcome
                           /\ [kind |-> "section", name |-> v] \in Outcome
  BY DEF Outcome
<1>5. \A k \in Seq(Char), v \in Seq(Char) : [kind |-> "pair", key |-> k, value |-> v] \in Outcome
  BY DEF Outcome
<1>6. IncludeOutcome(ts) \in Outcome
  <2>1. CASE Len(ts) = 2
    <3>1. ValueOf(ts[2]) \in Seq(Char)
      BY <1>2, <2>1
    <3>2. Trim(ValueOf(ts[2])) \in Seq(Char)
      BY <3>1, TrimTyped
    <3> QED BY <1>3, <1>4, <3>2 DEF IncludeOutcome
  <2>2. CASE Len(ts) # 2
    BY <1>3, <2>2 DEF IncludeOutcome
  <2> QED BY <2>1, <2>2
<1>7. ASSUME ts # <<>> PROVE SectionOutcome(ts) \in Outcome
  <2> DEFINE name == Trim(TextOf(ts[1]))
             inner == SubSeq(name, 2, Len(name) - 1)
  <2>0. Len(ts) # 0 /\ ts \in Seq(Token)
    BY <1>7, EmptySeq DEF Lexed
  <2>1. name \in Seq(Char)
    <3>1. 1 \in 1..Len(ts)
      BY <1>1, <2>0
    <3>2. TextOf(ts[1]) \in Seq(Char)
      BY <1>2, <3>1
    <3> QED BY <3>2, TrimTyped
  <2> HIDE DEF name
  <2>2. inner \in Seq(Char)
    <3>1. \A j \in 2..(Len(name) - 1) : name[j] \in Char
      <4>1. \A j \in 2..(Len(name) - 1) : j \in 1..Len(name)
        BY <2>1
      <4> QED BY <2>1, <4>1, ElementOfSeq
    <3>2. 2 \in Int /\ Len(name) - 1 \in Int
      BY <2>1
    <3> QED BY <3>1, <3>2, SubSeqProperties
  <2> HIDE DEF inner
  <2>3. Unquote(inner) \in Seq(Char)
    BY <2>2, UnquoteTyped
  <2>4. SectionOutcome(ts) \in {Bad, [kind |-> "section", name |-> name],
                                [kind |-> "section", name |-> Unquote(inner)]}
    <3>1. SectionOutcome(ts) =
            CASE name = <<>> \/ Len(ts) > 1 -> Bad
              [] name # <<>> /\ Len(ts) = 1 /\ name[1] # "quote" -> [kind |-> "section", name |-> name]
              [] OTHER -> IF FindQuote(name, 2) = Len(name) /\ Trim(Unquote(inner)) # <<>>
                            THEN [kind |-> "section", name |-> Unquote(inner)] ELSE Bad
      BY DEF SectionOutcome, name, inner
    <3>2. Len(ts) = 1 => ~(Len(ts) > 1)
      BY <1>1
    <3>3. CASE name = <<>> \/ Len(ts) > 1
      <4>1. ~(name # <<>> /\ Len(ts) = 1 /\ name[1] # "quote")
        BY <3>2, <3>3, Zenon
      <4> QED BY <3>1, <3>3, <4>1
    <3>4. CASE ~(name = <<>> \/ Len(ts) > 1)
      BY <3>1, <3>4
    <3> QED BY <3>3, <3>4
  <2> QED BY <1>3, <1>4, <2>1, <2>3, <2>4
<1>8. PairOutcome(ts) \in Outcome
  <2>1. CASE Len(ts) \in {2, 3}
    <3> DEFINE Inside(n) == 1 \in 1..n /\ (n = 3 => 3 \in 1..n)
    <3>1. Inside(Len(ts))
      <4>1. Inside(2) /\ Inside(3)
        OBVIOUS
      <4> HIDE DEF Inside
      <4> QED BY <2>1, <4>1
    <3>2. ValueOf(ts[1]) \in Seq(Char) /\ (Len(ts) = 3 => ValueOf(ts[3]) \in Seq(Char))
      BY <1>2, <3>1
    <3>3. <<>> \in Seq(Char)
      OBVIOUS
    <3> DEFINE value == IF Len(ts) = 3 THEN ValueOf(ts[3]) ELSE <<>>
    <3>4. value \in Seq(Char)
      BY <3>2, <3>3
    <3>5. PairOutcome(ts) \in {Bad, [kind |-> "pair", key |-> ValueOf(ts[1]), value |-> value]}
      BY DEF PairOutcome
    <3> HIDE DEF value
    <3> QED BY <1>3, <1>5, <3>2, <3>4, <3>5
  <2>2. CASE Len(ts) \notin {2, 3}
    BY <1>3, <2>2 DEF PairOutcome
  <2> QED BY <2>1, <2>2
<1> QED
  BY <1>3, <1>6, <1>7, <1>8 DEF Verdict

\* Each variable of the scan stays in its set: in particular, what operator() reads
\* from a line is made of the line's own characters.
THEOREM LineTypeCorrect == LineSpec => []LineTypeOK
<1> DEFINE Typed == outcome \in Outcome
<1>1. LineInit => Typed
  BY DEF LineInit, Outcome
<1>2. Scanned /\ LineMeant /\ Typed /\ [LineNext]_lineVars => Typed'
  <2> SUFFICES ASSUME Scanned, LineMeant, Typed, [LineNext]_lineVars PROVE Typed'
    OBVIOUS
  <2>1. CASE Interpret
    <3>1. stage = "tokenized" /\ outcome' = Verdict(Uncommented(tokens)) /\ input \in Seq(Char)
      BY <2>1 DEF Interpret, Verdict, Scanned
    <3>2. PICK p \in 1..(Len(input) + 1) : Lexed(input, Uncommented(tokens), p)
      BY <3>1 DEF LineMeant
    <3> QED BY <3>1, <3>2, VerdictTyped
  <2>2. CASE outcome' = outcome
    BY <2>2
  <2>3. CASE outcome' = Bad
    BY <2>3 DEF Outcome
  <2>4. Quoted => outcome' = outcome \/ outcome' = Bad
    BY DEF Quoted, Push, Throw
  <2>5. Section => outcome' = outcome \/ outcome' = Bad
    BY DEF Section, Push, Throw
  <2>6. IncludeWord \/ CommentTail \/ Equals \/ Text \/ EndOfLine \/ UNCHANGED lineVars
          => outcome' = outcome
    BY DEF IncludeWord, CommentTail, Equals, Text, EndOfLine, Push, PushRest, lineVars
  <2> QED BY <2>1, <2>2, <2>3, <2>4, <2>5, <2>6 DEF LineNext
<1>3. Scanned /\ LineMeant /\ Typed => LineTypeOK
  BY DEF Scanned, LineMeant, LineTypeOK
<1> QED
  BY <1>1, <1>2, <1>3, MeantInit, MeantStep, ScannedInit, ScannedStep, PTL DEF LineSpec
================================================================================
