------------------------------ MODULE MCIniParser ------------------------------
(***************************************************************************)
(* An instance of IniParser: three files in two directories that may       *)
(* include each other and themselves, with every content of up to MaxLines *)
(* lines, and the first of them also with a section, an include and a      *)
(* pair. Files that nobody changes have lines of every kind but blank;     *)
(* while one location changes at any time, there are lines that include    *)
(* and blank ones.                                                         *)
(***************************************************************************)
EXTENDS IniParser

CONSTANTS a, b, c, d1, d2, MaxLines

MCDir == a :> d1 @@ b :> d1 @@ c :> d2
MCRoot == <<d1, "root">>

\* "x" is b seen from a and b, a seen from c; "y" is c, or missing seen from c.
MCLinks == <<d1, "root">> :> a @@ <<d1, "x">> :> b @@ <<d1, "y">> :> c @@
           <<d2, "root">> :> b @@ <<d2, "x">> :> a @@ <<d2, "y">> :> Absent

\* The location that another process keeps changing.
MCMutable == {<<d1, "x">>}

Pair       == [kind |-> "pair", key |-> "k"]
Section    == [kind |-> "section", prefix |-> "s."]
Include(n) == [kind |-> "include", name |-> n]
Blank      == [kind |-> "blank"]
Bad        == [kind |-> "bad"]

UpTo(lines) == UNION {[1..n -> lines] : n \in 0..MaxLines}
WithLines(lines) == [Files -> UpTo(lines)]

AnyLine == {Pair, Section, Include("x"), Include("y"), Bad}

\* The root has a section, an include and a pair, in any order.
Mixed ==
  {lines \in [1..3 -> AnyLine] :
     {"pair", "section", "include"} = {lines[i].kind : i \in 1..3}}

MixedRoots == {[f \in Files |-> IF f = a THEN lines ELSE rest[f]] :
                 lines \in Mixed, rest \in [Files \ {a} -> UpTo(AnyLine)]}

StableContents   == WithLines(AnyLine) \cup MixedRoots
RelinkedContents == WithLines({Include("x"), Include("y"), Blank})
MCContents       == StableContents \cup RelinkedContents

MCInit == Init /\ content \in (IF mutable = {} THEN StableContents ELSE RelinkedContents)

MCSpec == MCInit /\ [][Next]_vars /\ WF_vars(Parser)
================================================================================
