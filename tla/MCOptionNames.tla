----------------------------- MODULE MCOptionNames -----------------------------
(***************************************************************************)
(* Instances of OptionNames: prefixes of up to two characters out of two,  *)
(* '*' being smaller than both, as it is in ASCII.                         *)
(***************************************************************************)
EXTENDS OptionNames

CONSTANT MaxOptions

\* Every prefix of up to two characters, "**", two plain names and no name.
MCNames ==
  {p \o <<Star>> : p \in UNION {[1..n -> Char \ {Star}] : n \in 0..2}}
    \cup {<<Star, Star>>, <<1>>, <<2, 1>>, <<>>}
MCDescriptions == UNION {[1..n -> MCNames] : n \in 0..MaxOptions}

\* Keys that are equal to, go on after and fall short of those names, alone and
\* one after the other.
MCKeys == {<<1>>, <<1, 0>>, <<1, 2>>, <<1, 1, 2>>, <<2, 2>>, <<2, 1, 1>>}
MCFiles == {<<>>, <<<<2, 1>>, <<1, 2, 2>>>>} \cup {<<k>> : k \in MCKeys}
================================================================================
