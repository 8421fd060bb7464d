---------------------------- MODULE MCIniTokenizer ----------------------------
(***************************************************************************)
(* Instances of IniTokenizer: every line of up to MaxLength characters, and*)
(* every line in which MaxValue characters follow "letter =" or those are  *)
(* between quotes.                                                         *)
(***************************************************************************)
EXTENDS IniTokenizer

CONSTANTS MaxLength, MaxValue

Start == <<"letter", "equals">>
Quote == <<"quote">>

Values == [1..MaxValue -> Char \ {"word", "hash", "open"}]

MCInputs ==
  UNION {[1..n -> Char] : n \in 0..MaxLength} \cup
  {Start \o v : v \in Values} \cup {Start \o Quote \o v \o Quote : v \in Values} \cup
  {Quote \o v \o <<"quote", "equals", "letter">> : v \in Values}
===============================================================================
