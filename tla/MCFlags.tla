-------------------------------- MODULE MCFlags --------------------------------
(***************************************************************************)
(* An instance of Flags: three bits, up to three names out of two words and  *)
(* numerals, some of which are the numbers of bits.                        *)
(***************************************************************************)
EXTENDS Flags

CONSTANT MaxNames

MCNumerals ==
  {Decimal(-1), Decimal(3), Decimal(4), Decimal(8), Numeral(4, "other")}
MCNameLists == UNION {[1..n -> Name] : n \in 0..MaxNames}
================================================================================
