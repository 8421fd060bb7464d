--------------------------------- MODULE Flags ---------------------------------
(***************************************************************************)
(* utils/flags/flags.hpp: flags as text.  to_string writes the names of the*)
(* bits that are set, and the number of a bit that has no name; from_string*)
(* and the flags_parser of flags/parser/flags.hpp read such a text, or one *)
(* that somebody wrote by hand, with parse_string.                         *)
(*                                                                         *)
(* A text is the sequence of what stands between its delimiters: a word,   *)
(* possibly the empty one, or a numeral: a number and the form, among those*)
(* that parse_numeric reads (decimal as to_string writes it, hexadecimal,  *)
(* with zeros before it), that it is written in.  A value is the set of its*)
(* bits.                                                                   *)
(***************************************************************************)
EXTENDS Integers, FiniteSets, Sequences

CONSTANTS
  Width,      \* the number of bits of T
  Words,      \* words that are no numerals and not empty
  Numerals,   \* the numerals that names and texts written by hand may contain
  NameLists,  \* the arrays of names, one for each of the lowest bits
  MaxTokens   \* bound of the model: the length of texts written by hand

Bits == 0..(Width - 1)

\* The number that each bit stands for, and the one past the last of them.
Power[i \in 0..Width] == IF i = 0 THEN 1 ELSE 2 * Power[i - 1]

Empty == [kind |-> "empty"]
Word(w) == [kind |-> "word", word |-> w]
Numeral(n, form) == [kind |-> "numeral", number |-> n, form |-> form]
Decimal(n) == Numeral(n, "decimal")

\* Any bit may have the empty name.
Name == {Empty} \cup {Word(w) : w \in Words} \cup Numerals
Token == Name \cup {Decimal(Power[i]) : i \in Bits}

\* The assertion of line 64, as lists of names of every length that it admits.  That
\* no name contains the delimiter is a condition on the caller, which no line checks:
\* such a name would be written as several tokens.
ASSUME NamesAssumption ==
  /\ Width \in Nat \ {0}
  /\ Numerals \subseteq [kind : {"numeral"}, number : Int, form : {"decimal", "other"}]
  /\ NameLists \subseteq Seq(Name)
  /\ \A names \in NameLists : Len(names) <= Width
  /\ MaxTokens \in Nat

VARIABLES
  signed,   \* whether T is a signed type
  names,    \* the names of the lowest bits, that of bit 0 first
  value,    \* the value that is written; meaningless for a text written by hand
  byHand,   \* whether the text comes from somewhere else
  bit,      \* the next bit that to_string looks at
  text,     \* the text, each delimiter between two of its tokens
  pos,      \* begin in parse_string, as the number of tokens before it
  res,      \* the value read so far
  phase     \* "writing", "reading", "read", or "unknown" (a token is not known)

vars == <<signed, names, value, byHand, bit, text, pos, res, phase>>

TypeOK ==
  /\ signed \in BOOLEAN
  /\ names \in NameLists
  /\ value \in SUBSET Bits
  /\ byHand \in BOOLEAN
  /\ bit \in 0..Width
  /\ text \in Seq(Token)
  /\ pos \in 0..Len(text)
  /\ res \in SUBSET Bits
  /\ phase \in {"writing", "reading", "read", "unknown"}

-------------------------------------------------------------------------------
Modulus == Power[Width]

\* from_chars finds a number out of range if T does not have it.
InRange(n) ==
  IF signed THEN n \in (-(Modulus \div 2))..(Modulus \div 2 - 1) ELSE n \in 0..(Modulus - 1)

BitsOf(n) == {i \in Bits : (n % Modulus) \div Power[i] % 2 = 1}

\* Line 30.
BitToken(i) == IF i < Len(names) THEN names[i + 1] ELSE Decimal(Power[i])

\* The bits that have a name.
Named(t) == {i \in 0..(Len(names) - 1) : names[i + 1] = t}

\* Line 70 and lines 72-81.
Known(t) ==
  \/ t = Empty
  \/ Named(t) # {}
  \/ t.kind = "numeral" /\ InRange(t.number)

\* A name that looks like a number is read as the number.
Denoted_NumbersFirst(t) ==
  IF t = Empty THEN {}
  ELSE IF t.kind = "numeral" /\ InRange(t.number) THEN BitsOf(t.number)
  ELSE {CHOOSE i \in Named(t) : \A j \in Named(t) : i <= j}

\* The first of several equal names counts (line 72); a name that looks like a
\* number is a name.
Denoted(t) ==
  IF t = Empty THEN {}
  ELSE IF Named(t) # {} THEN {CHOOSE i \in Named(t) : \A j \in Named(t) : i <= j}
  ELSE BitsOf(t.number)

Init ==
  /\ signed \in BOOLEAN
  /\ names \in NameLists
  /\ bit = 0
  /\ pos = 0
  /\ res = {}
  /\ \/ /\ phase = "writing" /\ byHand = FALSE
        /\ value \in SUBSET Bits
        /\ text = <<>>
     \/ /\ phase = "reading" /\ byHand = TRUE
        /\ value = {}
        /\ text \in UNION {[1..n -> Name] : n \in 1..MaxTokens}

\* Lines 26-35: the loop ends with the highest bit that is set.
WriteBit ==
  /\ phase = "writing"
  /\ \E i \in value : bit <= i
  /\ text' = IF bit \in value THEN Append(text, BitToken(bit)) ELSE text
  /\ bit' = bit + 1
  /\ UNCHANGED <<signed, names, value, byHand, pos, res, phase>>

\* Lines 36-38; the text of no flags is empty.  Then somebody reads it.
EndWrite ==
  /\ phase = "writing"
  /\ \A i \in value : i < bit
  /\ text' = IF text = <<>> THEN <<Empty>> ELSE text
  /\ phase' = "reading"
  /\ UNCHANGED <<signed, names, value, byHand, bit, pos, res>>

\* Each token replaces what the ones before it have set.
ReadToken_Replaces ==
  /\ phase = "reading"
  /\ Known(text[pos + 1])
  /\ res' = Denoted(text[pos + 1])
  /\ pos' = pos + 1
  /\ phase' = IF pos' = Len(text) THEN "read" ELSE "reading"
  /\ UNCHANGED <<signed, names, value, byHand, bit, text>>

\* Lines 68-85, up to the next delimiter or the end of the text.
ReadToken ==
  /\ phase = "reading"
  /\ Known(text[pos + 1])
  /\ res' = res \cup Denoted(text[pos + 1])
  /\ pos' = pos + 1
  /\ phase' = IF pos' = Len(text) THEN "read" ELSE "reading"
  /\ UNCHANGED <<signed, names, value, byHand, bit, text>>

\* Lines 77-78: begin stays where the token starts.
StopAtUnknown ==
  /\ phase = "reading"
  /\ ~Known(text[pos + 1])
  /\ phase' = "unknown"
  /\ UNCHANGED <<signed, names, value, byHand, bit, text, pos, res>>

Next == WriteBit \/ EndWrite \/ ReadToken \/ StopAtUnknown

Spec == Init /\ [][Next]_vars

-------------------------------------------------------------------------------
Finished == phase \in {"read", "unknown"}

\* The name of each bit that is set is not that of a lower bit and not empty, and a
\* bit without a name has a number that is no name and that T can hold.
Unambiguous ==
  \A i \in value :
    IF i < Len(names)
      THEN names[i + 1] # Empty /\ \A j \in 0..(i - 1) : names[j + 1] # names[i + 1]
      ELSE Named(Decimal(Power[i])) = {} /\ InRange(Power[i])

\* Reading gives back what was written exactly if nothing in it is ambiguous.  It
\* does not if a bit is set whose name is empty (line 70 skips it) or also belongs
\* to a lower bit, or a bit without a name whose number somebody used as a name, or
\* the bit of the sign without a name: to_string writes its number as one of the unsigned type
\* (line 30), which from_chars refuses for T (line 57).
RoundTripIffUnambiguous ==
  Finished /\ ~byHand => (phase = "read" /\ res = value <=> Unambiguous)

\* The order in which tokens are read and how often they occur do not matter: a
\* text means the union of the meanings of its tokens if all are known, and
\* otherwise the position is that of the first one that is not (lines 68-87).
MeansUnion ==
  Finished =>
    /\ res = UNION {Denoted(text[i]) : i \in 1..pos}
    /\ \A i \in 1..pos : Known(text[i])
    /\ phase = "read" <=> pos = Len(text)
    /\ phase = "unknown" => ~Known(text[pos + 1])
================================================================================
