----------------------------- MODULE IniTokenizer -----------------------------
(***************************************************************************)
(* utils/ini_parser/ini_parser.cpp: what one line of a configuration file  *)
(* means.  tokenize() (lines 261-318) scans the line; operator() (lines    *)
(* 160-229) decides from its tokens whether the line is blank, an #include,*)
(* a section, a pair, or an error.  These are the kinds of lines of module *)
(* IniParser.                                                              *)
(*                                                                         *)
(* A character is one of the classes that the code tells apart.  "word"    *)
(* stands for the seven letters of "include", which the code compares and  *)
(* skips as a whole.  Positions count from 1 instead of 0.                 *)
(***************************************************************************)
EXTENDS Integers, SequencesExt, FiniteSetsExt

CONSTANT Inputs   \* the lines to read

Char == {"space", "quote", "backslash", "hash", "semicolon", "equals",
         "open", "close", "word", "letter"}

ASSUME InputsAssumption == Inputs \subseteq Seq(Char)

VARIABLES
  input,    \* the line
  first,    \* where the next token starts; past the end if there is none
  last,     \* the last character of the previous token
  tokens,   \* the tokens found so far
  stage,    \* "tokenizing", "tokenized", or "done"
  outcome   \* what operator() makes of the line

lineVars == <<input, first, last, tokens, stage, outcome>>

\* The kind is the char of the code's token; from and to delimit its text.
Token == [kind : {"quote", "include", "hash", "semicolon", "equals", "open", "text"},
          from : Nat \ {0}, to : Nat]

Bad == [kind |-> "bad"]
Outcome ==
  {Bad, [kind |-> "blank"]} \cup
  [kind : {"include", "section"}, name : Seq(Char)] \cup
  [kind : {"pair"}, key : Seq(Char), value : Seq(Char)]

LineTypeOK ==
  /\ input \in Seq(Char)
  /\ first \in Nat \ {0}
  /\ last \in Nat \ {0}
  /\ tokens \in Seq(Token)
  /\ stage \in {"tokenizing", "tokenized", "done"}
  /\ outcome \in Outcome

-------------------------------------------------------------------------------
Comment == {"hash", "semicolon"}
Delimiters == Comment \cup {"space", "equals"}

NotFound == 0
Malformed == -1

\* The first position from p on that is one of the characters, as find_first_of.
Find(s, p, chars) ==
  LET hits == {i \in p..Len(s) : s[i] \in chars}
  IN  IF hits = {} THEN NotFound ELSE Min(hits)

\* The first position from p on that is no space; past the end if there is none.
SkipSpace(s, p) ==
  LET hits == {i \in p..Len(s) : s[i] # "space"}
  IN  IF hits = {} THEN Len(s) + 1 ELSE Min(hits)

Trim(s) ==
  LET solid == {i \in DOMAIN s : s[i] # "space"}
  IN  IF solid = {} THEN <<>> ELSE SubSeq(s, Min(solid), Max(solid))

\* A backslash does not hide the character after it.
FindQuote_NoEscapes(s, p) == Find(s, p, {"quote"})

\* Lines 127-141: the first quote from p on that no backslash precedes.
FindQuote(s, p) ==
  LET find[i \in 1..(Len(s) + 2)] ==
        IF i > Len(s) THEN NotFound
        ELSE IF s[i] = "quote" THEN i
        ELSE IF s[i] # "backslash" THEN find[i + 1]
        ELSE IF i < Len(s) /\ s[i + 1] \in {"backslash", "quote"} THEN find[i + 2]
        ELSE Malformed
  IN  find[p]

\* Lines 47-60: each backslash goes and the character after it stays.
Unquote(s) ==
  LET rest[i \in 1..(Len(s) + 2)] ==
        IF i > Len(s) THEN <<>>
        ELSE IF s[i] = "backslash" /\ i < Len(s) THEN <<s[i + 1]>> \o rest[i + 2]
        ELSE <<s[i]>> \o rest[i + 1]
  IN  rest[1]

-------------------------------------------------------------------------------
LineInit ==
  /\ input \in Inputs
  /\ first = SkipSpace(input, 1)
  /\ last = 1
  /\ tokens = <<>>
  /\ stage = "tokenizing"
  /\ outcome = Bad

Scanning(chars) ==
  /\ stage = "tokenizing"
  /\ first <= Len(input)
  /\ input[first] \in chars

\* A token, and the loop goes on after position l (line 265).
Push(kind, from, to, l) ==
  /\ tokens' = Append(tokens, [kind |-> kind, from |-> from, to |-> to])
  /\ last' = l
  /\ first' = SkipSpace(input, l + 1)
  /\ UNCHANGED <<input, stage, outcome>>

\* A token that reaches to the end of the line: tokenize returns.
PushRest(kind, from) ==
  /\ tokens' = Append(tokens, [kind |-> kind, from |-> from, to |-> Len(input)])
  /\ stage' = "tokenized"
  /\ UNCHANGED <<input, first, last, outcome>>

\* An exception that leaves operator().
Throw ==
  /\ stage' = "done"
  /\ outcome' = Bad
  /\ UNCHANGED <<input, first, last, tokens>>

Quoted ==
  /\ Scanning({"quote"})
  /\ LET end == FindQuote(input, first + 1)
     IN  IF end \in {NotFound, Malformed} THEN Throw
         ELSE Push("quote", first + 1, end - 1, end)

\* "#include" is recognised only as the first token and as a word of its own.
IsInclude ==
  /\ tokens = <<>>
  /\ first < Len(input)
  /\ input[first + 1] = "word"
  /\ first + 1 < Len(input) => input[first + 2] = "space"

IncludeWord == Scanning({"hash"}) /\ IsInclude /\ Push("include", first + 1, first + 1, first + 1)

CommentTail ==
  /\ Scanning(Comment)
  /\ ~(input[first] = "hash" /\ IsInclude)
  /\ PushRest(input[first], first + 1)

\* The next search starts where the last one did.
Equals_LastNotMoved == Scanning({"equals"}) /\ Push("equals", first, first, last)

Equals == Scanning({"equals"}) /\ Push("equals", first, first, first)

Section ==
  /\ Scanning({"open"}) /\ tokens = <<>>
  /\ LET end == Find(input, first + 1, {"close"})
     IN  IF end = NotFound \/ last = Len(input) THEN Throw
         ELSE Push("open", first + 1, end - 1, end)

\* A space always ends a text, even that of a value.
Text_SplitsValues ==
  /\ \/ Scanning({"backslash", "close", "word", "letter"})
     \/ Scanning({"open"}) /\ tokens # <<>>
  /\ LET end == Find(input, first + 1, Delimiters)
     IN  IF end = NotFound \/ last = Len(input) THEN PushRest("text", first)
         ELSE Push("text", first, end - 1, IF input[end] = "space" THEN end ELSE end - 1)

\* Lines 304-313.  After the first token only a comment ends a text.
Text ==
  /\ \/ Scanning({"backslash", "close", "word", "letter"})
     \/ Scanning({"open"}) /\ tokens # <<>>
  /\ LET end == Find(input, first + 1, IF tokens = <<>> THEN Delimiters ELSE Comment)
     IN  IF end = NotFound \/ last = Len(input) THEN PushRest("text", first)
         ELSE Push("text", first, end - 1, IF input[end] = "space" THEN end ELSE end - 1)

EndOfLine ==
  /\ stage = "tokenizing"
  /\ first > Len(input)
  /\ stage' = "tokenized"
  /\ UNCHANGED <<input, first, last, tokens, outcome>>

-------------------------------------------------------------------------------
TextOf(t) == SubSeq(input, t.from, t.to)

\* What a text or a quoted token stands for.
ValueOf(t) == IF t.kind = "quote" THEN Unquote(TextOf(t)) ELSE Trim(TextOf(t))

IsValue(t) == t.kind \in {"text", "quote"}

\* Lines 76-92 and 115-122.
IncludeOutcome(ts) ==
  IF Len(ts) = 2 /\ IsValue(ts[2]) /\ Trim(ValueOf(ts[2])) # <<>>
    THEN [kind |-> "include", name |-> Trim(ValueOf(ts[2]))]
    ELSE Bad

\* Lines 171-190.
SectionOutcome(ts) ==
  LET name == Trim(TextOf(ts[1]))
      inner == SubSeq(name, 2, Len(name) - 1)
  IN  CASE name = <<>> \/ Len(ts) > 1 -> Bad
        [] name # <<>> /\ Len(ts) = 1 /\ name[1] # "quote" -> [kind |-> "section", name |-> name]
        [] OTHER -> IF FindQuote(name, 2) = Len(name) /\ Trim(Unquote(inner)) # <<>>
                      THEN [kind |-> "section", name |-> Unquote(inner)] ELSE Bad

\* Lines 62-74 and 191-227.
PairOutcome(ts) ==
  IF /\ IsValue(ts[1]) /\ Trim(ValueOf(ts[1])) # <<>>
     /\ Len(ts) \in {2, 3} /\ ts[2].kind = "equals"
     /\ Len(ts) = 3 => IsValue(ts[3])
    THEN [kind |-> "pair", key |-> ValueOf(ts[1]),
          value |-> IF Len(ts) = 3 THEN ValueOf(ts[3]) ELSE <<>>]
    ELSE Bad

\* Lines 161-163: the first comment is erased, and whatever follows it.
Uncommented(ts) ==
  LET comments == {i \in DOMAIN ts : ts[i].kind \in Comment}
  IN  IF comments = {} THEN ts ELSE SubSeq(ts, 1, Min(comments) - 1)

\* Lines 160-229: the first token that is left decides.
Interpret ==
  /\ stage = "tokenized"
  /\ LET ts == Uncommented(tokens)
     IN  outcome' = CASE ts = <<>> -> [kind |-> "blank"]
                      [] ts # <<>> /\ ts[1].kind = "include" -> IncludeOutcome(ts)
                      [] ts # <<>> /\ ts[1].kind = "open" -> SectionOutcome(ts)
                      [] OTHER -> PairOutcome(ts)
  /\ stage' = "done"
  /\ UNCHANGED <<input, first, last, tokens>>

LineNext ==
  \/ Quoted \/ IncludeWord \/ CommentTail \/ Equals \/ Section \/ Text \/ EndOfLine
  \/ Interpret

LineSpec == LineInit /\ [][LineNext]_lineVars

-------------------------------------------------------------------------------
\* The characters that a token takes: its text with its quotes, its brackets or
\* the mark of its comment.
From(t) == IF t.kind \in {"text", "equals"} THEN t.from ELSE t.from - 1
UpTo(t) == IF t.kind \in {"quote", "open"} THEN t.to + 1 ELSE t.to

\* No text reaches out of the line (a string_view there would be undefined, or
\* substr would throw what operator() does not catch), tokens do not overlap and
\* come in the order of the line, and all that is left out between them is
\* spaces: no character is read twice or lost (lines 265-313).
TokensTile ==
  /\ \A i \in DOMAIN tokens :
       /\ 1 <= From(tokens[i])
       /\ tokens[i].from <= tokens[i].to + 1
       /\ UpTo(tokens[i]) <= Len(input)
  /\ \A i, j \in DOMAIN tokens : i < j => UpTo(tokens[i]) < From(tokens[j])
  /\ \A p \in 1..Len(input) :
       (p < first \/ stage = "tokenized") /\ input[p] # "space" =>
         \E i \in DOMAIN tokens : p \in From(tokens[i])..UpTo(tokens[i])

\* What quoting writes for a string.
Escape(s) ==
  LET rest[i \in 1..(Len(s) + 2)] ==
        IF i > Len(s) THEN <<>>
        ELSE IF s[i] \in {"backslash", "quote"} THEN <<"backslash", s[i]>> \o rest[i + 1]
        ELSE <<s[i]>> \o rest[i + 1]
  IN  rest[1]

\* A quoted text is the quoting of exactly what is read from it.  So reading
\* gives back every string that was quoted, and a text never ends in the middle
\* of an escape, which process_quoted_value asserts (line 56).
QuotingLossless ==
  \A i \in DOMAIN tokens :
    tokens[i].kind = "quote" => Escape(Unquote(TextOf(tokens[i]))) = TextOf(tokens[i])

\* The format itself, without the order in which the code scans it: the splits of
\* the line that make it a section, an include or a pair.
Spaces(i, j) == \A p \in i..j : input[p] = "space"

StartsInclude(i) ==
  /\ input[i] = "hash"
  /\ i < Len(input) /\ input[i + 1] = "word"
  /\ i + 1 = Len(input) \/ input[i + 2] = "space"

\* Nothing but spaces and a comment is left from position i on.
Rest(i) ==
  \E j \in i..(Len(input) + 1) :
    /\ Spaces(i, j - 1)
    /\ j = Len(input) + 1 \/ input[j] \in Comment

QuotedAt(i, j, v) ==
  /\ i < j
  /\ input[i] = "quote" /\ input[j] = "quote"
  /\ SubSeq(input, i + 1, j - 1) = Escape(v)

BareAt(i, j, chars) ==
  /\ i <= j
  /\ input[i] \notin {"space", "quote", "equals"}
  /\ \A p \in i..j : input[p] \notin chars

\* The keys, and the values or names, that positions i to j may hold.
KeyAt(i, j) ==
  {v \in {Unquote(SubSeq(input, i + 1, j - 1))} : QuotedAt(i, j, v) /\ Trim(v) # <<>>} \cup
  {v \in {SubSeq(input, i, j)} : BareAt(i, j, Delimiters) /\ input[i] # "open"}

ValueAt(i, j) ==
  {v \in {Unquote(SubSeq(input, i + 1, j - 1))} : QuotedAt(i, j, v)} \cup
  {v \in {Trim(SubSeq(input, i, j))} :
     BareAt(i, j, Comment) /\ (j = Len(input) \/ input[j + 1] \in Comment)}

\* The values that may follow position i, with nothing but a comment after them.
ValuesAfter(i) ==
  UNION {ValueAt(j, k) : j \in {p \in (i + 1)..Len(input) : Spaces(i + 1, p - 1)},
                         k \in {p \in (i + 1)..Len(input) : Rest(p + 1)}}

Pairs ==
  LET Values(e) == IF Rest(e + 1) THEN {<<>>} ELSE ValuesAfter(e)
      Splits == {x \in (1..Len(input)) \X (1..Len(input)) \X (1..Len(input)) :
                   /\ x[1] <= x[2] /\ x[2] < x[3] /\ input[x[3]] = "equals"
                   /\ Spaces(1, x[1] - 1) /\ Spaces(x[2] + 1, x[3] - 1)}
  IN  UNION {[kind : {"pair"}, key : KeyAt(x[1], x[2]), value : Values(x[3])] : x \in Splits}

Includes ==
  UNION {[kind : {"include"}, name : {Trim(v) : v \in ValuesAfter(i + 1)} \ {<<>>}] :
           i \in {p \in 1..Len(input) : Spaces(1, p - 1) /\ StartsInclude(p)}}

SectionNames(name) ==
  IF name # <<>> /\ name[1] = "quote"
    THEN {v \in {Unquote(SubSeq(name, 2, Len(name) - 1))} :
            name = <<"quote">> \o Escape(v) \o <<"quote">> /\ Trim(v) # <<>>}
    ELSE {name} \ {<<>>}

Headers ==
  UNION {[kind : {"section"}, name : SectionNames(Trim(SubSeq(input, x[1] + 1, x[2] - 1)))] :
           x \in {y \in (1..Len(input)) \X (1..Len(input)) :
                    /\ y[1] < y[2] /\ input[y[1]] = "open" /\ input[y[2]] = "close"
                    /\ \A p \in (y[1] + 1)..(y[2] - 1) : input[p] # "close"
                    /\ Spaces(1, y[1] - 1) /\ Rest(y[2] + 1)}}

Blanks ==
  {x \in {[kind |-> "blank"]} :
     Rest(1) /\ \A i \in 1..Len(input) : Spaces(1, i - 1) => ~StartsInclude(i)}

\* The tokens and their interpretation (lines 160-229) read the format and
\* nothing else: a line that can be split as the format says means what that
\* split means, no line can be split in two ways that mean different things, and
\* every other line is an error.
OutcomeMatchesFormat ==
  stage = "done" =>
    LET meanings == Pairs \cup Includes \cup Headers \cup Blanks
    IN  IF meanings = {} THEN outcome = Bad ELSE meanings = {outcome}
===============================================================================
