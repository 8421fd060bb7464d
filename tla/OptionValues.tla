------------------------------ MODULE OptionValues ------------------------------
(***************************************************************************)
(* utils/program_options/validators/net.hpp and validators/chrono.hpp: what*)
(* the text of an option becomes if the option is an endpoint (a host and a*)
(* port), credentials, an endpoint that may have a scheme, a duration or a *)
(* list of durations.  Each validator lets boost::spirit::x3 parse into an *)
(* object of its own, throws unless all of the text was read, and stores   *)
(* the object.  The grammars (program_options/net.hpp and chrono.hpp) are  *)
(* modelled with what x3 makes of them: it takes the first alternative that*)
(* reads anything, appends to strings, and undoes nothing in the object    *)
(* when it fails.                                                          *)
(***************************************************************************)
EXTENDS Integers, SequencesExt, FiniteSetsExt

CONSTANTS
  Letters,     \* characters that mean nothing to the grammars
  DigitValue,  \* the value of each digit; the base is their number
  MaxPort,     \* the greatest unsigned short
  MaxRep,      \* the greatest number of ticks in a duration, which is signed
  Length,      \* of each unit, in units of the shortest
  Ticks,       \* the lengths of a tick that the type of a duration may have
  Inputs       \* the texts of each type of option

\* Lines 35-40 of chrono.hpp.
Symbols == {<<"n", "s">>, <<"u", "s">>, <<"m", "s">>, <<"s">>, <<"m">>, <<"h">>}

Types == {"endpoint", "credentials", "scheme_endpoint", "duration", "durations"}

Digits == DOMAIN DigitValue
Base == Cardinality(Digits)
Signs == {":", "/", ","} \cup UNION {Range(sym) : sym \in Symbols}
Character == Signs \cup Letters \cup Digits
Text == Seq(Character)
Reps == (-(MaxRep + 1))..MaxRep

ASSUME OptionValuesAssumption ==
  /\ IsFiniteSet(Digits) /\ DigitValue \in [Digits -> 0..(Base - 1)]
  /\ Signs \cap (Letters \cup Digits) = {}
  /\ MaxPort \in Nat /\ MaxRep \in Nat
  /\ Length \in [Symbols -> Nat \ {0}]
  /\ Ticks \subseteq Nat \ {0} /\ Ticks # {}
  /\ DOMAIN Inputs = Types /\ \A t \in Types : Inputs[t] \subseteq Text

Endpoint == [host : Text, port : 0..MaxPort]

\* What a validator stores for each type of option.
Object(t) ==
  CASE t = "endpoint"        -> Endpoint
    [] t = "credentials"     -> [username : Text, password : Text]
    [] t = "scheme_endpoint" -> [scheme : Text, ep : Endpoint]
    [] OTHER                 -> Seq(Reps)

NoEndpoint == [host |-> <<>>, port |-> 0]   \* 0 is the default port as well

\* The object before it is parsed into.
Fresh(t) ==
  CASE t = "endpoint"        -> NoEndpoint
    [] t = "credentials"     -> [username |-> <<>>, password |-> <<>>]
    [] t = "scheme_endpoint" -> [scheme |-> <<>>, ep |-> NoEndpoint]
    [] OTHER                 -> <<>>

VARIABLES
  type,    \* of the option
  tick,    \* the length of a tick, if that is a duration
  value,   \* the text
  begin,   \* the position up to which it has been read
  res,     \* the object that it is parsed into
  step     \* "first" and "second" attempt, "more" (a duration is read, another
           \* may follow), and the outcomes "stored" and "thrown"

valueVars == <<type, tick, value, begin, res, step>>

ValueTypeOK ==
  /\ type \in Types
  /\ tick \in Ticks
  /\ value \in Text
  /\ begin \in 1..(Len(value) + 1)
  /\ res \in Object(type)
  /\ step \in {"first", "second", "more", "stored", "thrown"}

-------------------------------------------------------------------------------
\* The grammars.

End == Len(value) + 1
At(p, text) == IsPrefix(text, SubSeq(value, p, Len(value)))

\* The first position from p on that does not hold one of the characters.
After(p, chars) == Min({i \in p..End : i = End \/ value[i] \notin chars})

\* +(char_ - ':')
WordEnd(p) == After(p, Character \ {":"})

Number(digits) ==
  LET read[i \in 0..Len(digits)] ==
        IF i = 0 THEN 0 ELSE read[i - 1] * Base + DigitValue[digits[i]]
  IN  read[Len(digits)]
NumberAt(p) == Number(SubSeq(value, p, After(p, Digits) - 1))

\* ushort_ and uint_parser fail if there is no digit or the number is too large.
Readable(p, limit) == After(p, Digits) > p /\ NumberAt(p) <= limit

\* net.hpp 39: the endpoint that starts at p, read into one that has a host, and
\* where it ends; p if there is none.
EndpointAt(p, host) ==
  LET e == WordEnd(p)
      h == host \o SubSeq(value, p, e - 1)
  IN  IF e = p THEN [ep |-> [host |-> host, port |-> 0], end |-> p]
      ELSE IF At(e, <<":">>) /\ Readable(e + 1, MaxPort)
        THEN [ep |-> [host |-> h, port |-> NumberAt(e + 1)], end |-> After(e + 1, Digits)]
        ELSE [ep |-> [host |-> h, port |-> 0], end |-> e]

\* net.hpp 45, after the scheme: "://" and an endpoint, or else a colon.
TailAt(p) ==
  LET found == EndpointAt(p + 3, <<>>)
  IN  IF At(p, <<":", "/", "/">>) /\ found.end > p + 3 THEN found
      ELSE [ep |-> NoEndpoint, end |-> IF At(p, <<":">>) THEN p + 1 ELSE p]

\* The shortest symbol: the m of ms is read as minutes.
UnitAt_Shortest(p) ==
  LET found == {sym \in Symbols : At(p, sym)}
  IN  IF found = {} THEN <<>> ELSE CHOOSE sym \in found : \A s \in found : Len(s) >= Len(sym)

\* chrono.hpp 48: the longest symbol, or none.
UnitAt(p) ==
  LET found == {sym \in Symbols : At(p, sym)}
  IN  IF found = {} THEN <<>> ELSE CHOOSE sym \in found : \A s \in found : Len(s) <= Len(sym)

\* What a number is multiplied with and divided by, as chrono::duration_cast
\* does: the ratio of the unit to the tick in lowest terms.
Gcd(a, b) == Max({d \in 1..a : a % d = 0 /\ b % d = 0})
Factor(unit) == Length[unit] \div Gcd(Length[unit], tick)
Divisor(unit) == tick \div Gcd(Length[unit], tick)

\* chrono.hpp 35-40 and 46.  An overflow is undefined: any result.
Converted(n, unit) ==
  IF unit = <<>> THEN {n}
  ELSE IF n * Factor(unit) <= MaxRep THEN {(n * Factor(unit)) \div Divisor(unit)}
  ELSE Reps

-------------------------------------------------------------------------------
\* The validators.

ValueInit ==
  /\ type \in Types
  /\ tick \in IF type \in {"duration", "durations"} THEN Ticks ELSE {Min(Ticks)}
  /\ value \in Inputs[type]
  /\ begin = 1
  /\ res = Fresh(type)
  /\ step = "first"

\* The object is stored if it was parsed and nothing is left of the text.
Finish(parsed) == step' = IF parsed /\ begin' = End THEN "stored" ELSE "thrown"

\* validators/net.hpp 89-100.
ValidateEndpoint ==
  /\ step = "first" /\ type = "endpoint"
  /\ LET found == EndpointAt(1, <<>>)
     IN  res' = found.ep /\ begin' = found.end /\ Finish(found.end > 1)
  /\ UNCHANGED <<type, tick, value>>

\* validators/net.hpp 102-113 with net.hpp 64: a password may have colons in it.
ValidateCredentials ==
  /\ step = "first" /\ type = "credentials"
  /\ LET e == WordEnd(1)
         parsed == e > 1 /\ e < Len(value)
     IN  /\ res' = [username |-> SubSeq(value, 1, e - 1),
                   password |-> IF parsed THEN SubSeq(value, e + 1, Len(value)) ELSE <<>>]
         /\ begin' = IF parsed THEN End ELSE 1
         /\ Finish(parsed)
  /\ UNCHANGED <<type, tick, value>>

\* The first attempt: the scheme that it found stays in the object.
ValidateScheme_NotCleared ==
  /\ step = "first" /\ type = "scheme_endpoint"
  /\ LET e == WordEnd(1)
         tail == TailAt(e)
         parsed == e > 1 /\ tail.end > e
     IN  /\ res' = [scheme |-> SubSeq(value, 1, e - 1), ep |-> IF e > 1 THEN tail.ep ELSE NoEndpoint]
         /\ IF parsed /\ tail.end = End THEN step' = "stored" /\ begin' = End
                                        ELSE step' = "second" /\ begin' = 1
  /\ UNCHANGED <<type, tick, value>>

\* validators/net.hpp 115-124: if the first attempt does not read all, the scheme
\* is cleared, and the endpoint is not.
ValidateScheme ==
  /\ step = "first" /\ type = "scheme_endpoint"
  /\ LET e == WordEnd(1)
         tail == TailAt(e)
         complete == e > 1 /\ tail.end > e /\ tail.end = End
     IN  /\ res' = [scheme |-> IF complete THEN SubSeq(value, 1, e - 1) ELSE <<>>,
                    ep |-> IF e > 1 THEN tail.ep ELSE NoEndpoint]
         /\ IF complete THEN step' = "stored" /\ begin' = End
                        ELSE step' = "second" /\ begin' = 1
  /\ UNCHANGED <<type, tick, value>>

\* validators/net.hpp 125-129: a host that was found before is appended to.
ValidateWithoutScheme ==
  /\ step = "second"
  /\ LET found == EndpointAt(1, res.ep.host)
     IN  res' = [res EXCEPT !.ep = found.ep] /\ begin' = found.end /\ Finish(found.end > 1)
  /\ UNCHANGED <<type, tick, value>>

\* A list goes on after a comma only if a duration follows it.
GoesOn == type = "durations" /\ At(begin, <<",">>) /\ Readable(begin + 1, MaxRep)

\* chrono.hpp 48 and 62-65: a number with its unit, first of all or after a comma.
ReadDuration ==
  /\ type \in {"duration", "durations"}
  /\ \/ step = "first" /\ Readable(begin, MaxRep)
     \/ step = "more" /\ GoesOn
  /\ LET p == IF step = "more" THEN begin + 1 ELSE begin
         unit == UnitAt(After(p, Digits))
     IN  /\ \E d \in Converted(NumberAt(p), unit) : res' = Append(res, d)
         /\ begin' = After(p, Digits) + Len(unit)
  /\ step' = "more"
  /\ UNCHANGED <<type, tick, value>>

\* validators/chrono.hpp 37-40 and 52-55.
EndDurations ==
  /\ type \in {"duration", "durations"}
  /\ \/ step = "first" /\ ~Readable(begin, MaxRep)
     \/ step = "more" /\ ~GoesOn
  /\ UNCHANGED <<type, tick, value, begin, res>>
  /\ Finish(step = "more")

ValueNext ==
  \/ ValidateEndpoint \/ ValidateCredentials \/ ValidateScheme \/ ValidateWithoutScheme
  \/ ReadDuration \/ EndDurations

ValueSpec == ValueInit /\ [][ValueNext]_valueVars

-------------------------------------------------------------------------------
(***************************************************************************)
(* The formats, said without a parser: which splits of a text make sense.  *)
(***************************************************************************)
Before(t, k) == SubSeq(t, 1, k - 1)
Rest(t, k) == SubSeq(t, k, Len(t))

IsNumber(t, limit) == t # <<>> /\ (\A i \in DOMAIN t : t[i] \in Digits) /\ Number(t) <= limit

\* The positions with a word without colons in front of them.
Splits(t) == {k \in 2..(Len(t) + 1) : \A i \in 1..(k - 1) : t[i] # ":"}

AsEndpoint(t) ==
  {[host |-> t, port |-> 0] : k \in Splits(t) \cap {Len(t) + 1}} \cup
  {[host |-> Before(t, k), port |-> Number(Rest(t, k + 1))] :
     k \in {k \in Splits(t) : IsPrefix(<<":">>, Rest(t, k)) /\ IsNumber(Rest(t, k + 1), MaxPort)}}

AsCredentials(t) ==
  {[username |-> Before(t, k), password |-> Rest(t, k + 1)] :
     k \in {k \in Splits(t) : k < Len(t) /\ t[k] = ":"}}

AsSchemeEndpoint(t) ==
  {[scheme |-> <<>>, ep |-> e] : e \in AsEndpoint(t)} \cup
  {[scheme |-> Before(t, k), ep |-> NoEndpoint] : k \in {k \in Splits(t) : Rest(t, k) = <<":">>}} \cup
  UNION {{[scheme |-> Before(t, k), ep |-> e] : e \in AsEndpoint(Rest(t, k + 3))} :
           k \in {k \in Splits(t) : IsPrefix(<<":", "/", "/">>, Rest(t, k))}}

\* A number, and the symbol of a unit or none.
AsDuration(t) ==
  {<<Number(Before(t, k)), Rest(t, k)>> :
     k \in {k \in 1..(Len(t) + 1) : IsNumber(Before(t, k), MaxRep)
                                      /\ Rest(t, k) \in Symbols \cup {<<>>}}}

\* The texts between commas, each as the positions around it.
Commas == {i \in DOMAIN value : value[i] = ","}
Fields == {f \in ({0} \cup Commas) \X (Commas \cup {End}) :
             f[1] < f[2] /\ \A c \in Commas : c <= f[1] \/ f[2] <= c}
Field(f) == SubSeq(value, f[1] + 1, f[2] - 1)
Index(f) == Cardinality({c \in Commas : c <= f[1]}) + 1

\* The whole ticks in n units, unless the multiplication overflows.
Ticking(n, unit, d) ==
  IF unit = <<>> THEN d = n
  ELSE n * Factor(unit) <= MaxRep => d = (n * Length[unit]) \div tick

DurationsAreRead ==
  /\ Len(res) = Cardinality(Commas) + 1
  /\ \A f \in Fields : \E r \in AsDuration(Field(f)) : Ticking(r[1], r[2], res[Index(f)])

Meanings ==
  CASE type = "endpoint"        -> AsEndpoint(value)
    [] type = "credentials"     -> AsCredentials(value)
    [] type = "scheme_endpoint" -> AsSchemeEndpoint(value)

\* A value is stored exactly if the format of its option gives it a meaning, and
\* as that meaning, of which there is no second one: nothing that a failed first
\* attempt left in the object is ever stored, no number is cut to what fits, and
\* durations are what their units say unless the conversion overflows
\* (validators/net.hpp 89-130, validators/chrono.hpp 28-56).
OutcomeMatchesFormat ==
  IF type \in {"duration", "durations"}
    THEN /\ step = "stored" => DurationsAreRead /\ (type = "duration" => Len(res) = 1)
         /\ step = "thrown" => \/ \E f \in Fields : AsDuration(Field(f)) = {}
                               \/ type = "duration" /\ Commas # {}
    ELSE /\ step = "stored" => Meanings = {res}
         /\ step = "thrown" => Meanings = {}
================================================================================
