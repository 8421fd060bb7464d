----------------------------- MODULE MCOptionValues -----------------------------
(***************************************************************************)
(* An instance of OptionValues: binary digits, ports up to 2, durations up *)
(* to 15, units whose lengths divide each other as the real ones do, ticks *)
(* that do not, and all texts made of up to five pieces.                   *)
(***************************************************************************)
EXTENDS OptionValues

Binary == [d \in {"0", "1"} |-> IF d = "1" THEN 1 ELSE 0]

Lengths ==
  [u \in Symbols |-> CASE u = <<"n", "s">> -> 1 [] u = <<"u", "s">> -> 2 [] u = <<"m", "s">> -> 4
                       [] u = <<"s">> -> 8 [] u = <<"m">> -> 16 [] u = <<"h">> -> 48]

NetPieces == {<<"a">>, <<":">>, <<"/">>, <<":", "/", "/">>, <<"0">>, <<"1">>, <<"1", "1">>}

\* 11 is three, 10000 is sixteen.
DurationPieces ==
  {<<"1", "1">>, <<"1", "0", "0", "0", "0">>, <<",">>, <<"m">>, <<"s">>, <<"h">>, <<"u", "s">>}

Joined(pieces) == {FlattenSeq(ps) : ps \in UNION {[1..n -> pieces] : n \in 0..5}}

NetTexts == Joined(NetPieces)
DurationTexts == Joined(DurationPieces)

Texts == [t \in Types |-> IF t \in {"duration", "durations"} THEN DurationTexts ELSE NetTexts]
===============================================================================
