------------------------------ MODULE MCLogSetup ------------------------------
(***************************************************************************)
(* An instance of LogSetup.  The inputs are of two kinds: up to two        *)
(* options out of names that are, or nearly are, settings of the log, with *)
(* options that are registered or have no value or several; and up to      *)
(* three settings of two sinks.  After any of them the log is set up once  *)
(* more, with one of a few inputs that make sinks or are wrong.            *)
(***************************************************************************)
EXTENDS LogSetup

CONSTANTS t1, t2

MCNames ==
  {<<"Sinks", "1", "x">>, <<"Core", "x">>, <<"Core", "1">>, <<"Core", "x", "1">>,
   <<"Sinks", "x", "x">>, <<"Sinks", "1">>, <<"Core", "">>}

Given1(names, values) == [unregistered : {TRUE}, name : names, values : values]

MCOptions ==
  Given1(MCNames, {<<"a">>, <<"b">>}) \cup
  Given1({<<"Core", "x">>, <<"x">>}, {<<>>, <<"a", "b">>}) \cup
  [unregistered : {FALSE}, name : {<<"Core", "x">>}, values : {<<"a">>}]

Destination(n, value) == [unregistered |-> TRUE, name |-> <<"Sinks", n, "Destination">>, values |-> <<value>>]
Filter(n, value) == [unregistered |-> TRUE, name |-> <<"Sinks", n, "Filter">>, values |-> <<value>>]

MCSettings ==
  {Destination(n, value) : n \in {"1", "2"}, value \in {"Console", "a"}} \cup
  {Filter("1", "a"), Filter("2", "wrong")}

WrongCore == [unregistered |-> TRUE, name |-> <<"Core", "Filter">>, values |-> <<"wrong">>]

MCReloads ==
  {<<Destination("1", "Console")>>,
   <<Destination("1", "Console"), Destination("2", "wrong")>>,
   <<Destination("2", "Console"), Destination("1", "Console"), Filter("1", "wrong")>>,
   <<Destination("2", "Console"), WrongCore>>}

UpTo(max, S) == UNION {[1..n -> S] : n \in 0..max}

MCInputs == UpTo(2, MCOptions) \cup UpTo(3, MCSettings) \cup MCReloads

\* The command line may have set an option before.
MCStores == {<<>>, [n \in {<<"Sinks", "1">>} |-> "b"]}
================================================================================
