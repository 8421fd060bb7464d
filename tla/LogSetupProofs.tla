---------------------------- MODULE LogSetupProofs ----------------------------
(***************************************************************************)
(* Proofs about LogSetup, and about ConsoleSink and LogSettings that it is *)
(* composed of: for any threads, any options and any settings, however     *)
(* often the log is set up.                                                *)
(***************************************************************************)
EXTENDS LogSetup, FiniteSetTheorems, WellFoundedInduction, TLAPS

-------------------------------------------------------------------------------
(* The console's sinks: ConsoleSink for any sections. *)

\* What console_sink_ refers to when no call is making sinks, or none so far.
Settled == IF lost THEN object = count /\ count # latest /\ count \notin core
                   ELSE object = latest /\ count = latest

\* A word is missing only while it is assigned, and the last of the new sinks is
\* what the others refer to; the log has not seen it yet.
Words ==
  /\ step = "out" => new_sinks = {}
  /\ unwritten # {} => step = "assigning"
  /\ step = "assigning" => new_sinks # {} /\ sections # << >>
  /\ new_sinks = {} => Settled
  /\ new_sinks # {} =>
       /\ Len(sinks) \in new_sinks
       /\ latest \notin new_sinks
       /\ new_sinks \cap core = {}
       /\ "object" \notin unwritten => object = Len(sinks)
       /\ "count" \notin unwritten => count = Len(sinks)

\* How far the call of thread t is right: a call that is not disturbed has seen the
\* words as they are, and so has each while there is one sink at most.
CallWhole(t) ==
  /\ at[t] = "locking" /\ t \notin disturbed =>
       loaded[t] = count /\ object = count
  /\ at[t] = "locking" /\ Len(sinks) <= 1 /\ loaded[t] # 0 => loaded[t] = count
  /\ at[t] = "reading" /\ t \notin disturbed =>
       handles[t].owns = object /\ object = count /\ count # 0
  /\ at[t] = "reading" /\ Len(sinks) <= 1 => handles[t].owns = 1
  /\ at[t] = "locking" => handles[t] = None
  /\ at[t] = "out" /\ handles[t].points # 0 /\ handles[t].points # handles[t].owns =>
       t \in disturbed /\ Len(sinks) >= 2

IInv == TypeOK /\ Words /\ \A t \in Threads : CallWhole(t)

LEMMA InitInv == Init => IInv
<1> SUFFICES ASSUME Init PROVE IInv
  OBVIOUS
<1>1. TypeOK
  <2>1. sections \in Seq(Section) /\ sinks \in Seq(Names)
    BY DEF Init
  <2>2. loaded \in [Threads -> Made \cup {0}] /\ at \in [Threads -> {"out", "locking", "reading"}]
    BY DEF Init
  <2>3. handles \in [Threads -> [owns : Made \cup {0}, points : Made \cup {0}]]
    BY DEF Init, None
  <2> QED BY <2>1, <2>2, <2>3 DEF Init, TypeOK
<1>2. Words
  BY DEF Init, Words, Settled
<1>3. \A t \in Threads : CallWhole(t)
  BY DEF Init, CallWhole, None
<1> QED BY <1>1, <1>2, <1>3 DEF IInv

\* Used for every step that goes to the next section.
LEMMA HeadOfSections ==
  ASSUME sections \in Seq(Section), sections # << >>
  PROVE  Head(sections) \in Section /\ Tail(sections) \in Seq(Section)
OBVIOUS

LEMMA TypeInv == TypeOK /\ Words /\ [Next]_vars => TypeOK'
<1> SUFFICES ASSUME TypeOK, Words, [Next]_vars PROVE TypeOK'
  OBVIOUS
<1>0. Len(sinks) \in Nat
  BY DEF TypeOK
<1>1. ASSUME NEW found \in Seq(Section), Begin(found) PROVE TypeOK'
  BY <1>1 DEF Begin, TypeOK, Made, readerVars, history
<1>2. CASE CreateSink
  <2>1. Head(sections).name \in Names
    BY <1>2, HeadOfSections DEF CreateSink, ByFactory, TypeOK, Section
  <2>2. sinks' \in Seq(Names) /\ Len(sinks') = Len(sinks) + 1
    BY <1>2, <2>1 DEF CreateSink, TypeOK
  <2>3. Made \subseteq Made' /\ Len(sinks') \in Made'
    BY <1>0, <2>2 DEF Made
  <2> QED BY <1>2, <2>2, <2>3 DEF CreateSink, TypeOK, readerVars, history
<1>3. CASE WriteObject
  <2>1. Len(sinks) \in Made
    BY <1>0, <1>3 DEF WriteObject, Words, TypeOK, Made
  <2> QED BY <1>3, <2>1 DEF WriteObject, TypeOK, Made, InCall, history
<1>4. CASE WriteCount
  <2>1. Len(sinks) \in Made
    BY <1>0, <1>4 DEF WriteCount, Words, TypeOK, Made
  <2> QED BY <1>4, <2>1 DEF WriteCount, TypeOK, Made, InCall, history
<1>5. CASE ReturnSink
  <2>1. sections' \in Seq(Section)
    BY <1>5, HeadOfSections DEF ReturnSink, TypeOK, Words
  <2> QED BY <1>5, <2>1 DEF ReturnSink, TypeOK, Made, readerVars, history
<1>6. CASE OtherSink
  <2>1. sections' \in Seq(Section)
    BY <1>6, HeadOfSections DEF OtherSink, ByBoost, TypeOK
  <2> QED BY <1>6, <2>1 DEF OtherSink, TypeOK, Made, readerVars, history
<1>7. CASE SectionThrows
  BY <1>7 DEF SectionThrows, TypeOK, Made, readerVars
<1>8. CASE AddSinks
  <2>1. new_sinks # {} => Len(sinks) \in Made
    BY DEF Words, TypeOK
  <2> QED BY <1>8, <2>1 DEF AddSinks, TypeOK, Made, readerVars
<1>9. CASE Register
  BY <1>9 DEF Register, TypeOK, Made, readerVars, history
<1>10. ASSUME NEW s \in core, RemoveSink(s) PROVE TypeOK'
  BY <1>10 DEF RemoveSink, TypeOK, Made, readerVars, history
<1>11. ASSUME NEW t \in Threads, LoadCount(t) PROVE TypeOK'
  BY <1>11 DEF LoadCount, TypeOK, Made, None, sinkVars, history
<1>12. ASSUME NEW t \in Threads, Lock(t) PROVE TypeOK'
  <2>1. PICK owner \in Made \cup {0} : handles' = [handles EXCEPT ![t].owns = owner]
    <3>1. loaded[t] \in Made \cup {0}
      BY DEF TypeOK
    <3> QED BY <1>12, <3>1 DEF Lock
  <2>2. handles' \in [Threads -> [owns : Made \cup {0}, points : Made \cup {0}]]
    BY <2>1 DEF TypeOK
  <2>3. at' \in [Threads -> {"out", "locking", "reading"}]
    BY <1>12 DEF Lock, TypeOK
  <2>4. UNCHANGED <<sinkVars, loaded, disturbed, history>>
    BY <1>12 DEF Lock
  <2> QED BY <2>2, <2>3, <2>4 DEF TypeOK, Made, sinkVars, history
<1>13. ASSUME NEW t \in Threads, FindNothing(t) PROVE TypeOK'
  BY <1>13 DEF FindNothing, TypeOK, Made, sinkVars, history
<1>14. ASSUME NEW t \in Threads, ReadObject(t) PROVE TypeOK'
  BY <1>14 DEF ReadObject, TypeOK, Made, sinkVars, history
<1>15. CASE UNCHANGED vars
  BY <1>15 DEF vars, TypeOK, Made, sinkVars, readerVars, history
<1> QED BY <1>1, <1>2, <1>3, <1>4, <1>5, <1>6, <1>7, <1>8, <1>9, <1>10, <1>11, <1>12, <1>13,
            <1>14, <1>15 DEF Next, MakeSinks, Program, Reader, Answer

\* Readers do not touch the words, and the log sees new sinks only when the last of
\* them is remembered.
LEMMA WordsInv == TypeOK /\ Words /\ [Next]_vars => Words'
<1> SUFFICES ASSUME TypeOK, Words, [Next]_vars PROVE Words'
  OBVIOUS
<1>0. /\ Len(sinks) \in Nat /\ new_sinks \subseteq 1..Len(sinks) /\ core \subseteq 1..Len(sinks)
      /\ latest \in 1..Len(sinks) \cup {0} /\ unwritten \subseteq {"object", "count"}
  BY DEF TypeOK, Made
<1>1. ASSUME NEW found \in Seq(Section), Begin(found) PROVE Words'
  BY <1>1 DEF Begin, Words, Settled, readerVars, history
<1>2. CASE CreateSink
  <2>1. Len(sinks') = Len(sinks) + 1
    <3>1. Head(sections).name \in Names
      BY <1>2, HeadOfSections DEF CreateSink, ByFactory, TypeOK, Section
    <3> QED BY <1>2, <3>1 DEF CreateSink, TypeOK
  <2>2. Len(sinks') \notin core /\ Len(sinks') # latest
    BY <1>0, <2>1
  <2>3. latest \notin new_sinks /\ new_sinks \cap core = {}
    BY DEF Words
  <2>4. sections # << >> /\ sections' = sections
    BY <1>2 DEF CreateSink, ByFactory
  <2> QED BY <1>2, <2>2, <2>3, <2>4 DEF CreateSink, Words, Settled, readerVars, history
<1>3. CASE WriteObject
  BY <1>0, <1>3 DEF WriteObject, Words, Settled, history
<1>4. CASE WriteCount
  BY <1>0, <1>4 DEF WriteCount, Words, Settled, history
<1>5. CASE ReturnSink
  BY <1>5 DEF ReturnSink, Words, Settled, readerVars, history
<1>6. CASE OtherSink
  BY <1>6 DEF OtherSink, Finds, Words, Settled, readerVars, history
<1>7. CASE SectionThrows
  <2>1. unwritten = {} /\ new_sinks' = {}
    BY <1>7 DEF SectionThrows, Words
  <2>2. Settled'
    <3>1. CASE new_sinks = {}
      BY <1>7, <3>1 DEF SectionThrows, Words, Settled, readerVars
    <3>2. CASE new_sinks # {}
      BY <1>7, <2>1, <3>2 DEF SectionThrows, Words, Settled, readerVars
    <3> QED BY <3>1, <3>2
  <2> QED BY <1>7, <2>1, <2>2 DEF SectionThrows, Words
<1>8. CASE AddSinks
  <2>1. unwritten = {} /\ new_sinks' = {}
    BY <1>8 DEF AddSinks, Words
  <2>2. Settled'
    <3>1. CASE new_sinks = {}
      BY <1>8, <3>1 DEF AddSinks, Words, Settled, readerVars
    <3>2. CASE new_sinks # {}
      BY <1>8, <2>1, <3>2 DEF AddSinks, Words, Settled, readerVars
    <3> QED BY <3>1, <3>2
  <2> QED BY <1>8, <2>1, <2>2 DEF AddSinks, Words, readerVars
<1>9. CASE Register
  BY <1>9 DEF Register, Words, Settled, readerVars, history
<1>10. ASSUME NEW s \in core, RemoveSink(s) PROVE Words'
  BY <1>10 DEF RemoveSink, Words, Settled, readerVars, history
<1>11. ASSUME NEW t \in Threads, Reader(t) PROVE Words'
  BY <1>11 DEF Reader, Answer, LoadCount, Lock, FindNothing, ReadObject, Words, Settled, sinkVars, history
<1>12. CASE UNCHANGED vars
  BY <1>12 DEF vars, Words, Settled, sinkVars, readerVars, history
<1> QED BY <1>1, <1>2, <1>3, <1>4, <1>5, <1>6, <1>7, <1>8, <1>9, <1>10, <1>11, <1>12
        DEF Next, MakeSinks, Program

\* Where the words are the same for all to see.
LEMMA WordsAgree ==
  ASSUME TypeOK, Words, unwritten = {}
  PROVE  object = count
<1>1. CASE new_sinks = {}
  BY <1>1 DEF Words, Settled
<1>2. CASE new_sinks # {}
  BY <1>2 DEF Words
<1> QED BY <1>1, <1>2

\* A step that leaves the words, the threads and their number alone, or adds a sink.
LEMMA CallUntouched ==
  ASSUME TypeOK, NEW t \in Threads, CallWhole(t), Len(sinks') \in Nat, Len(sinks) <= Len(sinks'),
         UNCHANGED <<object, count, at, loaded, handles, disturbed>>
  PROVE  CallWhole(t)'
<1>1. Len(sinks) \in Nat
  BY DEF TypeOK
<1>2. Len(sinks') <= 1 => Len(sinks) <= 1
  BY <1>1
<1>3. Len(sinks) >= 2 => Len(sinks') >= 2
  BY <1>1
<1> QED BY <1>2, <1>3 DEF CallWhole, None

\* While there is one sink at most, a word that is written was null.
LEMMA CallInv == IInv /\ [Next]_vars => \A t \in Threads : CallWhole(t)'
<1> SUFFICES ASSUME IInv, [Next]_vars, NEW t \in Threads PROVE CallWhole(t)'
  OBVIOUS
<1>0. TypeOK /\ Words /\ CallWhole(t) /\ Len(sinks) \in Nat
  BY DEF IInv, TypeOK
<1>1. CASE UNCHANGED <<sinks, object, count, at, loaded, handles, disturbed>>
  BY <1>0, <1>1, CallUntouched
<1>2. CASE CreateSink
  <2>1. Head(sections).name \in Names
    BY <1>0, <1>2, HeadOfSections DEF CreateSink, ByFactory, TypeOK, Section
  <2>2. Len(sinks') = Len(sinks) + 1
    BY <1>0, <1>2, <2>1 DEF CreateSink, TypeOK
  <2>3. Len(sinks') \in Nat /\ Len(sinks) <= Len(sinks')
    BY <1>0, <2>2
  <2> QED BY <1>0, <1>2, <2>3, CallUntouched DEF CreateSink, readerVars
<1>3. CASE WriteObject
  <2>1. at[t] # "out" => t \in disturbed'
    BY <1>3 DEF WriteObject, InCall
  <2>2. disturbed \subseteq disturbed'
    BY <1>3 DEF WriteObject
  <2>3. UNCHANGED <<sinks, count, at, loaded, handles>>
    BY <1>3 DEF WriteObject
  <2> QED BY <1>0, <2>1, <2>2, <2>3 DEF CallWhole, None
<1>4. CASE WriteCount
  <2>1. at[t] # "out" => t \in disturbed'
    BY <1>4 DEF WriteCount, InCall
  <2>2. disturbed \subseteq disturbed' /\ count' = Len(sinks)
    BY <1>4 DEF WriteCount
  <2>3. UNCHANGED <<sinks, object, at, loaded, handles>>
    BY <1>4 DEF WriteCount
  <2>4. loaded[t] \in 1..Len(sinks) \cup {0}
    BY <1>0 DEF TypeOK, Made
  <2>5. Len(sinks) <= 1 /\ loaded[t] # 0 => loaded[t] = Len(sinks)
    BY <1>0, <2>4
  <2> QED BY <1>0, <2>1, <2>2, <2>3, <2>5 DEF CallWhole, None
<1>5. ASSUME NEW u \in Threads, LoadCount(u) PROVE CallWhole(t)'
  <2>0. UNCHANGED <<sinks, object, count, unwritten>>
    BY <1>5 DEF LoadCount, sinkVars
  <2>1. CASE u = t
    <3>1. at'[t] = "locking" /\ loaded'[t] = count /\ handles'[t] = None
      BY <1>0, <1>5, <2>1 DEF LoadCount, TypeOK
    <3>2. t \notin disturbed' => unwritten = {}
      BY <1>5, <2>1 DEF LoadCount
    <3>3. t \notin disturbed' => object = count
      BY <1>0, <3>2, WordsAgree
    <3> QED BY <2>0, <3>1, <3>3 DEF CallWhole, None
  <2>2. CASE u # t
    <3>1. at'[t] = at[t] /\ loaded'[t] = loaded[t] /\ handles'[t] = handles[t]
      BY <1>0, <1>5, <2>2 DEF LoadCount, TypeOK
    <3>2. t \in disturbed' <=> t \in disturbed
      BY <1>5, <2>2 DEF LoadCount
    <3> QED BY <1>0, <2>0, <3>1, <3>2 DEF CallWhole, None
  <2> QED BY <2>1, <2>2
<1>6. ASSUME NEW u \in Threads, Lock(u) PROVE CallWhole(t)'
  <2>0. UNCHANGED <<sinks, object, count, disturbed>>
    BY <1>6 DEF Lock, sinkVars
  <2>1. CASE u = t
    <3>1. /\ at[t] = "locking" /\ at'[t] = "reading" /\ loaded[t] # 0
          /\ Alive(loaded[t]) => handles'[t].owns = loaded[t]
          /\ Alive(loaded[t]) \/ ~CountAlive(loaded[t])
      BY <1>0, <1>6, <2>1 DEF Lock, TypeOK
    <3>2. loaded[t] = count => handles'[t].owns = loaded[t]
      BY <3>1 DEF CountAlive
    <3>3. Len(sinks) <= 1 => loaded[t] = count /\ loaded[t] = 1
      <4>1. loaded[t] \in 1..Len(sinks)
        BY <1>0, <3>1 DEF TypeOK, Made
      <4> QED BY <1>0, <3>1, <4>1 DEF CallWhole
    <3>4. t \notin disturbed => loaded[t] = count /\ object = count
      BY <1>0, <3>1 DEF CallWhole
    <3> QED BY <2>0, <3>1, <3>2, <3>3, <3>4 DEF CallWhole
  <2>2. CASE u # t
    <3>1. at'[t] = at[t] /\ loaded'[t] = loaded[t] /\ handles'[t] = handles[t]
      BY <1>0, <1>6, <2>2 DEF Lock, TypeOK
    <3> QED BY <1>0, <2>0, <3>1 DEF CallWhole, None
  <2> QED BY <2>1, <2>2
<1>7. ASSUME NEW u \in Threads, FindNothing(u) PROVE CallWhole(t)'
  <2>0. UNCHANGED <<sinks, object, count, disturbed, loaded, handles>>
    BY <1>7 DEF FindNothing, sinkVars
  <2>1. CASE u = t
    <3>1. at'[t] = "out" /\ handles[t] = None
      BY <1>0, <1>7, <2>1 DEF FindNothing, TypeOK, CallWhole
    <3> QED BY <2>0, <3>1 DEF CallWhole, None
  <2>2. CASE u # t
    <3>1. at'[t] = at[t]
      BY <1>0, <1>7, <2>2 DEF FindNothing, TypeOK
    <3> QED BY <1>0, <2>0, <3>1 DEF CallWhole, None
  <2> QED BY <2>1, <2>2
<1>8. ASSUME NEW u \in Threads, ReadObject(u) PROVE CallWhole(t)'
  <2>0. UNCHANGED <<sinks, object, count, disturbed, loaded>>
    BY <1>8 DEF ReadObject, sinkVars
  <2>1. CASE u = t
    <3>1. /\ at[t] = "reading" /\ at'[t] = "out"
          /\ handles'[t].owns = handles[t].owns /\ handles'[t].points = object
      BY <1>0, <1>8, <2>1 DEF ReadObject, TypeOK
    <3>2. object \in 1..Len(sinks) \cup {0}
      BY <1>0 DEF TypeOK, Made
    <3>3. Len(sinks) < 2 => handles[t].owns = 1 /\ object \in {0, 1}
      BY <1>0, <3>1, <3>2 DEF CallWhole
    <3> QED BY <1>0, <2>0, <3>1, <3>3 DEF CallWhole
  <2>2. CASE u # t
    <3>1. at'[t] = at[t] /\ handles'[t] = handles[t]
      BY <1>0, <1>8, <2>2 DEF ReadObject, TypeOK
    <3> QED BY <1>0, <2>0, <3>1 DEF CallWhole, None
  <2> QED BY <2>1, <2>2
<1> QED
  BY <1>1, <1>2, <1>3, <1>4, <1>5, <1>6, <1>7, <1>8
  DEF Next, MakeSinks, Program, Reader, Answer, Begin, ReturnSink, OtherSink, SectionThrows,
      AddSinks, Register, RemoveSink, vars, sinkVars, readerVars

\* The words of console_sink_ are those of the last sink that the factory made,
\* unless they are being written, and each call of console_sink() has read one of
\* the values they had (lines 54 and 58).
THEOREM InductiveInvariant == Spec => []IInv
<1>1. IInv /\ [Next]_vars => IInv'
  BY TypeInv, WordsInv, CallInv DEF IInv
<1> QED BY <1>1, InitInv, PTL DEF Spec

\* The step that ends a call of console_sink().
Returns(t) ==
  at[t] # "out" /\ at'[t] = "out" /\ t \notin disturbed =>
    /\ handles'[t] = IF Alive(count) THEN [owns |-> count, points |-> count] ELSE None
    /\ step = "out" /\ ~lost /\ latest \in core => handles'[t].owns = latest

\* A call that returns has tried to own what the count was when it was loaded.
LEMMA ReturnsFound ==
  ASSUME IInv, Next, NEW t \in Threads, at[t] # "out", at'[t] = "out", t \notin disturbed
  PROVE  /\ handles'[t] = IF Alive(count) THEN [owns |-> count, points |-> count] ELSE None
         /\ step = "out" /\ ~lost /\ latest \in core => handles'[t].owns = latest
<1>0. TypeOK /\ Words /\ CallWhole(t)
  BY DEF IInv
<1>1. FindNothing(t) \/ ReadObject(t)
  <2>1. \A u \in Threads : LoadCount(u) \/ Lock(u) => at'[t] = at[t] \/ at'[t] # "out"
    BY <1>0 DEF LoadCount, Lock, TypeOK
  <2>2. \A u \in Threads : FindNothing(u) \/ ReadObject(u) => at'[t] = at[t] \/ u = t
    BY <1>0 DEF FindNothing, ReadObject, TypeOK
  <2>3. CASE \E u \in Threads : Reader(u)
    BY <2>1, <2>2, <2>3 DEF Reader, Answer
  <2>4. CASE ~\E u \in Threads : Reader(u)
    BY <2>4 DEF Next, MakeSinks, Program, Begin, CreateSink, WriteObject, WriteCount, ReturnSink,
       OtherSink, SectionThrows, AddSinks, Register, RemoveSink, readerVars
  <2> QED BY <2>3, <2>4
<1>2. handles'[t] = IF Alive(count) THEN [owns |-> count, points |-> count] ELSE None
  <2>1. CASE FindNothing(t)
    BY <1>0, <2>1 DEF FindNothing, CallWhole
  <2>2. CASE ReadObject(t)
    <3>1. handles[t].owns = count /\ object = count /\ Alive(count)
      BY <1>0, <2>2 DEF ReadObject, CallWhole, Alive
    <3>2. handles[t] \in [owns : Made \cup {0}, points : Made \cup {0}]
      BY <1>0 DEF TypeOK
    <3>3. handles'[t] = [handles[t] EXCEPT !.points = object]
      BY <1>0, <2>2 DEF ReadObject, TypeOK
    <3> QED BY <3>1, <3>2, <3>3
  <2> QED BY <1>1, <2>1, <2>2
<1>3. ASSUME step = "out", ~lost, latest \in core PROVE handles'[t].owns = latest
  <2>1. count = latest
    BY <1>0, <1>3 DEF Words, Settled
  <2>2. Alive(count)
    BY <1>0, <1>3, <2>1 DEF TypeOK, Made, Alive
  <2> QED BY <1>2, <2>1, <2>2
<1> QED BY <1>2, <1>3

\* A call during which no word is written finds the sink that is remembered.
LEMMA FoundBySpec == Spec => SinkFound
<1>1. IInv /\ [Next]_vars => [\A t \in Threads : Returns(t)]_vars
  BY ReturnsFound DEF Returns
<1> QED BY <1>1, InductiveInvariant, PTL DEF Spec, SinkFound, Returns

-------------------------------------------------------------------------------
(* The options: where each value belongs. *)

LEMMA PathIsSeq ==
  ASSUME NEW p \in L!Paths
  PROVE  p \in Seq(Parts) /\ Len(p) \in 1..4
<1>1. PICK n \in 1..4 : p \in [1..n -> Parts]
  BY DEF L!Paths
<1> QED BY <1>1

\* Settings have no dots in their last part, so none of them is in another.
LEMMA SettingsApart ==
  ASSUME NEW m \in L!Paths, NEW n \in L!Paths, L!IsSetting(m), L!IsSetting(n), L!IsPrefix(m, n)
  PROVE  m = n
<1>1. m \in Seq(Parts) /\ n \in Seq(Parts) /\ Len(m) \in 2..3 /\ Len(n) \in 2..3
  <2>1. Len(m) = 3 \/ Len(m) = 2
    BY DEF L!IsSetting
  <2>2. Len(n) = 3 \/ Len(n) = 2
    BY DEF L!IsSetting
  <2> QED BY <2>1, <2>2, PathIsSeq
<1>2. \A i \in 1..Len(m) : m[i] = n[i]
  <2>1. /\ SubSeq(m, 1, Len(m)) = [i \in 1..Len(m) |-> m[i]]
        /\ SubSeq(n, 1, Len(m)) = [i \in 1..Len(m) |-> n[i]]
    BY <1>1 DEF L!IsPrefix
  <2> QED BY <2>1 DEF L!IsPrefix
<1>3. m[1] = n[1]
  BY <1>1, <1>2
<1>4. Len(m) = Len(n)
  <2>1. m[1] = "Sinks" <=> Len(m) = 3
    <3>1. CASE Len(m) = 3 /\ m[1] = "Sinks"
      BY <3>1
    <3>2. CASE Len(m) = 2 /\ m[1] = "Core"
      BY <3>2
    <3> QED BY <3>1, <3>2 DEF L!IsSetting
  <2>2. n[1] = "Sinks" <=> Len(n) = 3
    <3>1. CASE Len(n) = 3 /\ n[1] = "Sinks"
      BY <3>1
    <3>2. CASE Len(n) = 2 /\ n[1] = "Core"
      BY <3>2
    <3> QED BY <3>1, <3>2 DEF L!IsSetting
  <2> QED BY <1>1, <1>3, <2>1, <2>2
<1> QED BY <1>1, <1>2, <1>4

\* Every option of the program that came so far is in its map.
KeptFirst ==
  overload = "options" =>
    \A j \in L!Given(next) : ~L!IsSetting(options[j].name) => options[j].name \in DOMAIN options_map

Collected == L!TypeOK /\ L!LastSettingWins /\ L!FirstOptionStays /\ KeptFirst

LEMMA CurrentType ==
  ASSUME L!TypeOK, L!AtOption
  PROVE  /\ next \in Nat /\ next \in 1..Len(options) /\ Len(options) \in Nat
         /\ L!Current \in L!Option /\ L!Current.name \in L!Paths
         /\ L!Considered(L!Current) => L!Current.values[1] \in Values
<1>1. next \in Nat /\ next \in 1..Len(options) /\ Len(options) \in Nat
  BY DEF L!TypeOK, L!AtOption
<1>2. L!Current \in L!Option
  BY <1>1 DEF L!TypeOK, L!Current
<1> QED BY <1>1, <1>2 DEF L!Option, L!Considered

\* The options of the first n, and the next one if it has a name and one value.
LEMMA GivenGrows ==
  ASSUME next \in Nat \ {0}, next' = next + 1, options' = options
  PROVE  /\ L!Given(next)' = IF L!Considered(L!Current) THEN L!Given(next) \cup {next} ELSE L!Given(next)
         /\ \A i \in L!Given(next) : i \in Nat /\ i < next
<1>1. 1..(next' - 1) = 1..(next - 1) \cup {next}
  OBVIOUS
<1> QED BY <1>1 DEF L!Given, L!Considered, L!Current

\* More options do not change which was the first.
LEMMA FirstStays ==
  ASSUME L!FirstOptionStays, next \in Nat \ {0}, UNCHANGED <<options, before, options_map>>,
         L!Given(next) \subseteq L!Given(next)',
         L!Given(next)' \subseteq L!Given(next) \cup {next},
         \A i \in L!Given(next) : i \in Nat /\ i < next
  PROVE  L!FirstOptionStays'
<1>1. \A n \in DOMAIN before' : n \in DOMAIN options_map' /\ options_map'[n] = before'[n]
  BY DEF L!FirstOptionStays
<1>2. ASSUME NEW n \in DOMAIN options_map' \ DOMAIN before'
      PROVE  /\ ~L!IsSetting(n)
             /\ \E i \in L!Given(next)' :
                  /\ options'[i].name = n /\ options_map'[n] = options'[i].values[1]
                  /\ \A j \in L!Given(next)' : options'[j].name = n => i <= j
  <2>1. ~L!IsSetting(n)
    BY <1>2 DEF L!FirstOptionStays
  <2>2. PICK i \in L!Given(next) :
          /\ options[i].name = n /\ options_map[n] = options[i].values[1]
          /\ \A j \in L!Given(next) : options[j].name = n => i <= j
    BY <1>2 DEF L!FirstOptionStays
  <2>3. \A j \in L!Given(next)' : options'[j].name = n => i <= j
    BY <2>2
  <2> QED BY <2>1, <2>2, <2>3
<1> QED BY <1>1, <1>2 DEF L!FirstOptionStays, L!IsSetting

LEMMA CollectedInit == L!Init => Collected
<1> SUFFICES ASSUME L!Init PROVE Collected
  OBVIOUS
<1>1. L!Given(next) = {}
  BY DEF L!Init, L!Given
<1>2. options \in Seq(L!Option)
  BY SetupAssumption DEF L!Init
<1>3. L!TypeOK
  <2>1. \A n \in DOMAIN before : n \in L!Paths /\ before[n] \in Values
    BY SetupAssumption DEF L!Init
  <2>2. next \in 1..(Len(options) + 1)
    BY <1>2 DEF L!Init
  <2>3. DOMAIN tree = {}
    BY DEF L!Init
  <2> QED BY <1>2, <2>1, <2>2, <2>3 DEF L!Init, L!TypeOK
<1>4. L!LastSettingWins
  BY <1>1 DEF L!Init, L!LastSettingWins
<1>5. L!FirstOptionStays /\ KeptFirst
  BY <1>1 DEF L!Init, L!FirstOptionStays, KeptFirst
<1> QED BY <1>3, <1>4, <1>5 DEF Collected

LEMMA CollectedSetting == Collected /\ L!Setting => Collected'
<1> SUFFICES ASSUME Collected, L!Setting PROVE Collected'
  OBVIOUS
<1> DEFINE n == L!Current.name
           v == L!Current.values[1]
<1>1. /\ L!TypeOK /\ L!AtOption /\ L!Considered(L!Current) /\ L!IsSetting(n)
      /\ next \in Nat \ {0} /\ next \in 1..Len(options) /\ n \in L!Paths /\ v \in Values
      /\ L!Current = options[next]
      /\ next' = next + 1 /\ has_log_settings' = TRUE
      /\ UNCHANGED <<overload, options, before, options_map, phase>>
  BY CurrentType DEF L!Setting, Collected, L!Current
<1>2. tree' = [x \in DOMAIN tree \cup {n} |-> IF x = n THEN v ELSE tree[x]]
  BY DEF L!Setting, L!Put, L!Set
<1>3. /\ L!Given(next)' = L!Given(next) \cup {next}
      /\ \A i \in L!Given(next) : i \in Nat /\ i < next
  BY <1>1, GivenGrows
<1>4. L!TypeOK'
  BY <1>1, <1>2 DEF L!TypeOK
<1>5. L!LastSettingWins'
  <2>1. has_log_settings' <=> DOMAIN tree' # {}
    BY <1>1, <1>2
  <2>2. DOMAIN tree' = {options[i].name : i \in {j \in L!Given(next)' : L!IsSetting(options[j].name)}}
    BY <1>1, <1>2, <1>3 DEF Collected, L!LastSettingWins
  <2>3. ASSUME NEW m \in DOMAIN tree'
        PROVE  \E i \in L!Given(next)' :
                 /\ options[i].name = m /\ tree'[m] = options[i].values[1]
                 /\ \A j \in L!Given(next)' : options[j].name = m => j <= i
    <3>1. CASE m = n
      <4>1. /\ next \in L!Given(next)' /\ options[next].name = m
            /\ tree'[m] = options[next].values[1]
            /\ \A j \in L!Given(next)' : j <= next
        BY <1>1, <1>2, <1>3, <3>1
      <4> QED BY <4>1
    <3>2. CASE m # n
      <4>1. m \in DOMAIN tree /\ tree'[m] = tree[m]
        BY <1>2, <3>2
      <4>2. PICK i \in L!Given(next) :
              /\ options[i].name = m /\ tree[m] = options[i].values[1]
              /\ \A j \in L!Given(next) : options[j].name = m => j <= i
        BY <4>1 DEF Collected, L!LastSettingWins
      <4>3. \A j \in L!Given(next)' : options[j].name = m => j <= i
        BY <1>1, <1>3, <3>2, <4>2
      <4> QED BY <1>3, <4>1, <4>2, <4>3
    <3> QED BY <3>1, <3>2
  <2>4. \A name : L!IsSetting(name)' <=> L!IsSetting(name)
    BY DEF L!IsSetting
  <2> QED BY <1>1, <2>1, <2>2, <2>3, <2>4 DEF L!LastSettingWins
<1>6. L!FirstOptionStays'
  BY <1>1, <1>3, FirstStays DEF Collected
<1>7. KeptFirst'
  BY <1>1, <1>3 DEF Collected, KeptFirst, L!IsSetting
<1> QED BY <1>4, <1>5, <1>6, <1>7 DEF Collected

\* No setting came, and the tree stays as it is.
LEMMA LastStays ==
  ASSUME L!LastSettingWins, UNCHANGED <<options, tree, has_log_settings>>,
         L!Given(next)' = L!Given(next) \/
           (L!Given(next)' = L!Given(next) \cup {next} /\ ~L!IsSetting(L!Current.name))
  PROVE  L!LastSettingWins'
<1>1. has_log_settings' <=> DOMAIN tree' # {}
  BY DEF L!LastSettingWins
<1>2. {j \in L!Given(next)' : L!IsSetting(options[j].name)} = {j \in L!Given(next) : L!IsSetting(options[j].name)}
  BY DEF L!Current
<1>3. DOMAIN tree' = {options[i].name : i \in {j \in L!Given(next)' : L!IsSetting(options[j].name)}}
  <2>1. DOMAIN tree' = {options[i].name : i \in {j \in L!Given(next) : L!IsSetting(options[j].name)}}
    BY DEF L!LastSettingWins
  <2> QED BY <1>2, <2>1
<1>4. ASSUME NEW n \in DOMAIN tree'
      PROVE  \E i \in L!Given(next)' :
               /\ options'[i].name = n /\ tree'[n] = options'[i].values[1]
               /\ \A j \in L!Given(next)' : options'[j].name = n => j <= i
  <2>1. PICK i \in L!Given(next) :
          /\ options[i].name = n /\ tree[n] = options[i].values[1]
          /\ \A j \in L!Given(next) : options[j].name = n => j <= i
    BY <1>4 DEF L!LastSettingWins
  <2>2. L!IsSetting(n)
    <3>1. n \in {options[k].name : k \in {j \in L!Given(next) : L!IsSetting(options[j].name)}}
      BY <1>4 DEF L!LastSettingWins
    <3> QED BY <3>1
  <2>3. \A j \in L!Given(next)' : options[j].name = n => j \in L!Given(next)
    BY <2>2 DEF L!Current
  <2>4. L!Given(next) \subseteq L!Given(next)'
    OBVIOUS
  <2> QED BY <2>1, <2>3, <2>4
<1>5. \A name : L!IsSetting(name)' <=> L!IsSetting(name)
  BY DEF L!IsSetting
<1> QED BY <1>1, <1>3, <1>4, <1>5 DEF L!LastSettingWins

LEMMA CollectedOther == Collected /\ L!OtherOption => Collected'
<1> SUFFICES ASSUME Collected, L!OtherOption PROVE Collected'
  OBVIOUS
<1> DEFINE n == L!Current.name
           v == L!Current.values[1]
<1>1. /\ L!TypeOK /\ L!AtOption /\ L!Considered(L!Current) /\ ~L!IsSetting(n)
      /\ next \in Nat \ {0} /\ next \in 1..Len(options) /\ n \in L!Paths /\ v \in Values
      /\ L!Current = options[next]
      /\ next' = next + 1
      /\ UNCHANGED <<overload, options, before, tree, has_log_settings, phase>>
  BY CurrentType DEF L!OtherOption, Collected, L!Current
<1>2. /\ L!Given(next)' = L!Given(next) \cup {next}
      /\ \A i \in L!Given(next) : i \in Nat /\ i < next
  BY <1>1, GivenGrows
<1>3. L!LastSettingWins'
  BY <1>1, <1>2, LastStays DEF Collected
<1>4. CASE overload # "options" \/ n \in DOMAIN options_map
  <2>1. options_map' = options_map
    BY <1>4 DEF L!OtherOption, L!Emplace
  <2>2. L!TypeOK'
    BY <1>1, <2>1 DEF L!TypeOK
  <2>3. L!FirstOptionStays'
    BY <1>1, <1>2, <2>1, FirstStays DEF Collected
  <2>4. KeptFirst'
    BY <1>1, <1>2, <1>4, <2>1 DEF Collected, KeptFirst, L!IsSetting
  <2> QED BY <1>3, <2>2, <2>3, <2>4 DEF Collected
<1>5. CASE overload = "options" /\ n \notin DOMAIN options_map
  <2>1. options_map' = [x \in DOMAIN options_map \cup {n} |-> IF x = n THEN v ELSE options_map[x]]
    BY <1>5 DEF L!OtherOption, L!Emplace, L!Set
  <2>2. L!TypeOK'
    BY <1>1, <2>1 DEF L!TypeOK
  <2>3. L!FirstOptionStays'
    <3>1. ASSUME NEW m \in DOMAIN before
          PROVE  m \in DOMAIN options_map' /\ options_map'[m] = before[m]
      <4>1. m \in DOMAIN options_map /\ options_map[m] = before[m]
        BY DEF Collected, L!FirstOptionStays
      <4> QED BY <1>5, <2>1, <4>1
    <3>2. ASSUME NEW m \in DOMAIN options_map' \ DOMAIN before
          PROVE  /\ ~L!IsSetting(m)
                 /\ \E i \in L!Given(next)' :
                      /\ options[i].name = m /\ options_map'[m] = options[i].values[1]
                      /\ \A j \in L!Given(next)' : options[j].name = m => i <= j
      <4>1. CASE m = n
        <5>1. \A j \in L!Given(next) : options[j].name # m
          BY <1>1, <1>5, <4>1 DEF Collected, KeptFirst
        <5>2. /\ next \in L!Given(next)' /\ options[next].name = m
              /\ options_map'[m] = options[next].values[1]
              /\ \A j \in L!Given(next)' : options[j].name = m => next <= j
          BY <1>1, <1>2, <2>1, <4>1, <5>1
        <5> QED BY <1>1, <4>1, <5>2
      <4>2. CASE m # n
        <5>1. m \in DOMAIN options_map \ DOMAIN before /\ options_map'[m] = options_map[m]
          BY <2>1, <3>2, <4>2
        <5>2. ~L!IsSetting(m)
          BY <5>1 DEF Collected, L!FirstOptionStays
        <5>3. PICK i \in L!Given(next) :
                /\ options[i].name = m /\ options_map[m] = options[i].values[1]
                /\ \A j \in L!Given(next) : options[j].name = m => i <= j
          BY <5>1 DEF Collected, L!FirstOptionStays
        <5>4. \A j \in L!Given(next)' : options[j].name = m => i <= j
          BY <1>1, <1>2, <4>2, <5>3
        <5> QED BY <1>2, <5>1, <5>2, <5>3, <5>4
      <4> QED BY <4>1, <4>2
    <3>3. \A name : L!IsSetting(name)' <=> L!IsSetting(name)
      BY DEF L!IsSetting
    <3> QED BY <1>1, <3>1, <3>2, <3>3 DEF L!FirstOptionStays
  <2>4. KeptFirst'
    <3>1. \A j \in L!Given(next)' : ~L!IsSetting(options[j].name) => options[j].name \in DOMAIN options_map'
      BY <1>1, <1>2, <1>5, <2>1 DEF Collected, KeptFirst
    <3> QED BY <1>1, <3>1 DEF KeptFirst, L!IsSetting
  <2> QED BY <1>3, <2>2, <2>3, <2>4 DEF Collected
<1> QED BY <1>4, <1>5

LEMMA CollectedIgnored == Collected /\ L!Ignored => Collected'
<1> SUFFICES ASSUME Collected, L!Ignored PROVE Collected'
  OBVIOUS
<1>1. /\ L!TypeOK /\ L!AtOption /\ ~L!Considered(L!Current)
      /\ next \in Nat \ {0} /\ next \in 1..Len(options)
      /\ next' = next + 1
      /\ UNCHANGED <<overload, options, before, tree, options_map, has_log_settings, phase>>
  BY CurrentType DEF L!Ignored, Collected
<1>2. /\ L!Given(next)' = L!Given(next)
      /\ \A i \in L!Given(next) : i \in Nat /\ i < next
  BY <1>1, GivenGrows
<1>3. L!TypeOK'
  BY <1>1 DEF L!TypeOK
<1>4. L!LastSettingWins'
  BY <1>1, <1>2, LastStays DEF Collected
<1>5. L!FirstOptionStays'
  BY <1>1, <1>2, FirstStays DEF Collected
<1>6. KeptFirst'
  BY <1>1, <1>2 DEF Collected, KeptFirst, L!IsSetting
<1> QED BY <1>3, <1>4, <1>5, <1>6 DEF Collected

\* Nothing is collected any more, or other variables change.
LEMMA CollectedStays ==
  ASSUME Collected, phase' \in {"collecting", "returned", "thrown"},
         UNCHANGED <<overload, options, before, next, tree, options_map, has_log_settings>>
  PROVE  Collected'
<1>1. L!Given(next)' = L!Given(next)
  BY DEF L!Given, L!Considered
<1>2. L!TypeOK'
  BY DEF Collected, L!TypeOK
<1>3. L!LastSettingWins'
  BY <1>1, LastStays DEF Collected
<1>4. L!FirstOptionStays'
  <2>1. next \in Nat \ {0}
    BY DEF Collected, L!TypeOK
  <2>2. \A i \in L!Given(next) : i \in Nat /\ i < next
    BY <2>1 DEF L!Given
  <2> QED BY <1>1, <2>1, <2>2, FirstStays DEF Collected
<1>5. KeptFirst'
  BY <1>1 DEF Collected, KeptFirst, L!IsSetting
<1> QED BY <1>2, <1>3, <1>4, <1>5 DEF Collected

LEMMA CollectedAgain == Collected /\ SetUpAgain => Collected'
<1> SUFFICES ASSUME Collected, SetUpAgain PROVE Collected'
  OBVIOUS
<1>1. /\ overload' \in {"options", "strings"} /\ options' \in Inputs
      /\ before' = options_map /\ options_map' = options_map
      /\ next' = 1 /\ tree' = << >> /\ has_log_settings' = FALSE /\ phase' = "collecting"
  BY SetupAssumption DEF SetUpAgain
<1>2. options' \in Seq(L!Option)
  BY <1>1, SetupAssumption
<1>3. L!Given(next)' = {}
  BY <1>1 DEF L!Given
<1>4. L!TypeOK'
  <2>1. next' \in 1..(Len(options') + 1) /\ DOMAIN tree' = {}
    BY <1>1, <1>2
  <2>2. \A n \in DOMAIN options_map : n \in L!Paths /\ options_map[n] \in Values
    BY DEF Collected, L!TypeOK
  <2> QED BY <1>1, <1>2, <2>1, <2>2 DEF L!TypeOK
<1>5. L!LastSettingWins'
  BY <1>1, <1>3 DEF L!LastSettingWins
<1>6. L!FirstOptionStays' /\ KeptFirst'
  BY <1>1, <1>3 DEF L!FirstOptionStays, KeptFirst
<1> QED BY <1>4, <1>5, <1>6 DEF Collected

LEMMA CollectedInv == Collected /\ [SetupNext]_allVars => Collected'
<1> SUFFICES ASSUME Collected, [SetupNext]_allVars PROVE Collected'
  OBVIOUS
<1>1. phase \in {"collecting", "returned", "thrown"}
  BY DEF Collected, L!TypeOK
<1>2. CASE Collect
  BY <1>2, CollectedSetting, CollectedOther, CollectedIgnored DEF Collect
<1>3. CASE BeginInit \/ SetupSinks \/ Meanwhile \/ UNCHANGED allVars
  BY <1>1, <1>3, CollectedStays DEF BeginInit, SetupSinks, Meanwhile, allVars, logVars
<1>4. CASE InitReturns \/ InitThrows
  BY <1>4, CollectedStays DEF InitReturns, InitThrows, L!InitFromSettings
<1>5. CASE SetUpAgain
  BY <1>5, CollectedAgain
<1> QED BY <1>2, <1>3, <1>4, <1>5 DEF SetupNext

\* Each value is where it belongs after any options, however often the log is set
\* up: settings are in the tree, as leaves and with the last value, options of the
\* program in the map with the first (lines 82-94 and 110-124 of log.cpp).
THEOREM ValuesCount == SetupSpec => []ValuesThatCount
<1>1. Collected => ValuesThatCount
  <2> SUFFICES ASSUME Collected PROVE L!SettingsAreLeaves
    BY DEF Collected, ValuesThatCount, L!ValuesThatCount
  <2>1. \A n \in DOMAIN tree : n \in L!Paths /\ L!IsSetting(n)
    <3>1. DOMAIN tree = {options[i].name : i \in {j \in L!Given(next) : L!IsSetting(options[j].name)}}
      BY DEF Collected, L!LastSettingWins
    <3> QED BY <3>1 DEF Collected, L!TypeOK
  <2> QED BY <2>1, SettingsApart DEF L!SettingsAreLeaves
<1>2. SetupInit => Collected
  BY CollectedInit DEF SetupInit
<1> QED BY <1>1, <1>2, CollectedInv, PTL DEF SetupSpec

-------------------------------------------------------------------------------
(* The sections that boost::log finds. *)

\* Numbers are well-founded: what the proofs below use in place of induction.
LEMMA NatMin ==
  ASSUME NEW T, T \subseteq Nat, T # {}
  PROVE  \E x \in T : \A y \in T : x <= y
<1> DEFINE R == {ss \in Nat \X Nat : ss[1] < ss[2]}
<1>1. IsWellFoundedOn(R, Nat)
  BY NatLessThanWellFounded DEF OpToRel
<1> HIDE DEF R
<1>2. PICK x \in T : \A y \in T : ~(<<y, x>> \in R)
  BY <1>1, WFMin
<1>3. \A y \in T : ~(y < x)
  BY <1>2 DEF R
<1> QED BY <1>3

\* One of n positions is the k-th, if there are so many: the first up to which
\* there are k.
LEMMA KthExists ==
  ASSUME NEW n \in Nat, NEW F \in SUBSET (1..n), NEW k \in 1..Cardinality(F)
  PROVE  \E i \in F : Cardinality({j \in F : j <= i}) = k
<1> DEFINE Upto(i) == {j \in F : j <= i}
<1> DEFINE T == {i \in Nat : Cardinality(Upto(i)) >= k}
<1>0. IsFiniteSet(F)
  <2>1. IsFiniteSet(1..n)
    BY FS_Interval
  <2> QED BY <2>1, FS_Subset
<1>f. \A j \in F : j \in Nat /\ 1 <= j /\ j <= n
  OBVIOUS
<1>1. \A i \in Nat : IsFiniteSet(Upto(i)) /\ Cardinality(Upto(i)) \in Nat
  <2>1. \A i \in Nat : Upto(i) \in SUBSET F
    OBVIOUS
  <2> HIDE DEF Upto
  <2> QED BY <1>0, <2>1, FS_Subset, FS_CardinalityType
<1>2. PICK i \in T : \A x \in T : i <= x
  <2>1. Upto(n) = F
    BY <1>f
  <2>2. n \in T
    <3>1. Cardinality(F) \in Nat
      BY <1>0, FS_CardinalityType
    <3> HIDE DEF Upto
    <3> QED BY <2>1, <3>1
  <2>3. T \subseteq Nat /\ T # {}
    BY <2>2
  <2> HIDE DEF T
  <2> QED BY <2>3, NatMin
<1>3. i \in Nat /\ i # 0
  <2>0. \A j \in F : ~(j <= 0)
    BY <1>f
  <2>1. Upto(0) = {}
    BY <2>0
  <2>2. Cardinality(Upto(0)) = 0
    BY <2>1, FS_EmptySet
  <2>3. 0 \notin T
    <3> HIDE DEF Upto
    <3> QED BY <2>2
  <2> QED BY <2>3
<1>4. i - 1 \in Nat /\ i - 1 \notin T
  <2>1. i - 1 \in Nat /\ ~(i <= i - 1)
    BY <1>3
  <2> HIDE DEF T
  <2> QED BY <1>2, <2>1
<1>5. /\ Cardinality(Upto(i - 1)) < k /\ Cardinality(Upto(i)) >= k
      /\ Cardinality(Upto(i)) \in Nat /\ Cardinality(Upto(i - 1)) \in Nat
  <2> HIDE DEF Upto
  <2> QED BY <1>1, <1>2, <1>3, <1>4
<1>6. i \in F
  <2> SUFFICES ASSUME i \notin F PROVE FALSE
    OBVIOUS
  <2>1. \A j \in F : j <= i <=> j <= i - 1
    BY <1>f, <1>3
  <2>2. Upto(i) = Upto(i - 1)
    BY <2>1
  <2> HIDE DEF Upto
  <2> QED BY <1>5, <2>2
<1>7. Cardinality(Upto(i)) = Cardinality(Upto(i - 1)) + 1
  <2>1. \A j \in F : j <= i <=> j <= i - 1 \/ j = i
    BY <1>f, <1>3
  <2>2. Upto(i) = Upto(i - 1) \cup {i}
    BY <1>6, <2>1
  <2>3. i \notin Upto(i - 1)
    BY <1>3
  <2> HIDE DEF Upto
  <2> QED BY <1>1, <1>4, <2>2, <2>3, FS_AddElement
<1>8. Cardinality(Upto(i)) = k
  <2> HIDE DEF Upto
  <2> QED BY <1>5, <1>7
<1> QED BY <1>6, <1>8

LEMMA FirstIsFirst ==
  ASSUME L!TypeOK, NEW k \in 1..Cardinality(Firsts)
  PROVE  First(k) \in Firsts /\ Cardinality({j \in Firsts : j <= First(k)}) = k
<1>1. Firsts \in SUBSET (1..Len(options)) /\ Len(options) \in Nat
  BY DEF Firsts, L!TypeOK
<1>2. \E i \in Firsts : Cardinality({j \in Firsts : j <= i}) = k
  BY <1>1, KthExists
<1> QED BY <1>2 DEF First

\* A setting of a sink names its section and itself.
LEMMA SinkSettingShape ==
  ASSUME L!TypeOK, NEW i \in 1..Len(options), IsSinkSetting(options[i])
  PROVE  /\ L!Considered(options[i]) /\ L!IsSetting(options[i].name)
         /\ options[i].name \in Seq(Parts) /\ Len(options[i].name) = 3
         /\ options[i].name[1] = "Sinks" /\ options[i].name[2] \in Names
<1>1. options[i] \in L!Option
  BY DEF L!TypeOK
<1>2. options[i].name \in L!Paths
  BY <1>1 DEF L!Option
<1> QED BY <1>2, PathIsSeq DEF IsSinkSetting, L!IsSetting

LEMMA SectionsType ==
  ASSUME L!TypeOK
  PROVE  /\ Cardinality(Firsts) \in Nat
         /\ Sections \in Seq(Section) /\ Len(Sections) = Cardinality(Firsts)
<1>1. Cardinality(Firsts) \in Nat
  <2>1. Firsts \in SUBSET (1..Len(options)) /\ Len(options) \in Nat
    BY DEF Firsts, L!TypeOK
  <2>2. IsFiniteSet(1..Len(options))
    BY <2>1, FS_Interval
  <2> QED BY <2>1, <2>2, FS_Subset, FS_CardinalityType
<1>2. ASSUME NEW k \in 1..Cardinality(Firsts)
      PROVE  SectionNamed(options[First(k)].name[2]) \in Section
  <2>1. First(k) \in 1..Len(options) /\ IsSinkSetting(options[First(k)])
    <3>1. First(k) \in Firsts
      BY FirstIsFirst
    <3> QED BY <3>1 DEF Firsts, L!TypeOK
  <2>2. options[First(k)].name[2] \in Names
    BY <2>1, SinkSettingShape
  <2> QED BY <2>2 DEF SectionNamed, Section
<1> QED BY <1>1, <1>2 DEF Sections

\* A step of the composition is one of ConsoleSink, or none.
LEMMA StepImplemented == Collected /\ [SetupNext]_allVars => [Next]_vars
<1> SUFFICES ASSUME Collected, [SetupNext]_allVars PROVE [Next]_vars
  OBVIOUS
<1>1. Sections \in Seq(Section)
  BY SectionsType DEF Collected
<1>2. CASE BeginInit
  BY <1>1, <1>2 DEF BeginInit, Next
<1>3. CASE Collect \/ SetUpAgain \/ UNCHANGED allVars
  BY <1>3 DEF Collect, SetUpAgain, allVars
<1>4. CASE SetupSinks \/ Meanwhile
  BY <1>4 DEF SetupSinks, Meanwhile, Next
<1>5. CASE InitReturns \/ InitThrows
  BY <1>5 DEF InitReturns, InitThrows, Next
<1> QED BY <1>2, <1>3, <1>4, <1>5 DEF SetupNext

\* The composition implements ConsoleSink: what boost::log finds in the settings that
\* were collected (log.cpp, lines 107-135) are sections as ConsoleSink has them.
THEOREM SinkImplemented == SetupSpec => Spec
<1>1. SetupInit => Init /\ Collected
  BY CollectedInit DEF SetupInit
<1> QED BY <1>1, CollectedInv, StepImplemented, PTL DEF SetupSpec, Spec

\* console_sink() returns handles that own what they point to, unless the factory
\* assigned its second sink or a later one during the call (lines 54 and 58).
THEOREM Whole == SetupSpec => []HandlesWhole
<1>1. IInv => HandlesWhole
  BY DEF IInv, HandlesWhole, CallWhole
<1> QED BY <1>1, SinkImplemented, InductiveInvariant, PTL

\* The factory remembers the last sink that the log got, until an initialization
\* fails after it made a sink (line 54).
THEOREM Remembered == SetupSpec => []ConsoleRemembered
<1>1. IInv => ConsoleRemembered
  BY DEF IInv, ConsoleRemembered, Words, Settled
<1> QED BY <1>1, SinkImplemented, InductiveInvariant, PTL

\* Every undisturbed call of console_sink() returns the sink that is remembered, and
\* the one that was added last while the log has it (lines 54 and 58).
THEOREM Found == SetupSpec => SinkFound
  BY SinkImplemented, FoundBySpec, PTL

-------------------------------------------------------------------------------
(* The sinks that the sections become. *)

LEMMA SectionsStay ==
  ASSUME UNCHANGED <<options, tree>>
  PROVE  Sections' = Sections
<1>1. \A i \in DOMAIN options : IsSinkSetting(options[i])' <=> IsSinkSetting(options[i])
  BY DEF IsSinkSetting, L!Considered, L!IsSetting
<1>2. Firsts' = Firsts
  BY <1>1 DEF Firsts, IsSinkSetting, L!Considered, L!IsSetting
<1> QED BY <1>2 DEF Sections, First, SectionNamed, ValueOr

\* Of the first d sections, the last one for the console has become the last sink.
LastConsole(d) ==
  \E k \in 1..d :
    /\ Sections[k].destination = "Console" /\ Sections[k].name = sinks[Len(sinks)]
    /\ \A m \in (k + 1)..d : Sections[m].destination # "Console"

Done == Len(Sections) - Len(sections)

\* The log is set up by the options that were collected, section by section; from
\* the first sink that the factory made, no section for the console goes elsewhere.
Sinking ==
  step # "out" =>
    /\ phase = "collecting" /\ next > Len(options)
    /\ Len(sections) <= Len(Sections)
    /\ \A i \in 1..Len(sections) : sections[i] = Sections[Done + i]
    /\ new_sinks # {} => registered
    /\ new_sinks # {} /\ step = "making" => LastConsole(Done)
    /\ step = "assigning" => LastConsole(Done + 1)

SetupInv == Collected /\ IInv /\ Sinking

\* The section that is next.
LEMMA HeadIsNext ==
  ASSUME SetupInv, step # "out", sections # << >>
  PROVE  /\ Head(sections) = Sections[Done + 1] /\ Done \in Nat /\ Done + 1 \in 1..Len(Sections)
         /\ Len(Tail(sections)) = Len(sections) - 1
         /\ \A i \in 1..Len(Tail(sections)) : Tail(sections)[i] = Sections[Done + 1 + i]
<1>1. sections \in Seq(Section) /\ Len(sections) \in Nat \ {0} /\ Len(Sections) \in Nat
  BY SectionsType DEF SetupInv, IInv, TypeOK, Collected
<1>2. Done \in Nat /\ Done + 1 \in 1..Len(Sections)
  BY <1>1 DEF SetupInv, Sinking, Done
<1>3. \A i \in 1..Len(sections) : sections[i] = Sections[Done + i]
  BY DEF SetupInv, Sinking
<1>4. Head(sections) = sections[1] /\ 1 \in 1..Len(sections)
  BY <1>1
<1>5. Len(Tail(sections)) = Len(sections) - 1
  BY <1>1
<1>6. \A i \in 1..Len(Tail(sections)) : Tail(sections)[i] = Sections[Done + 1 + i]
  <2> SUFFICES ASSUME NEW i \in 1..Len(Tail(sections))
               PROVE  Tail(sections)[i] = Sections[Done + 1 + i]
    OBVIOUS
  <2>1. Tail(sections)[i] = sections[i + 1] /\ i + 1 \in 1..Len(sections) /\ i \in Nat
    BY <1>1, <1>5
  <2>2. Done + (i + 1) = Done + 1 + i
    BY <1>2, <2>1
  <2> QED BY <1>3, <2>1, <2>2
<1> QED BY <1>2, <1>3, <1>4, <1>5, <1>6

\* Nothing that the sections and the sinks consist of changes.
LEMMA SinkingStays ==
  ASSUME Sinking, UNCHANGED <<options, tree, phase, next, sections, step, sinks, new_sinks>>,
         registered => registered'
  PROVE  Sinking'
<1>1. Sections' = Sections
  BY SectionsStay
<1>2. Done' = Done /\ \A d : LastConsole(d)' <=> LastConsole(d)
  BY <1>1 DEF Done, LastConsole
<1>3. (LastConsole(Done)' <=> LastConsole(Done)) /\ (LastConsole(Done + 1)' <=> LastConsole(Done + 1))
  BY <1>1, <1>2 DEF LastConsole
<1> QED BY <1>1, <1>2, <1>3 DEF Sinking

LEMMA SinkingInv == SetupInv /\ [SetupNext]_allVars => Sinking'
<1> SUFFICES ASSUME SetupInv, [SetupNext]_allVars PROVE Sinking'
  OBVIOUS
<1>0. Sinking /\ Words /\ TypeOK /\ L!TypeOK /\ Collected
  BY DEF SetupInv, IInv, Collected
<1>1. CASE Collect
  <2>1. step = "out"
    BY <1>0, <1>1 DEF Collect, Sinking, L!Setting, L!OtherOption, L!Ignored, L!AtOption, L!TypeOK
  <2> QED BY <1>1, <2>1 DEF Collect, Sinking, vars, sinkVars
<1>2. CASE SetUpAgain
  <2>1. step = "out"
    BY <1>0, <1>2 DEF SetUpAgain, Sinking
  <2> QED BY <1>2, <2>1 DEF SetUpAgain, Sinking, vars, sinkVars
<1>3. CASE InitReturns \/ InitThrows
  <2>1. step' = "out"
    BY <1>3 DEF InitReturns, InitThrows, AddSinks, SectionThrows, vars, sinkVars
  <2> QED BY <2>1 DEF Sinking
<1>4. CASE Meanwhile \/ UNCHANGED allVars
  <2>1. /\ UNCHANGED <<options, tree, phase, next, sections, step, sinks, new_sinks>>
        /\ registered => registered'
    BY <1>4 DEF Meanwhile, allVars, logVars, vars, sinkVars, Program, Register, RemoveSink, Reader,
         Answer, LoadCount, Lock, FindNothing, ReadObject
  <2> QED BY <1>0, <2>1, SinkingStays
<1>5. CASE BeginInit
  <2>1. /\ phase' = "collecting" /\ next' > Len(options') /\ sections' = Sections /\ new_sinks' = {}
        /\ step' = "making" /\ UNCHANGED <<options, tree>>
    BY <1>0, <1>5 DEF BeginInit, Begin, logVars, Words
  <2>2. Sections' = Sections /\ Len(Sections) \in Nat
    BY <1>0, <2>1, SectionsStay, SectionsType
  <2>3. Done' = 0
    BY <2>1, <2>2 DEF Done
  <2>4. \A i \in 1..Len(sections') : sections'[i] = Sections'[Done' + i]
    BY <2>1, <2>2, <2>3
  <2> QED BY <2>1, <2>2, <2>4 DEF Sinking
<1>6. CASE SetupSinks
  <2>0. /\ UNCHANGED <<options, tree, phase, next>> /\ Sections' = Sections /\ Len(Sections) \in Nat
        /\ MakeSinks
    BY <1>0, <1>6, SectionsStay, SectionsType DEF SetupSinks, logVars
  <2>1. CASE WriteObject \/ WriteCount
    BY <1>0, <2>0, <2>1, SinkingStays DEF WriteObject, WriteCount
  <2>2. CASE CreateSink
    <3>1. /\ step = "making" /\ step' = "assigning" /\ sections # << >> /\ registered
          /\ Head(sections).destination = "Console"
          /\ sinks' = Append(sinks, Head(sections).name)
          /\ UNCHANGED <<sections, registered>>
      BY <2>2 DEF CreateSink, Finds, ByFactory
    <3>2. Head(sections) = Sections[Done + 1] /\ Done \in Nat /\ Done' = Done
      BY <2>0, <3>1, HeadIsNext DEF Done
    <3>3. sinks'[Len(sinks')] = Head(sections).name
      BY <1>0, <3>1, HeadOfSections DEF TypeOK, Section
    <3>4. LastConsole(Done + 1)'
      <4>1. Done + 1 \in 1..(Done + 1) /\ (Done + 1 + 1)..(Done + 1) = {}
        BY <3>2
      <4> QED BY <2>0, <3>1, <3>2, <3>3, <4>1 DEF LastConsole
    <3> QED BY <1>0, <2>0, <3>1, <3>2, <3>4 DEF Sinking
  <2>3. CASE ReturnSink
    <3>1. /\ step = "assigning" /\ step' = "making" /\ sections # << >> /\ sections' = Tail(sections)
          /\ UNCHANGED <<sinks, new_sinks, registered>>
      BY <1>0, <2>3 DEF ReturnSink, Words
    <3>2. /\ Done \in Nat /\ Len(sections') = Len(sections) - 1
          /\ \A i \in 1..Len(sections') : sections'[i] = Sections[Done + 1 + i]
      BY <3>1, HeadIsNext
    <3>3. Done' = Done + 1
      <4>1. Len(sections) \in Nat
        BY <1>0 DEF TypeOK
      <4> QED BY <2>0, <3>2, <4>1 DEF Done
    <3>4. LastConsole(Done)'
      BY <1>0, <2>0, <3>1, <3>3 DEF LastConsole, Sinking
    <3>5. Len(sections') <= Len(Sections')
      <4>1. Len(sections) \in Nat
        BY <1>0 DEF TypeOK
      <4> QED BY <1>0, <2>0, <3>1, <3>2, <4>1 DEF Sinking
    <3> QED BY <1>0, <2>0, <3>1, <3>2, <3>3, <3>4, <3>5 DEF Sinking
  <2>4. CASE OtherSink
    <3>1. /\ step = "making" /\ step' = "making" /\ sections # << >> /\ sections' = Tail(sections)
          /\ registered => Head(sections).destination # "Console"
          /\ UNCHANGED <<sinks, new_sinks, registered>>
      BY <2>4 DEF OtherSink, ByBoost, ByFactory, Finds
    <3>2. /\ Done \in Nat /\ Len(sections') = Len(sections) - 1
          /\ \A i \in 1..Len(sections') : sections'[i] = Sections[Done + 1 + i]
          /\ Head(sections) = Sections[Done + 1]
      BY <3>1, HeadIsNext
    <3>3. Done' = Done + 1
      <4>1. Len(sections) \in Nat
        BY <1>0 DEF TypeOK
      <4> QED BY <2>0, <3>2, <4>1 DEF Done
    <3>4. ASSUME new_sinks # {} PROVE LastConsole(Done)'
      <4>1. PICK k \in 1..Done :
              /\ Sections[k].destination = "Console" /\ Sections[k].name = sinks[Len(sinks)]
              /\ \A m \in (k + 1)..Done : Sections[m].destination # "Console"
        BY <1>0, <3>1, <3>4 DEF Sinking, LastConsole
      <4>2. Sections[Done + 1].destination # "Console"
        BY <1>0, <3>1, <3>2, <3>4 DEF Sinking
      <4>3. \A m \in (k + 1)..(Done + 1) : Sections[m].destination # "Console"
        <5>1. \A m \in (k + 1)..(Done + 1) : m \in (k + 1)..Done \/ m = Done + 1
          BY <3>2
        <5> QED BY <4>1, <4>2, <5>1
      <4>4. k \in 1..(Done + 1)
        BY <3>2
      <4> QED BY <2>0, <3>1, <3>3, <4>1, <4>3, <4>4 DEF LastConsole
    <3>5. Len(sections') <= Len(Sections')
      <4>1. Len(sections) \in Nat
        BY <1>0 DEF TypeOK
      <4> QED BY <1>0, <2>0, <3>1, <3>2, <4>1 DEF Sinking
    <3> QED BY <1>0, <2>0, <3>1, <3>2, <3>3, <3>4, <3>5 DEF Sinking
  <2> QED BY <2>0, <2>1, <2>2, <2>3, <2>4 DEF MakeSinks
<1> QED BY <1>1, <1>2, <1>3, <1>4, <1>5, <1>6 DEF SetupNext

LEMMA SetupInductive == SetupSpec => []SetupInv
<1>1. SetupInit => SetupInv
  <2>1. SetupInit => Collected /\ IInv
    BY CollectedInit, InitInv DEF SetupInit
  <2>2. SetupInit => Sinking
    BY DEF SetupInit, Init, Sinking
  <2> QED BY <2>1, <2>2 DEF SetupInv
<1>2. SetupInv /\ [SetupNext]_allVars => SetupInv'
  <2>1. SetupInv /\ [SetupNext]_allVars => Collected' /\ IInv'
    BY CollectedInv, StepImplemented, TypeInv, WordsInv, CallInv DEF SetupInv, IInv
  <2> QED BY <2>1, SinkingInv DEF SetupInv
<1> QED BY <1>1, <1>2, PTL DEF SetupSpec

\* The threads and the sinks, the options and what is collected of them stay of
\* their types.
THEOREM TypeCorrect == SetupSpec => [](L!TypeOK /\ TypeOK)
<1>1. SetupInv => L!TypeOK /\ TypeOK
  BY DEF SetupInv, Collected, IInv
<1> QED BY <1>1, SetupInductive, PTL

-------------------------------------------------------------------------------
(* The sink that the program gets. *)

LEMMA MinOfPositions ==
  ASSUME NEW n \in Nat, NEW F \in SUBSET (1..n), F # {}
  PROVE  Min(F) \in F /\ \A j \in F : Min(F) <= j
<1>1. F \subseteq Nat
  OBVIOUS
<1>2. \E i \in F : \A j \in F : i <= j
  BY <1>1, NatMin
<1> QED BY <1>2 DEF Min

LEMMA MaxOfPositions ==
  ASSUME NEW n \in Nat, NEW F \in SUBSET (1..n), F # {}
  PROVE  Max(F) \in F /\ \A j \in F : j <= Max(F)
<1> DEFINE T == {n - i : i \in F}
<1>0. \A i \in F : i \in Nat /\ n - i \in Nat
  OBVIOUS
<1>1. PICK x \in T : \A y \in T : x <= y
  <2>1. T \subseteq Nat /\ T # {}
    BY <1>0
  <2> HIDE DEF T
  <2> QED BY <2>1, NatMin
<1>2. PICK i \in F : x = n - i
  OBVIOUS
<1>3. \A j \in F : i >= j
  <2> SUFFICES ASSUME NEW j \in F PROVE i >= j
    OBVIOUS
  <2>1. n - i <= n - j
    BY <1>1, <1>2
  <2> QED BY <1>0, <2>1
<1>4. Max(F) \in F /\ \A j \in F : Max(F) >= j
  BY <1>3 DEF Max
<1>5. Max(F) \in Nat
  BY <1>0, <1>4
<1> QED BY <1>0, <1>4, <1>5

\* The sections are in the order of their first settings.
LEMMA FirstsInOrder ==
  ASSUME L!TypeOK, NEW m \in 1..Cardinality(Firsts), NEW k \in 1..Cardinality(Firsts), m <= k
  PROVE  First(m) <= First(k)
<1> DEFINE Upto(i) == {j \in Firsts : j <= i}
<1>1. /\ First(m) \in Firsts /\ Cardinality(Upto(First(m))) = m
      /\ First(k) \in Firsts /\ Cardinality(Upto(First(k))) = k
  BY FirstIsFirst
<1>2. Firsts \in SUBSET (1..Len(options)) /\ Len(options) \in Nat /\ IsFiniteSet(Firsts)
  <2>1. Firsts \in SUBSET (1..Len(options)) /\ Len(options) \in Nat
    BY DEF Firsts, L!TypeOK
  <2>2. IsFiniteSet(1..Len(options))
    BY <2>1, FS_Interval
  <2> QED BY <2>1, <2>2, FS_Subset
<1>a. \A j \in Firsts : j \in Nat
  BY <1>2
<1>3. First(m) \in Nat /\ First(k) \in Nat
  BY <1>1, <1>a
<1> SUFFICES ASSUME First(k) < First(m) PROVE FALSE
  BY <1>3
<1>4. Upto(First(k)) \in SUBSET Upto(First(m)) /\ First(m) \in Upto(First(m)) /\ First(m) \notin Upto(First(k))
  <2>2. \A j \in Firsts : j <= First(k) => j <= First(m)
    BY <1>3, <1>a
  <2>3. First(m) <= First(m) /\ ~(First(m) <= First(k))
    BY <1>3
  <2> QED BY <1>1, <2>2, <2>3
<1>5. IsFiniteSet(Upto(First(m)))
  <2>1. Upto(First(m)) \in SUBSET Firsts
    OBVIOUS
  <2> HIDE DEF Upto
  <2> QED BY <1>2, <2>1, FS_Subset
<1> HIDE DEF Upto
<1>6. k <= m /\ (k = m => Upto(First(k)) = Upto(First(m)))
  BY <1>1, <1>4, <1>5, FS_Subset
<1> QED BY <1>4, <1>6

\* A section comes where its settings begin.
LEMMA FirstOfSection ==
  ASSUME L!TypeOK, NEW k \in 1..Cardinality(Firsts)
  PROVE  /\ Sections[k].name \in Names
         /\ First(k) = Min(Positions(Sections[k].name))
         /\ Sections[k] = SectionNamed(Sections[k].name)
<1> DEFINE f == First(k)
           n == options[f].name[2]
<1>1. f \in 1..Len(options) /\ Len(options) \in Nat /\ IsSinkSetting(options[f])
      /\ \A j \in 1..(f - 1) : IsSinkSetting(options[j]) => options[j].name[2] # n
  <2>1. f \in Firsts
    BY FirstIsFirst
  <2> QED BY <2>1 DEF Firsts, L!TypeOK
<1>2. n \in Names
  BY <1>1, SinkSettingShape
<1>3. Sections[k] = SectionNamed(n) /\ Sections[k].name = n
  <2>1. Sections[k] = SectionNamed(n)
    BY DEF Sections
  <2>2. SectionNamed(n).name = n
    BY DEF SectionNamed
  <2> QED BY <2>1, <2>2
<1> HIDE DEF f
<1>4. f \in Positions(n) /\ Positions(n) \in SUBSET (1..Len(options))
  BY <1>1 DEF Positions, L!TypeOK
<1>5. \A j \in Positions(n) : ~(j < f)
  BY <1>1, <1>4 DEF Positions
<1>6. f = Min(Positions(n))
  <2>1. Min(Positions(n)) \in Positions(n) /\ Min(Positions(n)) <= f
    BY <1>1, <1>4, MinOfPositions
  <2>2. Min(Positions(n)) \in 1..Len(options) /\ ~(Min(Positions(n)) < f)
    BY <1>4, <1>5, <2>1
  <2> QED BY <1>1, <2>1, <2>2
<1> QED BY <1>2, <1>3, <1>6 DEF f

\* Every section that has settings is there.
LEMMA SectionExists ==
  ASSUME L!TypeOK, NEW n \in Names, Positions(n) # {}
  PROVE  \E k \in 1..Cardinality(Firsts) : Sections[k].name = n
<1> DEFINE f == Min(Positions(n))
           Upto(i) == {j \in Firsts : j <= i}
<1>0. Len(options) \in Nat /\ DOMAIN options = 1..Len(options)
  BY DEF L!TypeOK
<1>1. f \in Positions(n) /\ \A j \in Positions(n) : f <= j
  <2>1. Positions(n) \in SUBSET (1..Len(options))
    BY <1>0 DEF Positions
  <2> QED BY <1>0, <2>1, MinOfPositions
<1> HIDE DEF f
<1>2. f \in 1..Len(options) /\ IsSinkSetting(options[f]) /\ options[f].name[2] = n
  BY <1>0, <1>1 DEF Positions
<1>3. f \in Firsts
  <2> SUFFICES ASSUME NEW j \in 1..(f - 1), IsSinkSetting(options[j]), options[j].name[2] = n PROVE FALSE
    BY <1>0, <1>2 DEF Firsts
  <2>1. j \in Positions(n) /\ j < f
    BY <1>0, <1>2 DEF Positions
  <2> QED BY <1>1, <1>2, <2>1
<1>4. Firsts \in SUBSET (1..Len(options)) /\ IsFiniteSet(Firsts)
  <2>1. Firsts \in SUBSET (1..Len(options))
    BY <1>0 DEF Firsts
  <2>2. IsFiniteSet(1..Len(options))
    BY <1>0, FS_Interval
  <2> QED BY <2>1, <2>2, FS_Subset
<1>5. Upto(f) \in SUBSET Firsts /\ f \in Upto(f)
  BY <1>2, <1>3
<1>6. Cardinality(Upto(f)) \in 1..Cardinality(Firsts)
  <2> HIDE DEF Upto
  <2>1. IsFiniteSet(Upto(f)) /\ Cardinality(Upto(f)) <= Cardinality(Firsts)
    BY <1>4, <1>5, FS_Subset
  <2>2. Cardinality(Upto(f)) \in Nat /\ Cardinality(Firsts) \in Nat /\ Cardinality(Upto(f)) # 0
    BY <1>4, <1>5, <2>1, FS_CardinalityType, FS_EmptySet
  <2> QED BY <2>1, <2>2
<1> DEFINE k == Cardinality(Upto(f))
<1>7. First(k) \in Firsts /\ Cardinality(Upto(First(k))) = k
  BY <1>6, FirstIsFirst
<1>8. First(k) = f
  <2> DEFINE g == First(k)
  <2>2. \A j \in Firsts : j \in Nat
    BY <1>4
  <2>1. g \in Firsts /\ g \in Nat /\ f \in Nat /\ Cardinality(Upto(g)) = Cardinality(Upto(f))
    <3>1. Cardinality(Upto(g)) = Cardinality(Upto(f)) /\ g \in Firsts
      BY <1>7
    <3> HIDE DEF g, k, Upto
    <3> QED BY <1>3, <2>2, <3>1
  <2> HIDE DEF g
  <2>3. g \in Upto(g)
    BY <2>1
  <2>4. Upto(g) \in SUBSET Firsts
    OBVIOUS
  <2>5. Upto(g) \in SUBSET Upto(f) \/ Upto(f) \in SUBSET Upto(g)
    <3>1. CASE g <= f
      <4>1. \A j \in Firsts : j <= g => j <= f
        BY <2>1, <2>2, <3>1
      <4> QED BY <4>1
    <3>2. CASE f <= g
      <4>1. \A j \in Firsts : j <= f => j <= g
        BY <2>1, <2>2, <3>2
      <4> QED BY <4>1
    <3> QED BY <2>1, <3>1, <3>2
  <2>6. Upto(g) = Upto(f)
    <3> HIDE DEF Upto
    <3>1. IsFiniteSet(Upto(g)) /\ IsFiniteSet(Upto(f))
      BY <1>4, <1>5, <2>4, FS_Subset
    <3> QED BY <2>1, <2>5, <3>1, FS_Subset
  <2>7. g <= f /\ f <= g
    BY <1>5, <2>3, <2>6
  <2> QED BY <2>1, <2>7 DEF g
<1>9. Sections[k].name = n
  <2>1. Sections[k] = SectionNamed(options[First(k)].name[2])
    BY <1>6 DEF Sections
  <2> HIDE DEF k
  <2> QED BY <1>2, <1>8, <2>1 DEF SectionNamed
<1> QED BY <1>6, <1>9

\* The console sections are those that the last value of their destination says.
LEMMA ConsolesAre ==
  ASSUME Collected, next > Len(options), NEW n \in Names
  PROVE  n \in Consoles <=> Positions(n) # {} /\ SectionNamed(n).destination = "Console"
<1> DEFINE path == <<"Sinks", n, "Destination">>
           D == {i \in Positions(n) : options[i].name[3] = "Destination"}
<1>0. L!TypeOK /\ Len(options) \in Nat /\ DOMAIN options = 1..Len(options)
  BY DEF Collected, L!TypeOK
<1>1. L!Given(next) = {i \in 1..Len(options) : L!Considered(options[i])}
  <2>1. next - 1 = Len(options)
    BY <1>0 DEF L!TypeOK
  <2> QED BY <2>1 DEF L!Given
<1>2. L!IsSetting(path) /\ path[1] = "Sinks" /\ path[2] = n /\ path[3] = "Destination"
  BY DEF L!IsSetting
<1>3. D = {i \in L!Given(next) : options[i].name = path}
  <2>1. ASSUME NEW i \in D PROVE i \in L!Given(next) /\ options[i].name = path
    <3>1. /\ i \in 1..Len(options) /\ IsSinkSetting(options[i])
          /\ options[i].name[2] = n /\ options[i].name[3] = "Destination"
      BY <1>0 DEF Positions
    <3>2. /\ L!Considered(options[i]) /\ options[i].name \in Seq(Parts)
          /\ Len(options[i].name) = 3 /\ options[i].name[1] = "Sinks"
      BY <1>0, <3>1, SinkSettingShape
    <3>3. options[i].name = path
      BY <3>1, <3>2
    <3> QED BY <1>1, <3>1, <3>2, <3>3
  <2>2. ASSUME NEW i \in L!Given(next), options[i].name = path PROVE i \in D
    BY <1>0, <1>1, <1>2, <2>2 DEF Positions, IsSinkSetting
  <2> QED BY <2>1, <2>2
<1>4. n \in Consoles <=> D # {} /\ options[Max(D)].values[1] = "Console"
  BY DEF Consoles
<1> HIDE DEF path, D
<1>5. SectionNamed(n).destination = "Console" <=> path \in DOMAIN tree /\ tree[path] = "Console"
  BY DEF SectionNamed, ValueOr, path
<1>6. path \in DOMAIN tree <=> D # {}
  <2>1. path \in DOMAIN tree <=> \E i \in L!Given(next) : options[i].name = path
    BY <1>2 DEF Collected, L!LastSettingWins
  <2> QED BY <1>3, <2>1
<1>7. ASSUME D # {} PROVE tree[path] = options[Max(D)].values[1]
  <2>1. PICK i \in L!Given(next) :
          /\ options[i].name = path /\ tree[path] = options[i].values[1]
          /\ \A j \in L!Given(next) : options[j].name = path => j <= i
    BY <1>6, <1>7 DEF Collected, L!LastSettingWins
  <2>2. D \in SUBSET (1..Len(options)) /\ i \in D /\ \A j \in D : j <= i
    BY <1>1, <1>3, <2>1
  <2>3. Max(D) \in D /\ i <= Max(D)
    BY <1>0, <1>7, <2>2, MaxOfPositions
  <2>4. Max(D) <= i /\ Max(D) \in 1..Len(options) /\ i \in 1..Len(options)
    BY <2>2, <2>3
  <2>5. Max(D) = i
    BY <1>0, <2>3, <2>4
  <2> QED BY <2>1, <2>5
<1>8. D \subseteq Positions(n)
  BY DEF D
<1> QED BY <1>4, <1>5, <1>6, <1>7, <1>8

\* When the log is set up and the factory made a sink, console_sink() has that of
\* the section that is last, by the first of its settings, among those that the
\* options direct to the console (lines 92 and 121 of log.cpp, 54 of
\* console_sink.cpp).
LEMMA ReturnReaches ==
  ASSUME SetupInv, InitReturns, new_sinks # {}
  PROVE  /\ count' \in core'
         /\ sinks[count'] \in Consoles
         /\ \A n \in Consoles : Min(Positions(n)) <= Min(Positions(sinks[count']))
<1>0. Collected /\ IInv /\ Sinking /\ Words /\ L!TypeOK
  BY DEF SetupInv, IInv, Collected
<1>1. /\ step = "making" /\ sections = << >> /\ core' = core \cup new_sinks
      /\ UNCHANGED <<sinks, count>>
  BY DEF InitReturns, AddSinks
<1>2. count' = Len(sinks) /\ Len(sinks) \in new_sinks
  BY <1>0, <1>1 DEF Words
<1>3. Len(Sections) = Cardinality(Firsts) /\ Cardinality(Firsts) \in Nat
  BY <1>0, SectionsType
<1>4. Done = Cardinality(Firsts)
  BY <1>1, <1>3 DEF Done
<1>5. PICK k \in 1..Cardinality(Firsts) :
        /\ Sections[k].destination = "Console" /\ Sections[k].name = sinks[Len(sinks)]
        /\ \A m \in (k + 1)..Cardinality(Firsts) : Sections[m].destination # "Console"
  BY <1>0, <1>1, <1>4 DEF Sinking, LastConsole
<1>6. next > Len(options)
  BY <1>0, <1>1 DEF Sinking
<1>7. /\ sinks[count'] \in Names /\ First(k) = Min(Positions(sinks[count']))
      /\ SectionNamed(sinks[count']).destination = "Console"
  BY <1>0, <1>2, <1>5, FirstOfSection
<1>8. Positions(sinks[count']) # {}
  <2>1. First(k) \in Firsts
    BY <1>0, FirstIsFirst
  <2>2. options[First(k)].name[2] = Sections[k].name
    BY DEF Sections, SectionNamed
  <2> QED BY <1>2, <1>5, <2>1, <2>2 DEF Firsts, Positions
<1>9. ASSUME NEW n \in Consoles PROVE Min(Positions(n)) <= Min(Positions(sinks[count']))
  <2>1. n \in Names /\ Positions(n) # {} /\ SectionNamed(n).destination = "Console"
    <3>1. n \in Names
      BY <1>9 DEF Consoles
    <3> QED BY <1>0, <1>6, <1>9, <3>1, ConsolesAre
  <2>2. PICK m \in 1..Cardinality(Firsts) : Sections[m].name = n
    BY <1>0, <2>1, SectionExists
  <2>3. Sections[m].destination = "Console" /\ First(m) = Min(Positions(n))
    BY <1>0, <2>1, <2>2, FirstOfSection
  <2>4. m <= k
    BY <1>3, <1>5, <2>3
  <2>5. First(m) <= First(k)
    BY <1>0, <2>4, FirstsInOrder
  <2> QED BY <1>7, <2>3, <2>5
<1> QED BY <1>0, <1>1, <1>2, <1>6, <1>7, <1>8, <1>9, ConsolesAre

\* What the options say of the sinks is what console_sink() gets, each time that
\* the log is set up.
THEOREM SinkReached == SetupSpec => SettingsReachSink
<1> DEFINE Reached == phase' = "returned" /\ new_sinks # {} /\ new_sinks' = {} =>
                        /\ count' \in core'
                        /\ sinks[count'] \in Consoles
                        /\ \A n \in Consoles : Min(Positions(n)) <= Min(Positions(sinks[count']))
<1>1. SetupInv /\ [SetupNext]_allVars => [Reached]_allVars
  <2> SUFFICES ASSUME SetupInv, SetupNext, phase' = "returned", new_sinks # {}, new_sinks' = {}
               PROVE  InitReturns
    BY ReturnReaches
  <2>1. CASE Collect \/ BeginInit \/ Meanwhile \/ SetUpAgain
    BY <2>1 DEF Collect, BeginInit, Begin, Meanwhile, SetUpAgain, vars, sinkVars, Program, Register,
         RemoveSink, Reader, Answer, LoadCount, Lock, FindNothing, ReadObject
  <2>2. CASE InitThrows
    BY <2>2 DEF InitThrows
  <2>3. CASE SetupSinks
    <3>1. TypeOK
      BY DEF SetupInv, IInv
    <3>2. new_sinks' = new_sinks \/ \E s : s \in new_sinks'
      BY <2>3 DEF SetupSinks, MakeSinks, CreateSink, WriteObject, WriteCount, ReturnSink, OtherSink
    <3> QED BY <3>2
  <2> QED BY <2>1, <2>2, <2>3 DEF SetupNext
<1> QED BY <1>1, SetupInductive, PTL DEF SetupSpec, SettingsReachSink
================================================================================
