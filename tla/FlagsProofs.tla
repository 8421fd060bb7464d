------------------------------ MODULE FlagsProofs ------------------------------
(***************************************************************************)
(* Proofs about Flags for any width, any lists of names and any texts.     *)
(* What to_string writes is, as a set of tokens, known at every bit; what  *)
(* parse_string reads is the union over the tokens it has passed.  What a  *)
(* single token comes back as decides whether the two meet, and that needs *)
(* some arithmetic: a power of two has one bit.                            *)
(***************************************************************************)
EXTENDS Flags, WellFoundedInduction, TLAPS

-------------------------------------------------------------------------------
(* Numbers and their bits. *)

\* Every set of natural numbers has a least one.
LEMMA NatMin ==
  ASSUME NEW T, T \subseteq Nat, T # {}
  PROVE  \E x \in T : \A y \in T : x <= y
<1> DEFINE R == {ss \in Nat \X Nat : ss[1] < ss[2]}
<1>1. IsWellFoundedOn(R, Nat)
  BY NatLessThanWellFounded DEF OpToRel
<1> HIDE DEF R
<1>2. PICK x \in T : \A y \in T : ~(<<y, x>> \in R)
  BY <1>1, WFMin
<1>3. \A y \in T : ~(y < x)
  BY <1>2 DEF R
<1> QED BY <1>3

\* f doubles up to n.
Doubles(f, n) ==
  /\ f \in [0..n -> Nat \ {0}]
  /\ f[0] = 1
  /\ \A i \in 1..n : f[i] = 2 * f[i - 1]

\* There is a function that doubles: the first length without one would have a
\* predecessor with one, which can be continued.
LEMMA DoublesExists == \A n \in Nat : \E f : Doubles(f, n)
<1> DEFINE T == {n \in Nat : ~\E f : Doubles(f, n)}
<1> SUFFICES ASSUME T # {} PROVE FALSE
  OBVIOUS
<1>1. PICK n \in T : \A k \in T : n <= k
  BY NatMin
<1>2. CASE n = 0
  <2> DEFINE f == [i \in 0..0 |-> 1]
  <2>1. Doubles(f, 0)
    BY DEF Doubles
  <2> QED BY <1>1, <1>2, <2>1
<1>3. CASE n # 0
  <2>1. n \in Nat /\ n - 1 \in Nat /\ n - 1 \notin T
    BY <1>1, <1>3
  <2>2. PICK f : Doubles(f, n - 1)
    BY <2>1
  <2> DEFINE g == [i \in 0..n |-> IF i = n THEN 2 * f[n - 1] ELSE f[i]]
  <2>3. f \in [0..(n - 1) -> Nat \ {0}] /\ f[n - 1] \in Nat \ {0}
    BY <2>1, <2>2 DEF Doubles
  <2>4. \A i \in 0..n : i = n \/ i \in 0..(n - 1)
    BY <2>1
  <2>5. g \in [0..n -> Nat \ {0}]
    <3> SUFFICES ASSUME NEW i \in 0..n
                 PROVE  (IF i = n THEN 2 * f[n - 1] ELSE f[i]) \in Nat \ {0}
      OBVIOUS
    <3>1. 2 * f[n - 1] \in Nat \ {0}
      BY <2>3
    <3>2. i # n => f[i] \in Nat \ {0}
      BY <2>3, <2>4
    <3> QED BY <3>1, <3>2
  <2>6. g[0] = 1
    BY <1>3, <2>1, <2>2 DEF Doubles
  <2>7. ASSUME NEW i \in 1..n PROVE g[i] = 2 * g[i - 1]
    <3>1. i \in 0..n /\ i - 1 \in 0..n /\ i - 1 # n
      BY <2>1
    <3>2. g[i - 1] = f[i - 1]
      BY <3>1
    <3>3. CASE i = n
      BY <3>1, <3>2, <3>3
    <3>4. CASE i # n
      <4>1. i \in 1..(n - 1)
        BY <2>1, <3>4
      <4>2. g[i] = f[i]
        BY <3>1, <3>4
      <4> QED BY <2>2, <3>2, <4>1, <4>2 DEF Doubles
    <3> QED BY <3>3, <3>4
  <2> HIDE DEF g
  <2>8. Doubles(g, n)
    BY <2>5, <2>6, <2>7 DEF Doubles
  <2> QED BY <1>1, <2>8
<1> QED BY <1>2, <1>3

LEMMA PowerDoubles == Doubles(Power, Width)
<1> DEFINE Body(g) == [i \in 0..Width |-> IF i = 0 THEN 1 ELSE 2 * g[i - 1]]
<1>0. Width \in Nat \ {0}
  BY NamesAssumption
<1>1. PICK f : Doubles(f, Width)
  BY <1>0, DoublesExists
<1>2. f = Body(f)
  <2>1. f \in [0..Width -> Nat \ {0}] /\ f[0] = 1
    BY <1>1 DEF Doubles
  <2>2. \A i \in 0..Width : i # 0 => i \in 1..Width
    BY <1>0
  <2>3. \A i \in 0..Width : f[i] = IF i = 0 THEN 1 ELSE 2 * f[i - 1]
    BY <1>1, <2>1, <2>2 DEF Doubles
  <2> QED BY <2>1, <2>3
<1>3. Power = CHOOSE g : g = Body(g)
  BY DEF Power
<1>4. Power = Body(Power)
  BY <1>2, <1>3
<1>5. \A i \in 0..Width : Power[i] = IF i = 0 THEN 1 ELSE 2 * Power[i - 1]
  BY <1>4
<1>6. DOMAIN Power = 0..Width
  BY <1>4
<1>7. Power[0] = 1 /\ \A i \in 1..Width : Power[i] = 2 * Power[i - 1]
  <2>1. 0 \in 0..Width /\ \A i \in 1..Width : i \in 0..Width /\ i # 0
    BY <1>0
  <2> QED BY <1>5, <2>1
<1>8. \A i \in 0..Width : Power[i] = f[i]
  <2> DEFINE T == {i \in 0..Width : Power[i] # f[i]}
  <2> SUFFICES ASSUME T # {} PROVE FALSE
    OBVIOUS
  <2>1. T \subseteq Nat
    BY <1>0
  <2>2. PICK i \in T : \A k \in T : i <= k
    BY <2>1, NatMin
  <2>3. i # 0
    BY <1>1, <1>7, <2>2 DEF Doubles
  <2>4. i \in 1..Width /\ i - 1 \in 0..Width /\ ~(i <= i - 1)
    BY <1>0, <2>2, <2>3
  <2>5. Power[i - 1] = f[i - 1]
    BY <2>2, <2>4
  <2> QED BY <1>1, <1>7, <2>2, <2>4, <2>5 DEF Doubles
<1>9. Power \in [0..Width -> Nat \ {0}]
  <2>1. \A i \in 0..Width : Power[i] \in Nat \ {0}
    BY <1>1, <1>8 DEF Doubles
  <2> QED BY <1>4, <1>6, <2>1
<1> QED BY <1>7, <1>9 DEF Doubles

LEMMA PowerAt ==
  /\ Width \in Nat \ {0}
  /\ \A i \in 0..Width : Power[i] \in Nat \ {0}
  /\ Modulus \in Nat \ {0}
<1> QED BY NamesAssumption, PowerDoubles DEF Doubles, Modulus

\* A higher bit stands for an even multiple of a lower one.
LEMMA PowerMultiple ==
  ASSUME NEW j \in 0..Width, NEW i \in 0..Width, j < i
  PROVE  \E e \in Nat \ {0} : Power[i] = 2 * (e * Power[j])
<1> DEFINE T == {k \in 0..Width : j < k /\ ~\E e \in Nat \ {0} : Power[k] = 2 * (e * Power[j])}
<1> SUFFICES ASSUME T # {} PROVE FALSE
  OBVIOUS
<1>0. T \subseteq Nat
  BY PowerAt
<1>1. PICK k \in T : \A h \in T : k <= h
  BY <1>0, NatMin
<1>2. k \in 1..Width /\ k - 1 \in 0..Width /\ Power[k] = 2 * Power[k - 1] /\ Power[j] \in Nat \ {0}
  <2>1. k \in 1..Width /\ k - 1 \in 0..Width
    BY <1>1, PowerAt
  <2> QED BY <2>1, PowerAt, PowerDoubles DEF Doubles
<1>3. CASE k - 1 = j
  <2>1. Power[k] = 2 * (1 * Power[j])
    BY <1>2, <1>3
  <2> QED BY <1>1, <2>1
<1>4. CASE k - 1 # j
  <2>1. j < k - 1 /\ k - 1 \notin T
    BY <1>1, <1>2, <1>4, PowerAt
  <2>2. PICK e \in Nat \ {0} : Power[k - 1] = 2 * (e * Power[j])
    BY <1>2, <2>1
  <2>3. 2 * (2 * (e * Power[j])) = 2 * ((2 * e) * Power[j])
    BY <1>2, <2>2
  <2>4. 2 * e \in Nat \ {0} /\ Power[k] = 2 * ((2 * e) * Power[j])
    BY <1>2, <2>2, <2>3
  <2> QED BY <1>1, <2>4
<1> QED BY <1>3, <1>4

LEMMA DivMultiple ==
  ASSUME NEW k \in Nat, NEW m \in Nat \ {0}
  PROVE  (k * m) \div m = k
<1> DEFINE x == k * m
           q == x \div m
<1>1. x \in Nat
  OBVIOUS
<1>2. x = k * m
  OBVIOUS
<1> HIDE DEF x
<1>3. q \in Nat /\ x = m * q + (x % m) /\ x % m \in 0..(m - 1)
  BY <1>1, SMT
<1> HIDE DEF q
<1>4. CASE q < k
  <2>1. PICK d \in Nat \ {0} : k = q + d
    <3>1. k - q \in Nat \ {0} /\ k = q + (k - q)
      BY <1>3, <1>4
    <3> QED BY <3>1
  <2>2. k * m = m * q + d * m /\ d * m >= m
    BY <1>3, <2>1
  <2> QED BY <1>2, <1>3, <2>2
<1>5. CASE q > k
  <2>1. PICK d \in Nat \ {0} : q = k + d
    <3>1. q - k \in Nat \ {0} /\ q = k + (q - k)
      BY <1>3, <1>5
    <3> QED BY <3>1
  <2>2. m * q = k * m + d * m /\ d * m >= m
    BY <1>3, <2>1
  <2> QED BY <1>2, <1>3, <2>2
<1> QED BY <1>2, <1>3, <1>4, <1>5 DEF q

\* The number that to_string writes for a bit has this bit and no other.
LEMMA PowerHasOneBit ==
  ASSUME NEW i \in Bits
  PROVE  BitsOf(Power[i]) = {i}
<1>1. i \in 0..Width /\ i < Width /\ Width \in 0..Width /\ Bits \subseteq 0..Width
  BY PowerAt DEF Bits
<1>2. Power[i] % Modulus = Power[i]
  <2>1. PICK e \in Nat \ {0} : Modulus = 2 * (e * Power[i])
    BY <1>1, PowerMultiple DEF Modulus
  <2>2. Power[i] \in Nat \ {0}
    BY <1>1, PowerAt
  <2>3. e * Power[i] >= Power[i]
    BY <2>1, <2>2
  <2>4. Power[i] < Modulus
    BY <2>1, <2>2, <2>3
  <2> QED BY <2>2, <2>4, PowerAt
<1>3. ASSUME NEW j \in Bits PROVE (Power[i] \div Power[j]) % 2 = 1 <=> j = i
  <2>0. j \in 0..Width /\ Power[j] \in Nat \ {0} /\ Power[i] \in Nat \ {0} /\ i \in Nat /\ j \in Nat
    BY <1>1, PowerAt DEF Bits
  <2>1. CASE j = i
    <3>1. Power[i] = 1 * Power[j]
      BY <2>0, <2>1
    <3>2. Power[i] \div Power[j] = 1
      BY <2>0, <3>1, DivMultiple
    <3> QED BY <2>1, <3>2
  <2>2. CASE j < i
    <3>1. PICK e \in Nat \ {0} : Power[i] = 2 * (e * Power[j])
      BY <1>1, <2>0, <2>2, PowerMultiple
    <3>2. Power[i] = (2 * e) * Power[j] /\ 2 * e \in Nat
      BY <2>0, <3>1
    <3>3. Power[i] \div Power[j] = 2 * e
      BY <2>0, <3>2, DivMultiple
    <3> QED BY <2>0, <2>2, <3>3
  <2>3. CASE i < j
    <3>1. PICK e \in Nat \ {0} : Power[j] = 2 * (e * Power[i])
      BY <1>1, <2>0, <2>3, PowerMultiple
    <3>2. e * Power[i] >= Power[i]
      BY <2>0, <3>1
    <3>3. Power[i] < Power[j]
      BY <2>0, <3>1, <3>2
    <3>4. Power[i] \div Power[j] = 0
      BY <2>0, <3>3
    <3> QED BY <2>0, <2>3, <3>4
  <2> QED BY <2>0, <2>1, <2>2, <2>3
<1> QED BY <1>2, <1>3 DEF BitsOf

-------------------------------------------------------------------------------
(* What a single token means. *)

LEMMA NamesAt ==
  ASSUME TypeOK
  PROVE  /\ names \in Seq(Name) /\ Len(names) \in Nat /\ Len(names) <= Width
         /\ \A i \in 0..(Len(names) - 1) : names[i + 1] \in Name /\ i \in Bits
<1>1. names \in Seq(Name) /\ Len(names) <= Width
  BY NamesAssumption DEF TypeOK
<1>2. Len(names) \in Nat /\ \A i \in 1..Len(names) : names[i] \in Name
  BY <1>1
<1>3. \A i \in 0..(Len(names) - 1) : i + 1 \in 1..Len(names) /\ i \in Bits
  BY <1>1, <1>2, PowerAt DEF Bits
<1> QED BY <1>1, <1>2, <1>3

LEMMA KindOf ==
  /\ Empty.kind = "empty"
  /\ \A n : Decimal(n).kind = "numeral" /\ Decimal(n).number = n /\ Decimal(n) # Empty
<1>1. Empty.kind = "empty"
  BY DEF Empty
<1>2. \A n : Decimal(n).kind = "numeral" /\ Decimal(n).number = n
  BY DEF Decimal, Numeral
<1> QED BY <1>1, <1>2

\* The lowest of the bits that have a name.
LEMMA LowestNamed ==
  ASSUME TypeOK, NEW t, Named(t) # {}
  PROVE  \E m \in Named(t) : /\ m = CHOOSE i \in Named(t) : \A j \in Named(t) : i <= j
                             /\ \A j \in Named(t) : m <= j
<1>1. Named(t) \subseteq Nat
  BY NamesAt DEF Named
<1>2. \E i \in Named(t) : \A j \in Named(t) : i <= j
  BY <1>1, NatMin
<1> QED BY <1>2

LEMMA DenotedBits ==
  ASSUME TypeOK, NEW t \in Token
  PROVE  Denoted(t) \subseteq Bits
<1>1. ASSUME Named(t) # {} PROVE \A i \in Named(t) : i \in Bits
  BY NamesAt DEF Named
<1>2. CASE t = Empty
  BY <1>2 DEF Denoted
<1>3. CASE t # Empty /\ Named(t) # {}
  BY <1>1, <1>3, LowestNamed DEF Denoted
<1>4. CASE t # Empty /\ Named(t) = {}
  BY <1>4 DEF Denoted, BitsOf
<1> QED BY <1>2, <1>3, <1>4

\* Unambiguous, for one bit.
Clear(i) ==
  IF i < Len(names)
    THEN names[i + 1] # Empty /\ \A j \in 0..(i - 1) : names[j + 1] # names[i + 1]
    ELSE Named(Decimal(Power[i])) = {} /\ InRange(Power[i])

\* What is written for a bit comes back as the bit if this is unambiguous; if it
\* comes back at all, then as a bit that is, or as nothing if the name is empty.
LEMMA TokenOfBit ==
  ASSUME TypeOK, NEW k \in Bits
  PROVE  /\ BitToken(k) \in Token
         /\ Clear(k) => Known(BitToken(k)) /\ Denoted(BitToken(k)) = {k}
         /\ Known(BitToken(k)) =>
              \/ Denoted(BitToken(k)) = {}
              \/ \E m \in Bits : Clear(m) /\ Denoted(BitToken(k)) = {m}
<1> DEFINE t == BitToken(k)
<1>0. k \in Nat /\ Len(names) \in Nat
  BY NamesAt, PowerAt DEF Bits
<1>1. t \in Token
  <2>1. CASE k < Len(names)
    <3>1. k \in 0..(Len(names) - 1) /\ t = names[k + 1]
      BY <1>0, <2>1 DEF BitToken
    <3>2. names[k + 1] \in Name
      BY <3>1, NamesAt
    <3> QED BY <3>1, <3>2 DEF Token
  <2>2. CASE ~(k < Len(names))
    BY <2>2 DEF BitToken, Token
  <2> QED BY <2>1, <2>2
<1>e. ASSUME t = Empty PROVE ~Clear(k) /\ Denoted(t) = {}
  <2>1. k < Len(names) /\ names[k + 1] = Empty
    BY <1>e, KindOf DEF BitToken
  <2> QED BY <1>e, <2>1 DEF Clear, Denoted
<1>2. ASSUME t # Empty, Named(t) # {}
      PROVE  /\ Known(t)
             /\ \E m \in Bits : Clear(m) /\ Denoted(t) = {m}
             /\ Clear(k) => Denoted(t) = {k}
  <2>1. PICK m \in Named(t) : /\ m = CHOOSE i \in Named(t) : \A j \in Named(t) : i <= j
                              /\ \A j \in Named(t) : m <= j
    BY <1>2, LowestNamed
  <2>2. m \in 0..(Len(names) - 1) /\ names[m + 1] = t /\ m \in Bits
    BY <2>1, NamesAt DEF Named
  <2>3. Denoted(t) = {m}
    BY <1>2, <2>1 DEF Denoted
  <2>4. Clear(m)
    <3>1. ASSUME NEW j \in 0..(m - 1) PROVE names[j + 1] # names[m + 1]
      <4>1. j \in 0..(Len(names) - 1) /\ ~(m <= j)
        BY <1>0, <2>2
      <4> QED BY <2>1, <2>2, <4>1 DEF Named
    <3> QED BY <1>0, <1>2, <2>2, <3>1 DEF Clear
  <2>5. ASSUME Clear(k) PROVE m = k
    <3>1. k < Len(names)
      BY <1>2, <2>5 DEF Clear, BitToken
    <3>2. k \in Named(t)
      BY <1>0, <3>1 DEF Named, BitToken
    <3>3. m <= k
      BY <2>1, <3>2
    <3>4. m \notin 0..(k - 1)
      BY <2>2, <2>5, <3>1 DEF Clear, BitToken
    <3> QED BY <1>0, <2>2, <3>3, <3>4
  <2> QED BY <1>2, <2>2, <2>3, <2>4, <2>5 DEF Known
<1>3. ASSUME t # Empty, Named(t) = {}
      PROVE  /\ ~(k < Len(names)) /\ t = Decimal(Power[k])
             /\ Denoted(t) = {k}
             /\ Known(t) <=> InRange(Power[k])
             /\ Known(t) <=> Clear(k)
  <2>1. ~(k < Len(names))
    <3> SUFFICES ASSUME k < Len(names) PROVE k \in Named(t)
      BY <1>3
    <3> QED BY <1>0 DEF Named, BitToken
  <2>2. t = Decimal(Power[k]) /\ t.kind = "numeral" /\ t.number = Power[k]
    BY <2>1, KindOf DEF BitToken
  <2>3. Denoted(t) = {k}
    BY <1>3, <2>2, PowerHasOneBit DEF Denoted
  <2>4. Known(t) <=> InRange(Power[k])
    BY <1>3, <2>2 DEF Known
  <2>5. Clear(k) <=> InRange(Power[k])
    BY <1>3, <2>1, <2>2 DEF Clear
  <2> QED BY <2>1, <2>2, <2>3, <2>4, <2>5
<1> QED BY <1>1, <1>2, <1>3, <1>e

-------------------------------------------------------------------------------
(* Writing and reading. *)

\* A text that is read is not empty, and the tokens before pos are in res.
ReadSoFar ==
  /\ phase = "writing" => ~byHand /\ pos = 0
  /\ phase = "reading" => pos < Len(text)
  /\ phase = "read" => pos = Len(text)
  /\ phase = "unknown" => pos < Len(text) /\ ~Known(text[pos + 1])
  /\ \A i \in 1..pos : Known(text[i])
  /\ res = UNION {Denoted(text[i]) : i \in 1..pos}

\* The text has the tokens of the bits that are set, those below bit so far.
Written ==
  ~byHand =>
    {text[i] : i \in 1..Len(text)} =
      IF phase # "writing" /\ value = {} THEN {Empty}
      ELSE {BitToken(i) : i \in {j \in value : phase = "writing" => j < bit}}

IInv == TypeOK /\ ReadSoFar /\ Written

LEMMA InitInv == Init => IInv
<1> SUFFICES ASSUME Init PROVE IInv
  OBVIOUS
<1>0. Width \in Nat \ {0} /\ MaxTokens \in Nat
  BY NamesAssumption
<1>1. CASE phase = "writing" /\ byHand = FALSE /\ value \in SUBSET Bits /\ text = << >>
  <2>1. TypeOK
    <3>1. text \in Seq(Token) /\ Len(text) = 0
      BY <1>1
    <3>2. bit \in 0..Width /\ pos \in 0..Len(text)
      BY <1>0, <3>1 DEF Init
    <3>3. res \in SUBSET Bits /\ signed \in BOOLEAN /\ names \in NameLists
      BY DEF Init
    <3> QED BY <1>1, <3>1, <3>2, <3>3 DEF TypeOK
  <2>2. ReadSoFar
    BY <1>1 DEF Init, ReadSoFar
  <2>3. {j \in value : j < bit} = {}
    <3>1. bit = 0 /\ \A j \in value : j \in Nat
      BY <1>0, <1>1 DEF Init, Bits
    <3> QED BY <3>1
  <2>4. Written
    BY <1>1, <2>3 DEF Written
  <2> QED BY <2>1, <2>2, <2>4 DEF IInv
<1>2. ASSUME phase = "reading", byHand = TRUE, value = {},
             NEW n \in 1..MaxTokens, text \in [1..n -> Name]
      PROVE  IInv
  <2>1. Name \subseteq Token
    BY DEF Token
  <2>2. n \in Nat /\ n > 0 /\ text \in [1..n -> Token]
    BY <1>0, <1>2, <2>1
  <2>3. text \in Seq(Token) /\ Len(text) = n
    BY <2>2
  <2>4. TypeOK
    BY <1>0, <1>2, <2>2, <2>3 DEF Init, TypeOK
  <2>5. ReadSoFar
    BY <1>2, <2>2, <2>3 DEF Init, ReadSoFar
  <2> QED BY <1>2, <2>4, <2>5 DEF IInv, Written
<1> QED BY <1>1, <1>2 DEF Init

LEMMA WriteBitInv == ASSUME IInv, WriteBit PROVE IInv'
<1>0. TypeOK /\ ReadSoFar /\ Written
  BY DEF IInv
<1>1. /\ phase = "writing" /\ phase' = "writing" /\ ~byHand /\ pos = 0
      /\ text' = IF bit \in value THEN Append(text, BitToken(bit)) ELSE text
      /\ bit' = bit + 1
      /\ UNCHANGED <<signed, names, value, byHand, pos, res>>
  BY <1>0 DEF WriteBit, ReadSoFar
<1>2. /\ Width \in Nat /\ bit \in Nat /\ bit \in Bits /\ text \in Seq(Token) /\ Len(text) \in Nat
      /\ value \subseteq Bits /\ Bits \subseteq Nat
  BY <1>0, PowerAt DEF WriteBit, TypeOK, Bits
<1>3. BitToken(bit) \in Token
  BY <1>0, <1>2, TokenOfBit
<1>4. TypeOK'
  <2>1. text' \in Seq(Token) /\ Len(text') \in Nat
    BY <1>1, <1>2, <1>3
  <2>2. bit' \in 0..Width
    BY <1>1, <1>2 DEF Bits
  <2> QED BY <1>0, <1>1, <2>1, <2>2 DEF TypeOK
<1>5. ReadSoFar'
  BY <1>0, <1>1 DEF ReadSoFar
<1>6. \A i : BitToken(i)' = BitToken(i)
  BY <1>1 DEF BitToken
<1>7. {text'[i] : i \in 1..Len(text')} = {BitToken(i) : i \in {j \in value : j < bit + 1}}
  <2>0. {text[i] : i \in 1..Len(text)} = {BitToken(i) : i \in {j \in value : j < bit}}
    BY <1>0, <1>1 DEF Written
  <2>1. CASE bit \in value
    <3>1. /\ Len(text') = Len(text) + 1 /\ text'[Len(text) + 1] = BitToken(bit)
          /\ \A i \in 1..Len(text) : text'[i] = text[i]
      BY <1>1, <1>2, <1>3, <2>1
    <3>2. {text'[i] : i \in 1..Len(text')} = {text[i] : i \in 1..Len(text)} \cup {BitToken(bit)}
      <4>1. \A i \in 1..Len(text') : i = Len(text) + 1 \/ i \in 1..Len(text)
        BY <1>2, <3>1
      <4>2. \A i \in 1..Len(text) : i \in 1..Len(text')
        BY <1>2, <3>1
      <4>3. Len(text) + 1 \in 1..Len(text')
        BY <1>2, <3>1
      <4> QED BY <3>1, <4>1, <4>2, <4>3
    <3>3. {j \in value : j < bit + 1} = {j \in value : j < bit} \cup {bit}
      <4>1. \A j \in value : j \in Nat
        BY <1>2
      <4>2. \A j \in value : j < bit + 1 <=> j < bit \/ j = bit
        BY <1>2, <4>1
      <4> QED BY <1>2, <2>1, <4>2
    <3> QED BY <2>0, <3>2, <3>3
  <2>2. CASE bit \notin value
    <3>1. {j \in value : j < bit + 1} = {j \in value : j < bit}
      <4>1. \A j \in value : j \in Nat /\ j # bit
        BY <1>2, <2>2
      <4>2. \A j \in value : j < bit + 1 <=> j < bit
        BY <1>2, <4>1
      <4> QED BY <4>2
    <3> QED BY <1>1, <2>0, <2>2, <3>1
  <2> QED BY <2>1, <2>2
<1>8. Written'
  <2>1. {j \in value : j < bit + 1} = {j \in value' : phase' = "writing" => j < bit'}
    BY <1>1
  <2> QED BY <1>1, <1>6, <1>7, <2>1 DEF Written
<1> QED BY <1>4, <1>5, <1>8 DEF IInv

LEMMA EndWriteInv == ASSUME IInv, EndWrite PROVE IInv'
<1>0. TypeOK /\ ReadSoFar /\ Written
  BY DEF IInv
<1>1. /\ phase = "writing" /\ phase' = "reading" /\ ~byHand /\ pos = 0
      /\ \A i \in value : i < bit
      /\ text' = IF text = << >> THEN <<Empty>> ELSE text
      /\ UNCHANGED <<signed, names, value, byHand, bit, pos, res>>
  BY <1>0 DEF EndWrite, ReadSoFar
<1>2. text \in Seq(Token) /\ Len(text) \in Nat /\ Empty \in Token
  BY <1>0 DEF TypeOK, Token, Name
<1>3. text' \in Seq(Token) /\ Len(text') \in Nat /\ Len(text') > 0
  BY <1>1, <1>2
<1>4. TypeOK'
  BY <1>0, <1>1, <1>3 DEF TypeOK
<1>5. ReadSoFar'
  BY <1>0, <1>1, <1>3 DEF ReadSoFar
<1>6. {text[i] : i \in 1..Len(text)} = {BitToken(i) : i \in value}
  <2>1. {j \in value : phase = "writing" => j < bit} = value
    BY <1>1
  <2> QED BY <1>0, <1>1, <2>1 DEF Written
<1>7. Written'
  <2>1. CASE text = << >>
    <3>1. value = {}
      BY <1>6, <2>1
    <3>2. {text'[i] : i \in 1..Len(text')} = {Empty}
      <4>1. text' = <<Empty>> /\ Len(text') = 1 /\ text'[1] = Empty
        BY <1>1, <2>1
      <4> QED BY <4>1
    <3> QED BY <1>1, <3>1, <3>2 DEF Written
  <2>2. CASE text # << >>
    <3>1. Len(text) > 0 /\ text' = text
      BY <1>1, <1>2, <2>2
    <3>2. value # {}
      <4>1. 1 \in 1..Len(text)
        BY <1>2, <3>1
      <4>2. text[1] \in {BitToken(i) : i \in value}
        BY <1>6, <4>1
      <4> QED BY <4>2
    <3>3. {j \in value' : phase' = "writing" => j < bit'} = value
      BY <1>1
    <3>4. \A i : BitToken(i)' = BitToken(i)
      BY <1>1 DEF BitToken
    <3> QED BY <1>1, <1>6, <3>1, <3>2, <3>3, <3>4 DEF Written
  <2> QED BY <2>1, <2>2
<1> QED BY <1>4, <1>5, <1>7 DEF IInv

LEMMA ReadTokenInv == ASSUME IInv, ReadToken PROVE IInv'
<1>0. TypeOK /\ ReadSoFar /\ Written
  BY DEF IInv
<1>1. /\ phase = "reading" /\ pos < Len(text) /\ Known(text[pos + 1])
      /\ res' = res \cup Denoted(text[pos + 1])
      /\ pos' = pos + 1
      /\ phase' = IF pos' = Len(text) THEN "read" ELSE "reading"
      /\ UNCHANGED <<signed, names, value, byHand, bit, text>>
  BY <1>0 DEF ReadToken, ReadSoFar
<1>2. /\ text \in Seq(Token) /\ Len(text) \in Nat /\ pos \in Nat
      /\ pos + 1 \in 1..Len(text) /\ text[pos + 1] \in Token
  <2>1. text \in Seq(Token) /\ Len(text) \in Nat /\ pos \in Nat
    BY <1>0 DEF TypeOK
  <2>2. pos + 1 \in 1..Len(text)
    BY <1>1, <2>1
  <2> QED BY <2>1, <2>2
<1>3. TypeOK'
  <2>1. Denoted(text[pos + 1]) \subseteq Bits
    BY <1>0, <1>2, DenotedBits
  <2>2. pos' \in 0..Len(text')
    BY <1>1, <1>2
  <2> QED BY <1>0, <1>1, <2>1, <2>2 DEF TypeOK
<1>4. \A t : Known(t)' = Known(t) /\ Denoted(t)' = Denoted(t)
  BY <1>1 DEF Known, Denoted, Named, InRange, BitsOf
<1>5. ReadSoFar'
  <2>1. \A i \in 1..(pos + 1) : i = pos + 1 \/ i \in 1..pos
    BY <1>2
  <2>2. \A i \in 1..pos : i \in 1..(pos + 1)
    BY <1>2
  <2>3. pos + 1 \in 1..(pos + 1)
    BY <1>2
  <2>4. \A i \in 1..(pos + 1) : Known(text[i])
    BY <1>0, <1>1, <2>1 DEF ReadSoFar
  <2>5. res' = UNION {Denoted(text[i]) : i \in 1..(pos + 1)}
    <3>1. res = UNION {Denoted(text[i]) : i \in 1..pos}
      BY <1>0 DEF ReadSoFar
    <3>2. ASSUME NEW b PROVE b \in res' <=> \E i \in 1..(pos + 1) : b \in Denoted(text[i])
      BY <1>1, <2>1, <2>2, <2>3, <3>1
    <3> QED BY <3>2
  <2>6. /\ (\A i \in 1..pos : Known(text[i]))'
        /\ (res = UNION {Denoted(text[i]) : i \in 1..pos})'
    <3>1. text' = text /\ pos' = pos + 1
      BY <1>1
    <3>2. \A i : Known(text[i])' = Known(text[i]) /\ Denoted(text[i])' = Denoted(text[i])
      BY <1>1 DEF Known, Denoted, Named, InRange, BitsOf
    <3> QED BY <2>4, <2>5, <3>1, <3>2
  <2>7. phase' \in {"read", "reading"} /\ (phase' = "read" <=> pos' = Len(text')) /\ pos' <= Len(text')
    BY <1>1, <1>2
  <2>8. phase' = "reading" => pos' < Len(text')
    BY <1>1, <1>2
  <2> QED BY <2>6, <2>7, <2>8 DEF ReadSoFar
<1>6. Written'
  <2>1. phase' # "writing" /\ phase # "writing"
    BY <1>1
  <2>2. \A i : BitToken(i)' = BitToken(i)
    BY <1>1 DEF BitToken
  <2> QED BY <1>0, <1>1, <2>1, <2>2 DEF Written
<1> QED BY <1>3, <1>5, <1>6 DEF IInv

LEMMA StopInv == ASSUME IInv, StopAtUnknown PROVE IInv'
<1>0. TypeOK /\ ReadSoFar /\ Written
  BY DEF IInv
<1>1. /\ phase = "reading" /\ ~Known(text[pos + 1]) /\ phase' = "unknown"
      /\ UNCHANGED <<signed, names, value, byHand, bit, text, pos, res>>
  BY DEF StopAtUnknown
<1>2. \A t : Known(t)' = Known(t) /\ Denoted(t)' = Denoted(t) /\ \A i : BitToken(i)' = BitToken(i)
  BY <1>1 DEF Known, Denoted, Named, InRange, BitsOf, BitToken
<1>3. TypeOK'
  BY <1>0, <1>1 DEF TypeOK
<1>4. ReadSoFar'
  BY <1>0, <1>1, <1>2 DEF ReadSoFar
<1>5. Written'
  BY <1>0, <1>1, <1>2 DEF Written
<1> QED BY <1>3, <1>4, <1>5 DEF IInv

LEMMA NextInv == IInv /\ [Next]_vars => IInv'
<1> SUFFICES ASSUME IInv, [Next]_vars PROVE IInv'
  OBVIOUS
<1>1. CASE UNCHANGED vars
  <2>1. \A t : Known(t)' = Known(t) /\ Denoted(t)' = Denoted(t) /\ \A i : BitToken(i)' = BitToken(i)
    BY <1>1 DEF vars, Known, Denoted, Named, InRange, BitsOf, BitToken
  <2>2. TypeOK'
    BY <1>1 DEF IInv, TypeOK, vars
  <2>3. ReadSoFar' /\ Written'
    BY <1>1, <2>1 DEF IInv, ReadSoFar, Written, vars
  <2> QED BY <2>2, <2>3 DEF IInv
<1> QED BY <1>1, WriteBitInv, EndWriteInv, ReadTokenInv, StopInv DEF Next

LEMMA InductiveInvariant == Spec => []IInv
<1> QED BY InitInv, NextInv, PTL DEF Spec

-------------------------------------------------------------------------------
\* The position stays within the text and the result within the bits of the type,
\* whatever somebody wrote by hand.
THEOREM TypeCorrect == Spec => []TypeOK
<1>1. IInv => TypeOK
  BY DEF IInv
<1> QED BY <1>1, InductiveInvariant, PTL

\* A text means the union of what its tokens mean, or the place of the first that
\* means nothing (lines 68-87).
THEOREM Union == Spec => []MeansUnion
<1>1. IInv => MeansUnion
  <2> SUFFICES ASSUME IInv, Finished PROVE
        /\ res = UNION {Denoted(text[i]) : i \in 1..pos}
        /\ \A i \in 1..pos : Known(text[i])
        /\ phase = "read" <=> pos = Len(text)
        /\ phase = "unknown" => ~Known(text[pos + 1])
    BY DEF MeansUnion
  <2>1. pos \in Nat /\ Len(text) \in Nat
    BY DEF IInv, TypeOK
  <2> QED BY <2>1 DEF IInv, ReadSoFar, Finished
<1> QED BY <1>1, InductiveInvariant, PTL

\* What is written is read back if and only if each bit that is set has a name, or
\* a number, that nothing else has (lines 26-38 and 72-81).
THEOREM RoundTrip == Spec => []RoundTripIffUnambiguous
<1>1. IInv => RoundTripIffUnambiguous
  <2> SUFFICES ASSUME IInv, Finished, ~byHand PROVE phase = "read" /\ res = value <=> Unambiguous
    BY DEF RoundTripIffUnambiguous
  <2>0. /\ TypeOK /\ phase \in {"read", "unknown"} /\ value \subseteq Bits
        /\ text \in Seq(Token) /\ Len(text) \in Nat /\ pos \in Nat
    BY DEF IInv, Finished, TypeOK
  <2>1. Unambiguous <=> \A i \in value : Clear(i)
    BY DEF Unambiguous, Clear
  <2>2. {text[i] : i \in 1..Len(text)} = IF value = {} THEN {Empty} ELSE {BitToken(i) : i \in value}
    <3>1. {j \in value : phase = "writing" => j < bit} = value
      BY <2>0
    <3> QED BY <2>0, <3>1 DEF IInv, Written
  <2>3. CASE value = {}
    <3>1. \A i \in 1..Len(text) : text[i] = Empty
      BY <2>2, <2>3
    <3>2. Known(Empty) /\ Denoted(Empty) = {}
      BY DEF Known, Denoted
    <3>3. phase = "read"
      <4> SUFFICES ASSUME phase = "unknown" PROVE FALSE
        BY <2>0
      <4>1. pos + 1 \in 1..Len(text) /\ ~Known(text[pos + 1])
        BY <2>0 DEF IInv, ReadSoFar
      <4> QED BY <3>1, <3>2, <4>1
    <3>4. res = {}
      <4>1. pos = Len(text) /\ res = UNION {Denoted(text[i]) : i \in 1..pos}
        BY <3>3 DEF IInv, ReadSoFar
      <4> QED BY <3>1, <3>2, <4>1
    <3> QED BY <2>1, <2>3, <3>3, <3>4
  <2>4. CASE value # {}
    <3>1. /\ \A i \in 1..Len(text) : \E k \in value : text[i] = BitToken(k)
          /\ \A k \in value : \E i \in 1..Len(text) : text[i] = BitToken(k)
      <4>1. {text[i] : i \in 1..Len(text)} = {BitToken(i) : i \in value}
        BY <2>2, <2>4
      <4>2. ASSUME NEW i \in 1..Len(text) PROVE \E k \in value : text[i] = BitToken(k)
        BY <4>1
      <4>3. ASSUME NEW k \in value PROVE \E i \in 1..Len(text) : text[i] = BitToken(k)
        <5>1. BitToken(k) \in {text[i] : i \in 1..Len(text)}
          BY <4>1
        <5> QED BY <5>1
      <4> QED BY <4>2, <4>3
    <3>2. ASSUME phase = "read", res = value, NEW i \in value PROVE Clear(i)
      <4>1. pos = Len(text) /\ res = UNION {Denoted(text[j]) : j \in 1..pos} /\ \A j \in 1..pos : Known(text[j])
        BY <3>2 DEF IInv, ReadSoFar
      <4>2. PICK j \in 1..Len(text) : i \in Denoted(text[j])
        BY <3>2, <4>1
      <4>3. PICK k \in value : text[j] = BitToken(k)
        BY <3>1, <4>2
      <4>4. PICK m \in Bits : Clear(m) /\ Denoted(BitToken(k)) = {m}
        BY <2>0, <4>1, <4>2, <4>3, TokenOfBit
      <4> QED BY <4>2, <4>3, <4>4
    <3>3. ASSUME \A i \in value : Clear(i) PROVE phase = "read" /\ res = value
      <4>1. \A k \in value : Known(BitToken(k)) /\ Denoted(BitToken(k)) = {k}
        BY <2>0, <3>3, TokenOfBit
      <4>2. phase = "read"
        <5> SUFFICES ASSUME phase = "unknown" PROVE FALSE
          BY <2>0
        <5>1. pos + 1 \in 1..Len(text) /\ ~Known(text[pos + 1])
          BY <2>0 DEF IInv, ReadSoFar
        <5> QED BY <3>1, <4>1, <5>1
      <4>3. pos = Len(text) /\ res = UNION {Denoted(text[i]) : i \in 1..pos}
        BY <4>2 DEF IInv, ReadSoFar
      <4>4. ASSUME NEW b PROVE b \in res <=> b \in value
        BY <3>1, <4>1, <4>3
      <4>5. res = value
        BY <4>4
      <4> QED BY <4>2, <4>5
    <3> QED BY <2>1, <3>2, <3>3
  <2> QED BY <2>3, <2>4
<1> QED BY <1>1, InductiveInvariant, PTL
================================================================================
