----------------------------- MODULE PayloadProofs -----------------------------
(***************************************************************************)
(* The decimal arithmetic of Payload, for every text and every maxInt64:   *)
(* what parseDecimal accepts is the value of the text, it accepts every    *)
(* number it has room for, and what decimalSub leaves of an order is       *)
(* exact.                                                                  *)
(*                                                                         *)
(* parseDecimal's loop is a recursive function over the characters: a      *)
(* sequence of scans, one per turn, each made of the one before.  What     *)
(* holds of a scan is proved turn by turn (EveryTurn), from the fact that  *)
(* a set of numbers has a least element (LeastOf): the first turn after    *)
(* which it would not hold does not exist.                                 *)
(***************************************************************************)
EXTENDS Payload, WellFoundedInduction, TLAPS

-----------------------------------------------------------------------------
(* Loops.  The recursive functions of Payload say what a loop has computed *)
(* after each of its turns.                                                *)

\* A set of numbers that is not empty has a least element: a claim about all numbers is
\* proved by the least number it could fail for.
LEMMA LeastOf == ASSUME NEW S \in SUBSET Nat, S # {} PROVE \E x \in S : \A y \in S : x <= y
<1> DEFINE Less == {ss \in Nat \X Nat : ss[1] < ss[2]}
<1>1. IsWellFoundedOn(Less, Nat)
  BY NatLessThanWellFounded, Zenon DEF OpToRel
<1> HIDE DEF Less
<1>2. PICK x \in S : \A y \in S : ~ (<<y, x>> \in Less)
  BY <1>1, WFMin
<1>3. ASSUME NEW y \in S PROVE x <= y
  <2>1. x \in Nat /\ y \in Nat /\ ~ (<<y, x>> \in Less)
    BY <1>2
  <2>2. ~ (y < x)
    BY <2>1 DEF Less
  <2> QED
    BY <2>1, <2>2
<1> QED
  BY <1>3

\* g lists the states of S after 0, 1, ... n turns, turn i being F[i].
Runs(g, S, start, n, F) == /\ g \in [0 .. n -> S]
                           /\ g[0] = start
                           /\ \A i \in 1 .. n : g[i] = F[i][g[i - 1]]

\* The turns of a loop can be listed.
LEMMA Turns ==
    ASSUME NEW S, NEW start \in S, NEW n \in Nat, NEW F \in [1 .. n -> [S -> S]]
    PROVE  \E g : Runs(g, S, start, n, F)
<1> DEFINE Listed(k) == \E g : Runs(g, S, start, k, F)
           Bad == {k \in 0 .. n : ~Listed(k)}
<1> SUFFICES ASSUME Bad # {} PROVE FALSE
  <2>1. n \in 0 .. n
    OBVIOUS
  <2>2. Listed(n)
    <3> HIDE DEF Listed
    <3> QED
      BY <2>1
  <2> QED
    BY <2>2
<1>1. PICK k \in Bad : \A j \in Bad : k <= j
  <2>1. Bad \in SUBSET Nat
    OBVIOUS
  <2> HIDE DEF Bad
  <2> QED
    BY <2>1, LeastOf
<1>2. k \in 0 .. n /\ ~Listed(k)
  OBVIOUS
<1>3. k # 0
  <2> DEFINE g == [i \in 0 .. 0 |-> start]
  <2>1. g \in [0 .. 0 -> S] /\ g[0] = start /\ 1 .. 0 = {}
    OBVIOUS
  <2> HIDE DEF g
  <2>2. Listed(0)
    BY <2>1 DEF Runs
  <2> HIDE DEF Listed
  <2> QED
    BY <1>2, <2>2
<1>4. PICK g : Runs(g, S, start, k - 1, F)
  <2>1. k - 1 \in 0 .. n /\ ~(k <= k - 1)
    BY <1>2, <1>3
  <2>2. Listed(k - 1)
    BY <1>1, <2>1
  <2> QED
    BY <2>2
<1> DEFINE h == [i \in 0 .. k |-> IF i = k THEN F[k][g[k - 1]] ELSE g[i]]
<1>g. g \in [0 .. k - 1 -> S] /\ g[0] = start /\ \A i \in 1 .. k - 1 : g[i] = F[i][g[i - 1]]
  BY <1>4 DEF Runs
<1>5. k \in 1 .. n /\ k - 1 \in 0 .. k - 1 /\ F[k][g[k - 1]] \in S
  BY <1>2, <1>3, <1>g
<1>6. h \in [0 .. k -> S] /\ h[0] = start
  BY <1>g, <1>5
<1>7. ASSUME NEW i \in 1 .. k PROVE h[i] = F[i][h[i - 1]]
  <2>1. i - 1 \in 0 .. k /\ i - 1 # k /\ h[i - 1] = g[i - 1]
    BY <1>5
  <2>2. CASE i = k
    BY <2>1, <2>2, <1>5
  <2>3. CASE i # k
    <3>1. i \in 1 .. k - 1 /\ h[i] = g[i]
      BY <1>5, <2>3
    <3> QED
      BY <3>1, <2>1, <1>g
  <2> QED
    BY <2>2, <2>3
<1>8. Listed(k)
  <2> HIDE DEF h
  <2> QED
    BY <1>6, <1>7 DEF Runs
<1> HIDE DEF Listed
<1> QED
  BY <1>2, <1>8

-----------------------------------------------------------------------------
(* Powers of ten.                                                          *)

\* Pow10 is what its loop computes.
LEMMA Powers ==
    ASSUME NEW n \in Nat
    PROVE  \E g \in [0 .. n -> Nat] : g[0] = 1 /\ (\A i \in 1 .. n : g[i] = 10 * g[i - 1]) /\ Pow10(n) = g[n]
<1> DEFINE F == [i \in 1 .. n |-> [x \in Nat |-> 10 * x]]
<1>1. F \in [1 .. n -> [Nat -> Nat]]
  OBVIOUS
<1>2. \A i \in 1 .. n, x \in Nat : F[i][x] = 10 * x
  OBVIOUS
<1> HIDE DEF F
<1>r. PICK g : Runs(g, Nat, 1, n, F)
  <2>1. 1 \in Nat
    OBVIOUS
  <2> QED
    BY <1>1, <2>1, Turns
<1>3. g \in [0 .. n -> Nat] /\ g[0] = 1 /\ \A i \in 1 .. n : g[i] = F[i][g[i - 1]]
  BY <1>r DEF Runs
<1>4. ASSUME NEW i \in 1 .. n PROVE g[i] = 10 * g[i - 1]
  <2>1. g[i - 1] \in Nat
    BY <1>3
  <2> QED
    BY <2>1, <1>2, <1>3
<1> DEFINE Solves(mul) == mul = [i \in 0 .. n |-> IF i = 0 THEN 1 ELSE 10 * mul[i - 1]]
           m == CHOOSE mul : Solves(mul)
<1>5. Pow10(n) = m[n]
  BY Zenon DEF Pow10
<1>6. Solves(g)
  <2>1. g = [i \in 0 .. n |-> g[i]]
    BY <1>3
  <2>2. \A i \in 0 .. n : g[i] = IF i = 0 THEN 1 ELSE 10 * g[i - 1]
    BY <1>3, <1>4
  <2> QED
    BY <2>1, <2>2
<1>7. Solves(m)
  <2> HIDE DEF Solves
  <2> QED
    BY <1>6
<1> HIDE DEF m
<1>8. m[0] = 1 /\ \A i \in 1 .. n : m[i] = 10 * m[i - 1]
  BY <1>7
<1>9. ASSUME NEW i \in 0 .. n PROVE m[i] = g[i]
  <2> DEFINE Bad == {k \in 0 .. n : m[k] # g[k]}
  <2> SUFFICES ASSUME Bad # {} PROVE FALSE
    BY <1>9
  <2>1. PICK k \in Bad : \A j \in Bad : k <= j
    <3>1. Bad \in SUBSET Nat
      OBVIOUS
    <3> HIDE DEF Bad
    <3> QED
      BY <3>1, LeastOf
  <2>2. k \in 0 .. n /\ m[k] # g[k] /\ k # 0
    BY <1>3, <1>8
  <2>3. k - 1 \in 0 .. n /\ ~(k <= k - 1) /\ k \in 1 .. n
    BY <2>2
  <2>4. m[k - 1] = g[k - 1]
    BY <2>1, <2>3
  <2> QED
    BY <2>2, <2>3, <2>4, <1>4, <1>8
<1>10. Pow10(n) = g[n]
  BY <1>5, <1>9
<1> QED
  BY <1>3, <1>4, <1>10

\* A turn more is a factor of ten.
LEMMA PowerStep ==
    /\ Pow10(0) = 1
    /\ \A n \in Nat : Pow10(n) \in Nat /\ Pow10(n) > 0 /\ Pow10(n + 1) = 10 * Pow10(n)
<1>1. Pow10(0) = 1
  BY 0 \in Nat, Powers
<1>2. ASSUME NEW n \in Nat PROVE Pow10(n) \in Nat /\ Pow10(n + 1) = 10 * Pow10(n)
  <2>1. PICK g \in [0 .. n -> Nat] : g[0] = 1 /\ (\A i \in 1 .. n : g[i] = 10 * g[i - 1]) /\ Pow10(n) = g[n]
    BY Powers
  <2>2. PICK h \in [0 .. n + 1 -> Nat] : /\ h[0] = 1 /\ (\A i \in 1 .. n + 1 : h[i] = 10 * h[i - 1])
                                         /\ Pow10(n + 1) = h[n + 1]
    BY n + 1 \in Nat, Powers
  <2>3. h[n] = g[n]
    <3> DEFINE Bad == {k \in 0 .. n : h[k] # g[k]}
    <3> SUFFICES ASSUME Bad # {} PROVE FALSE
      OBVIOUS
    <3>1. PICK k \in Bad : \A j \in Bad : k <= j
      <4>1. Bad \in SUBSET Nat
        OBVIOUS
      <4> HIDE DEF Bad
      <4> QED
        BY <4>1, LeastOf
    <3>2. k \in 0 .. n /\ h[k] # g[k] /\ k # 0
      BY <2>1, <2>2
    <3>3. k - 1 \in 0 .. n /\ ~(k <= k - 1) /\ k \in 1 .. n /\ k \in 1 .. n + 1
      BY <3>2
    <3>4. h[k - 1] = g[k - 1]
      BY <3>1, <3>3
    <3> QED
      BY <3>2, <3>3, <3>4, <2>1, <2>2
  <2>4. n + 1 \in 1 .. n + 1 /\ (n + 1) - 1 = n /\ g[n] \in Nat
    OBVIOUS
  <2> QED
    BY <2>1, <2>2, <2>3, <2>4
<1>3. ASSUME NEW n \in Nat PROVE Pow10(n) > 0
  <2> DEFINE Bad == {k \in Nat : Pow10(k) <= 0}
  <2> SUFFICES ASSUME Bad # {} PROVE FALSE
    BY <1>2
  <2>1. PICK k \in Bad : \A j \in Bad : k <= j
    <3>1. Bad \in SUBSET Nat
      OBVIOUS
    <3> HIDE DEF Bad
    <3> QED
      BY <3>1, LeastOf
  <2>2. k \in Nat /\ Pow10(k) <= 0 /\ k # 0
    BY <1>1
  <2>3. k - 1 \in Nat /\ ~(k <= k - 1) /\ k = (k - 1) + 1
    BY <2>2
  <2>4. Pow10(k - 1) \in Nat /\ Pow10(k) = 10 * Pow10(k - 1) /\ Pow10(k - 1) > 0
    BY <2>1, <2>3, <1>2
  <2> QED
    BY <2>2, <2>4
<1> QED
  BY <1>1, <1>2, <1>3

\* More turns make no smaller power.
LEMMA PowersGrow == ASSUME NEW m \in Nat, NEW n \in Nat, m <= n PROVE Pow10(m) <= Pow10(n)
<1> DEFINE Bad == {k \in Nat : m <= k /\ ~(Pow10(m) <= Pow10(k))}
<1> SUFFICES ASSUME Bad # {} PROVE FALSE
  OBVIOUS
<1>1. PICK k \in Bad : \A j \in Bad : k <= j
  <2>1. Bad \in SUBSET Nat
    OBVIOUS
  <2> HIDE DEF Bad
  <2> QED
    BY <2>1, LeastOf
<1>2. k \in Nat /\ m <= k /\ ~(Pow10(m) <= Pow10(k)) /\ k # m
  BY PowerStep
<1>3. k - 1 \in Nat /\ m <= k - 1 /\ ~(k <= k - 1) /\ k = (k - 1) + 1
  BY <1>2
<1>4. Pow10(m) <= Pow10(k - 1)
  BY <1>1, <1>3
<1> HIDE DEF Bad
<1>5. Pow10(k) = 10 * Pow10(k - 1) /\ Pow10(k - 1) \in Nat /\ Pow10(m) \in Nat /\ Pow10(k) \in Nat
  BY <1>2, <1>3, PowerStep
<1> QED
  BY <1>2, <1>4, <1>5

-----------------------------------------------------------------------------
(* Arithmetic.                                                             *)

\* A product stays below a bound exactly if a factor stays below the quotient.
LEMMA Quotient ==
    ASSUME NEW m \in Nat, NEW p \in Nat, p > 0, NEW a \in Int
    PROVE  /\ m \div p \in Nat
           /\ a <= m \div p <=> a * p <= m
           /\ -(m \div p) <= a <=> -m <= a * p
<1> DEFINE q == m \div p
           r == m % p
<1>1. q \in Int /\ r \in Int /\ m = p * q + r /\ 0 <= r /\ r < p
  OBVIOUS
<1> HIDE DEF q, r
<1>2. q >= 0
  <2> SUFFICES ASSUME q <= -1 PROVE FALSE
    BY <1>1
  <2>1. p * q <= p * (-1)
    BY <1>1
  <2> QED
    BY <1>1, <2>1
<1>3. ASSUME a <= q PROVE a * p <= m
  <2>1. a * p <= q * p
    BY <1>1, <1>3
  <2> QED
    BY <1>1, <2>1
<1>4. ASSUME a >= q + 1 PROVE a * p > m
  <2>1. a * p >= (q + 1) * p
    BY <1>1, <1>4
  <2> QED
    BY <1>1, <2>1
<1>5. ASSUME -q <= a PROVE -m <= a * p
  <2>1. (-q) * p <= a * p
    BY <1>1, <1>5
  <2> QED
    BY <1>1, <2>1
<1>6. ASSUME a <= -q - 1 PROVE a * p < -m
  <2>1. a * p <= (-q - 1) * p
    BY <1>1, <1>6
  <2> QED
    BY <1>1, <2>1
<1>7. /\ q \in Nat
      /\ a <= q <=> a * p <= m
      /\ -q <= a <=> -m <= a * p
  BY <1>1, <1>2, <1>3, <1>4, <1>5, <1>6
<1> QED
  BY <1>7 DEF q

\* Values in range are kept, and those a little above it are shifted by 2 * (MaxInt + 1).
LEMMA Wrapped ==
    ASSUME NEW x \in Int
    PROVE  /\ x \in -(MaxInt + 1) .. MaxInt => Wrap(x) = x
           /\ x \in MaxInt + 1 .. 2 * MaxInt => Wrap(x) = x - 2 * (MaxInt + 1)
<1>0. MaxInt \in Nat
  BY PayloadAssumption
<1> DEFINE y == x + MaxInt + 1
           m == 2 * (MaxInt + 1)
           q == y \div m
           r == y % m
<1>1. q \in Int /\ r \in Int /\ y = m * q + r /\ 0 <= r /\ r < m /\ m \in Nat /\ m > 0 /\ y \in Int
  BY <1>0
<1>2. Wrap(x) = r - (MaxInt + 1)
  BY DEF Wrap
<1>3. y = x + MaxInt + 1 /\ m = 2 * (MaxInt + 1)
  OBVIOUS
<1> HIDE DEF y, m, q, r
<1>4. ASSUME 0 <= y, y < m PROVE q = 0
  <2>1. ASSUME q >= 1 PROVE FALSE
    <3>1. m * q >= m * 1
      BY <1>1, <2>1
    <3> QED
      BY <1>1, <1>4, <3>1
  <2>2. ASSUME q <= -1 PROVE FALSE
    <3>1. m * q <= m * (-1)
      BY <1>1, <2>2
    <3> QED
      BY <1>1, <1>4, <3>1
  <2> QED
    BY <1>1, <2>1, <2>2
<1>5. ASSUME m <= y, y < 2 * m PROVE q = 1
  <2>1. ASSUME q >= 2 PROVE FALSE
    <3>1. m * q >= m * 2
      BY <1>1, <2>1
    <3> QED
      BY <1>1, <1>5, <3>1
  <2>2. ASSUME q <= 0 PROVE FALSE
    <3>1. m * q <= m * 0
      BY <1>1, <2>2
    <3> QED
      BY <1>1, <1>5, <3>1
  <2> QED
    BY <1>1, <2>1, <2>2
<1>6. ASSUME x \in -(MaxInt + 1) .. MaxInt PROVE Wrap(x) = x
  <2>1. 0 <= y /\ y < m
    BY <1>0, <1>3, <1>6
  <2>2. y = r
    BY <1>1, <1>4, <2>1
  <2> QED
    BY <1>0, <1>2, <1>3, <2>2
<1>7. ASSUME x \in MaxInt + 1 .. 2 * MaxInt PROVE Wrap(x) = x - 2 * (MaxInt + 1)
  <2>1. m <= y /\ y < 2 * m
    BY <1>0, <1>3, <1>7
  <2>2. y = m + r
    BY <1>1, <1>5, <2>1
  <2> QED
    BY <1>0, <1>1, <1>2, <1>3, <2>2
<1> QED
  BY <1>6, <1>7

-----------------------------------------------------------------------------
(* Characters and texts.                                                   *)

\* A digit has a value, and the dot is none.
LEMMA DigitValues == "." \notin DigitSet /\ \A c \in DigitSet : DigitOf(c) \in 0 .. 9
<1>1. \A i \in 1 .. 9 : Digits[i] # "."
  <2>1. \A i \in 1 .. 9 : i = 1 \/ i = 2 \/ i = 3 \/ i = 4 \/ i = 5 \/ i = 6 \/ i = 7 \/ i = 8 \/ i = 9
    OBVIOUS
  <2> QED
    BY <2>1 DEF Digits
<1>2. "." \notin DigitSet
  BY <1>1 DEF DigitSet
<1>3. ASSUME NEW c \in DigitSet PROVE DigitOf(c) \in 0 .. 9
  <2>1. CASE c = "0"
    BY <2>1 DEF DigitOf
  <2>2. CASE c # "0"
    <3>1. \E i \in 1 .. 9 : Digits[i] = c
      BY <2>2 DEF DigitSet
    <3>2. DigitOf(c) \in 1 .. 9
      BY <2>2, <3>1 DEF DigitOf
    <3> QED
      BY <3>2
  <2> QED
    BY <2>1, <2>2
<1> QED
  BY <1>2, <1>3

\* v lists the numbers that the digits of the first 0, 1, ... characters make.
Numbers(v, text) == /\ v \in [0 .. Len(text) -> Nat]
                    /\ v[0] = 0
                    /\ \A i \in 1 .. Len(text) :
                          v[i] = IF text[i] \in DigitSet THEN v[i - 1] * 10 + DigitOf(text[i]) ELSE v[i - 1]

\* Number is the last of them: its recursive function has a value at every place.
LEMMA NumberIs ==
    ASSUME NEW S, NEW text \in Seq(S)
    PROVE  \E v : Numbers(v, text) /\ Number(text) = v[Len(text)]
<1> DEFINE n == Len(text)
           F == [i \in 1 .. n |-> [x \in Nat |-> IF text[i] \in DigitSet THEN x * 10 + DigitOf(text[i]) ELSE x]]
<1>0. n \in Nat
  OBVIOUS
<1> HIDE DEF n
<1>1. F \in [1 .. n -> [Nat -> Nat]]
  <2>1. ASSUME NEW i \in 1 .. n, NEW x \in Nat, text[i] \in DigitSet
        PROVE  x * 10 + DigitOf(text[i]) \in Nat
    BY <2>1, DigitValues
  <2> QED
    BY <2>1
<1>2. \A i \in 1 .. n, x \in Nat : F[i][x] = IF text[i] \in DigitSet THEN x * 10 + DigitOf(text[i]) ELSE x
  OBVIOUS
<1> HIDE DEF F
<1>r. PICK g : Runs(g, Nat, 0, n, F)
  <2>1. 0 \in Nat
    OBVIOUS
  <2> QED
    BY <1>0, <1>1, <2>1, Turns
<1>3. g \in [0 .. n -> Nat] /\ g[0] = 0 /\ \A i \in 1 .. n : g[i] = F[i][g[i - 1]]
  BY <1>r DEF Runs
<1>4. ASSUME NEW i \in 1 .. n
      PROVE  g[i] = IF text[i] \in DigitSet THEN g[i - 1] * 10 + DigitOf(text[i]) ELSE g[i - 1]
  <2>1. g[i - 1] \in Nat
    BY <1>0, <1>3
  <2> QED
    BY <2>1, <1>2, <1>3
<1> DEFINE Solves(first) ==
               first = [i \in 0 .. n |-> IF i = 0 THEN 0
                                        ELSE IF text[i] \in DigitSet THEN first[i - 1] * 10 + DigitOf(text[i])
                                        ELSE first[i - 1]]
           m == CHOOSE first : Solves(first)
<1>5. Number(text) = m[n]
  BY Zenon DEF Number, n
<1>6. Solves(g)
  <2>1. g = [i \in 0 .. n |-> g[i]]
    BY <1>3
  <2>2. \A i \in 0 .. n : g[i] = IF i = 0 THEN 0
                               ELSE IF text[i] \in DigitSet THEN g[i - 1] * 10 + DigitOf(text[i])
                               ELSE g[i - 1]
    BY <1>0, <1>3, <1>4
  <2> QED
    BY <2>1, <2>2
<1>7. Solves(m)
  <2> HIDE DEF Solves
  <2> QED
    BY <1>6
<1> HIDE DEF m
<1>8. /\ m[0] = 0
      /\ \A i \in 1 .. n : m[i] = IF text[i] \in DigitSet THEN m[i - 1] * 10 + DigitOf(text[i]) ELSE m[i - 1]
  BY <1>0, <1>7
<1>9. m[n] = g[n]
  <2> DEFINE Bad == {k \in 0 .. n : m[k] # g[k]}
  <2> SUFFICES ASSUME Bad # {} PROVE FALSE
    BY <1>0
  <2>1. PICK k \in Bad : \A j \in Bad : k <= j
    <3>1. Bad \in SUBSET Nat
      BY <1>0
    <3> HIDE DEF Bad
    <3> QED
      BY <3>1, LeastOf
  <2>2. k \in 0 .. n /\ m[k] # g[k] /\ k # 0
    BY <1>3, <1>8
  <2>3. k - 1 \in 0 .. n /\ ~(k <= k - 1) /\ k \in 1 .. n
    BY <1>0, <2>2
  <2>4. m[k - 1] = g[k - 1]
    BY <2>1, <2>3
  <2> HIDE DEF Bad
  <2> QED
    BY <2>2, <2>3, <2>4, <1>4, <1>8
<1>10. Numbers(g, text)
  BY <1>3, <1>4 DEF Numbers, n
<1> QED
  BY <1>5, <1>9, <1>10 DEF n

-----------------------------------------------------------------------------
(* parseDecimal's loop.                                                    *)

Scans == [ok : BOOLEAN, dot : BOOLEAN, int : Nat, frac : Nat, scale : Nat]

\* What a turn does: a second dot and anything but a digit fail, and so does a digit for
\* which its part has no room.
LEMMA ScanCharIs ==
    ASSUME NEW s \in Scans, NEW c, NEW t, t = ScanChar(s, c)
    PROVE  /\ t \in Scans
           /\ t.dot <=> s.dot \/ c = "."
           /\ t.ok => s.ok /\ c \in DigitSet \cup {"."}
           /\ c = "." => /\ t.ok <=> s.ok /\ ~s.dot
                         /\ t.int = s.int /\ t.frac = s.frac /\ t.scale = s.scale
           /\ c \notin DigitSet => t.int = s.int /\ t.frac = s.frac /\ t.scale = s.scale
           /\ c \in DigitSet /\ s.dot => /\ t.ok <=> s.ok /\ s.frac * 10 + DigitOf(c) <= MaxInt
                                        /\ t.int = s.int /\ t.frac = s.frac * 10 + DigitOf(c)
                                        /\ t.scale = s.scale + 1
           /\ c \in DigitSet /\ ~s.dot => /\ t.ok <=> s.ok /\ s.int * 10 + DigitOf(c) <= MaxInt
                                         /\ t.int = s.int * 10 + DigitOf(c) /\ t.frac = s.frac
                                         /\ t.scale = s.scale
<1>0. MaxInt \in Nat
  BY PayloadAssumption
<1>s. s.int \in Nat /\ s.frac \in Nat /\ s.scale \in Nat
  BY DEF Scans
<1>f. ASSUME NEW d \in 0 .. 9, NEW part \in Nat
      PROVE  /\ part * 10 + d \in Nat
             /\ part <= (MaxInt - d) \div 10 <=> part * 10 + d <= MaxInt
  BY <1>0
<1>t. /\ t.int \in Nat /\ t.frac \in Nat /\ t.scale \in Nat => t \in Scans
  <2>1. t.ok \in BOOLEAN /\ t.dot \in BOOLEAN
    BY DEF ScanChar, Scans
  <2>2. t = [ok |-> t.ok, dot |-> t.dot, int |-> t.int, frac |-> t.frac, scale |-> t.scale]
    BY DEF ScanChar
  <2> QED
    BY <2>1, <2>2 DEF Scans
<1>1. CASE c = "."
  <2>1. c \notin DigitSet
    BY <1>1, DigitValues
  <2>3. t.ok <=> s.ok /\ ~s.dot
    BY <1>1 DEF ScanChar, Scans
  <2>4. t.dot <=> TRUE
    BY <1>1 DEF ScanChar, Scans
  <2>5. t.int = s.int /\ t.frac = s.frac /\ t.scale = s.scale
    BY <1>1 DEF ScanChar
  <2> QED
    BY <1>s, <1>1, <1>t, <2>1, <2>3, <2>4, <2>5, Zenon
<1>2. CASE c \notin DigitSet \cup {"."}
  <2>3. t.ok <=> FALSE
    BY <1>2 DEF ScanChar, Scans
  <2>4. t.dot <=> s.dot
    BY <1>2 DEF ScanChar, Scans
  <2>5. t.int = s.int /\ t.frac = s.frac /\ t.scale = s.scale
    BY <1>2 DEF ScanChar
  <2> QED
    BY <1>s, <1>2, <1>t, <2>3, <2>4, <2>5, Zenon
<1>3. CASE c \in DigitSet /\ s.dot
  <2>1. c # "." /\ DigitOf(c) \in 0 .. 9
    BY <1>3, DigitValues
  <2>2. /\ s.frac * 10 + DigitOf(c) \in Nat
        /\ s.frac <= (MaxInt - DigitOf(c)) \div 10 <=> s.frac * 10 + DigitOf(c) <= MaxInt
    BY <1>s, <1>f, <2>1, Zenon
  <2>6. s.scale + 1 \in Nat
    BY <1>s
  <2>3. t.ok <=> s.ok /\ s.frac <= (MaxInt - DigitOf(c)) \div 10
    BY <1>3, <2>1 DEF ScanChar, Scans
  <2>4. t.dot <=> TRUE
    BY <1>3, <2>1 DEF ScanChar, Scans
  <2>5. t.int = s.int /\ t.frac = s.frac * 10 + DigitOf(c) /\ t.scale = s.scale + 1
    BY <1>3, <2>1 DEF ScanChar
  <2> QED
    BY <1>s, <1>3, <1>t, <2>1, <2>2, <2>3, <2>4, <2>5, <2>6, Zenon
<1>4. CASE c \in DigitSet /\ ~s.dot
  <2>1. c # "." /\ DigitOf(c) \in 0 .. 9
    BY <1>4, DigitValues
  <2>2. /\ s.int * 10 + DigitOf(c) \in Nat
        /\ s.int <= (MaxInt - DigitOf(c)) \div 10 <=> s.int * 10 + DigitOf(c) <= MaxInt
    BY <1>s, <1>f, <2>1, Zenon
  <2>3. t.ok <=> s.ok /\ s.int <= (MaxInt - DigitOf(c)) \div 10
    BY <1>4, <2>1 DEF ScanChar, Scans
  <2>4. t.dot <=> FALSE
    BY <1>4, <2>1 DEF ScanChar, Scans
  <2>5. t.int = s.int * 10 + DigitOf(c) /\ t.frac = s.frac /\ t.scale = s.scale
    BY <1>4, <2>1 DEF ScanChar
  <2> QED
    BY <1>s, <1>4, <1>t, <2>1, <2>2, <2>3, <2>4, <2>5, Zenon
<1> QED
  BY <1>1, <1>2, <1>3, <1>4, Zenon

\* a lists what parseDecimal's loop has made of the first 0, 1, ... characters.
ScansOf(a, text) == /\ a \in [0 .. Len(text) -> Scans]
                    /\ a[0] = Unread
                    /\ \A i \in 1 .. Len(text) : a[i] = ScanChar(a[i - 1], text[i])

\* Scanned is the last of them.
LEMMA ScannedIs ==
    ASSUME NEW S, NEW text \in Seq(S)
    PROVE  \E a : ScansOf(a, text) /\ Scanned(text) = a[Len(text)]
<1> DEFINE n == Len(text)
           F == [i \in 1 .. n |-> [s \in Scans |-> ScanChar(s, text[i])]]
<1>0. n \in Nat
  OBVIOUS
<1> HIDE DEF n
<1>t. \A s \in Scans : \A c : ScanChar(s, c) \in Scans
  BY ScanCharIs
<1>1. F \in [1 .. n -> [Scans -> Scans]]
  BY <1>t
<1>2. \A i \in 1 .. n, s \in Scans : F[i][s] = ScanChar(s, text[i])
  OBVIOUS
<1> HIDE DEF F
<1>r. PICK g : Runs(g, Scans, Unread, n, F)
  <2>1. Unread \in Scans
    BY DEF Unread, Scans
  <2> QED
    BY <1>0, <1>1, <2>1, Turns
<1>3. g \in [0 .. n -> Scans] /\ g[0] = Unread /\ \A i \in 1 .. n : g[i] = F[i][g[i - 1]]
  BY <1>r DEF Runs
<1>4. ASSUME NEW i \in 1 .. n
      PROVE  g[i] = ScanChar(g[i - 1], text[i])
  <2>1. g[i - 1] \in Scans
    BY <1>0, <1>3
  <2> QED
    BY <2>1, <1>2, <1>3
<1> DEFINE Solves(after) == after = [i \in 0 .. n |-> IF i = 0 THEN Unread ELSE ScanChar(after[i - 1], text[i])]
           m == CHOOSE after : Solves(after)
<1>5. Scanned(text) = m[n]
  BY Zenon DEF Scanned, n
<1>6. Solves(g)
  <2>1. g = [i \in 0 .. n |-> g[i]]
    BY <1>3
  <2>2. \A i \in 0 .. n : g[i] = IF i = 0 THEN Unread ELSE ScanChar(g[i - 1], text[i])
    BY <1>0, <1>3, <1>4
  <2> QED
    BY <2>1, <2>2
<1>7. Solves(m)
  <2> HIDE DEF Solves
  <2> QED
    BY <1>6
<1> HIDE DEF m
<1>8. m[0] = Unread /\ \A i \in 1 .. n : m[i] = ScanChar(m[i - 1], text[i])
  BY <1>0, <1>7
<1>9. m[n] = g[n]
  <2> DEFINE Bad == {k \in 0 .. n : m[k] # g[k]}
  <2> SUFFICES ASSUME Bad # {} PROVE FALSE
    BY <1>0
  <2>1. PICK k \in Bad : \A j \in Bad : k <= j
    <3>1. Bad \in SUBSET Nat
      BY <1>0
    <3> HIDE DEF Bad
    <3> QED
      BY <3>1, LeastOf
  <2>2. k \in 0 .. n /\ m[k] # g[k] /\ k # 0
    BY <1>3, <1>8
  <2>3. k - 1 \in 0 .. n /\ ~(k <= k - 1) /\ k \in 1 .. n
    BY <1>0, <2>2
  <2>4. m[k - 1] = g[k - 1]
    BY <2>1, <2>3
  <2> HIDE DEF Bad
  <2> QED
    BY <2>2, <2>3, <2>4, <1>4, <1>8
<1>10. ScansOf(g, text)
  BY <1>3, <1>4 DEF ScansOf, n
<1> QED
  BY <1>5, <1>9, <1>10 DEF n

-----------------------------------------------------------------------------
(* What the loop has made of the characters it has read.                   *)

\* What holds before the first turn and after a turn whenever before it, holds after
\* every turn.
LEMMA EveryTurn ==
    ASSUME NEW n \in Nat, NEW Good \in SUBSET (0 .. n), 0 \in Good,
           \A i \in 1 .. n : i - 1 \in Good => i \in Good
    PROVE  \A i \in 0 .. n : i \in Good
<1> DEFINE Bad == (0 .. n) \ Good
<1> SUFFICES ASSUME Bad # {} PROVE FALSE
  OBVIOUS
<1>1. PICK k \in Bad : \A j \in Bad : k <= j
  <2>1. Bad \in SUBSET Nat
    OBVIOUS
  <2> HIDE DEF Bad
  <2> QED
    BY <2>1, LeastOf
<1>2. k \in 0 .. n /\ k \notin Good /\ k # 0
  OBVIOUS
<1>3. k \in 1 .. n /\ k - 1 \in 0 .. n /\ ~(k <= k - 1)
  BY <1>2
<1>4. k - 1 \in Good
  BY <1>1, <1>3
<1> QED
  BY <1>2, <1>3, <1>4

\* One turn: the scan before it, the character, the scan after it, and the numbers.
LEMMA Turn ==
    ASSUME NEW S, NEW text \in Seq(S), NEW a, ScansOf(a, text), NEW v, Numbers(v, text),
           NEW i \in 1 .. Len(text)
    PROVE  /\ i - 1 \in 0 .. Len(text) /\ i \in 0 .. Len(text)
           /\ a[i - 1] \in Scans /\ a[i] \in Scans /\ a[i] = ScanChar(a[i - 1], text[i])
           /\ v[i - 1] \in Nat /\ v[i] \in Nat
           /\ v[i] = IF text[i] \in DigitSet THEN v[i - 1] * 10 + DigitOf(text[i]) ELSE v[i - 1]
<1>1. Len(text) \in Nat
  OBVIOUS
<1>2. i - 1 \in 0 .. Len(text) /\ i \in 0 .. Len(text)
  BY <1>1
<1> QED
  BY <1>2 DEF ScansOf, Numbers

\* The number of the digits read is that of the two parts, the fraction behind as many
\* digits as have been read behind the dot.
PartsMake(s, x) == /\ x = s.int * Pow10(s.scale) + s.frac
                   /\ s.frac < Pow10(s.scale)
                   /\ ~s.dot => s.scale = 0 /\ s.frac = 0

\* A turn keeps that, whatever the character.
LEMMA PartsStep ==
    ASSUME NEW s \in Scans, NEW x \in Nat, PartsMake(s, x), NEW c, NEW t, t = ScanChar(s, c)
    PROVE  PartsMake(t, IF c \in DigitSet THEN x * 10 + DigitOf(c) ELSE x)
<1> DEFINE p == Pow10(s.scale)
           d == DigitOf(c)
<1>s. s.int \in Nat /\ s.frac \in Nat /\ s.scale \in Nat
  BY DEF Scans
<1>p. p \in Nat /\ p > 0 /\ Pow10(s.scale + 1) = 10 * p /\ Pow10(0) = 1
  BY <1>s, PowerStep
<1>x. x = s.int * p + s.frac /\ s.frac < p /\ (~s.dot => s.scale = 0 /\ s.frac = 0)
  BY DEF PartsMake
<1> HIDE DEF p
<1>1. CASE c \notin DigitSet
  <2>1. (t.dot <=> s.dot \/ c = ".") /\ t.int = s.int /\ t.frac = s.frac /\ t.scale = s.scale
    BY <1>1, ScanCharIs
  <2> QED
    BY <1>1, <1>x, <2>1, Zenon DEF PartsMake, p
<1>2. CASE c \in DigitSet /\ s.dot
  <2>1. t.dot /\ t.int = s.int /\ t.frac = s.frac * 10 + d /\ t.scale = s.scale + 1
    BY <1>2, ScanCharIs, Zenon
  <2>2. d \in 0 .. 9
    BY <1>2, DigitValues
  <2> HIDE DEF d
  <2>3. s.int * p \in Nat /\ s.int * (10 * p) = 10 * (s.int * p)
    BY <1>s, <1>p
  <2>4. x * 10 + d = s.int * (10 * p) + (s.frac * 10 + d)
    BY <1>s, <1>x, <2>2, <2>3
  <2>5. s.frac * 10 + d < 10 * p
    BY <1>s, <1>p, <1>x, <2>2
  <2>6. Pow10(t.scale) = 10 * p
    BY <1>p, <2>1
  <2>7. x * 10 + d = t.int * Pow10(t.scale) + t.frac /\ t.frac < Pow10(t.scale)
    BY <2>1, <2>4, <2>5, <2>6, Zenon
  <2> QED
    BY <1>2, <2>1, <2>7, Zenon DEF PartsMake, d
<1>3. CASE c \in DigitSet /\ ~s.dot
  <2>0. c # "."
    BY <1>3, DigitValues
  <2>1. ~t.dot /\ t.int = s.int * 10 + d /\ t.frac = s.frac /\ t.scale = s.scale
    BY <1>3, <2>0, ScanCharIs
  <2>2. d \in 0 .. 9
    BY <1>3, DigitValues
  <2> HIDE DEF d
  <2>3. s.scale = 0 /\ s.frac = 0 /\ p = 1
    BY <1>3, <1>x, <1>p DEF p
  <2>4. x * 10 + d = (s.int * 10 + d) * 1 + 0
    BY <1>s, <1>x, <2>2, <2>3
  <2>5. Pow10(t.scale) = 1 /\ t.frac = 0 /\ t.scale = 0
    BY <1>p, <2>1, <2>3
  <2>6. x * 10 + d = t.int * Pow10(t.scale) + t.frac /\ t.frac < Pow10(t.scale)
    BY <2>1, <2>4, <2>5
  <2> QED
    BY <1>3, <2>1, <2>5, <2>6, Zenon DEF PartsMake, d
<1> QED
  BY <1>1, <1>2, <1>3

\* So it holds after every turn.
LEMMA PartsMakeTheNumber ==
    ASSUME NEW S, NEW text \in Seq(S), NEW a, ScansOf(a, text), NEW v, Numbers(v, text)
    PROVE  \A i \in 0 .. Len(text) : PartsMake(a[i], v[i])
<1> DEFINE n == Len(text)
           Good == {i \in 0 .. n : PartsMake(a[i], v[i])}
<1>0. n \in Nat
  OBVIOUS
<1>1. 0 \in Good
  <2>1. a[0] = Unread /\ v[0] = 0
    BY DEF ScansOf, Numbers
  <2>2. a[0].int = 0 /\ a[0].frac = 0 /\ a[0].scale = 0 /\ v[0] = 0
    BY <2>1 DEF Unread
  <2>3. PartsMake(a[0], v[0])
    BY <2>2, PowerStep DEF PartsMake
  <2> QED
    BY <1>0, <2>3
<1>2. ASSUME NEW i \in 1 .. n, i - 1 \in Good PROVE i \in Good
  <2>1. /\ i \in 0 .. n /\ a[i - 1] \in Scans /\ a[i] = ScanChar(a[i - 1], text[i]) /\ v[i - 1] \in Nat
        /\ v[i] = IF text[i] \in DigitSet THEN v[i - 1] * 10 + DigitOf(text[i]) ELSE v[i - 1]
    BY Turn
  <2>2. PartsMake(a[i - 1], v[i - 1])
    BY <1>2
  <2>3. PartsMake(a[i], v[i])
    BY <2>1, <2>2, PartsStep, Zenon
  <2> QED
    BY <2>1, <2>3
<1>3. Good \in SUBSET (0 .. n)
  OBVIOUS
<1>4. \A i \in 0 .. n : i \in Good
  <2> HIDE DEF Good
  <2> QED
    BY <1>0, <1>1, <1>2, <1>3, EveryTurn
<1> QED
  BY <1>4

\* The first i characters are digits and at most one dot.
WellFormed(text, i) == /\ \A j \in 1 .. i : text[j] \in DigitSet \cup {"."}
                       /\ \A j, k \in 1 .. i : text[j] = "." /\ text[k] = "." => j = k

\* dot says whether a dot has been read.
LEMMA DotSeen ==
    ASSUME NEW S, NEW text \in Seq(S), NEW a, ScansOf(a, text), NEW v, Numbers(v, text)
    PROVE  \A i \in 0 .. Len(text) : a[i].dot <=> \E k \in 1 .. i : text[k] = "."
<1> DEFINE n == Len(text)
           Seen(i) == a[i].dot <=> \E k \in 1 .. i : text[k] = "."
           Good == {i \in 0 .. n : Seen(i)}
<1>0. n \in Nat
  OBVIOUS
<1>1. 0 \in Good
  <2>1. a[0] = Unread
    BY DEF ScansOf
  <2>2. ~a[0].dot
    BY <2>1 DEF Unread
  <2>3. Seen(0)
    BY <2>2
  <2> QED
    BY <1>0, <2>3
<1>2. ASSUME NEW i \in 1 .. n, i - 1 \in Good PROVE i \in Good
  <2>1. i \in 0 .. n /\ a[i - 1] \in Scans /\ a[i] = ScanChar(a[i - 1], text[i])
    BY Turn
  <2>2. Seen(i - 1)
    BY <1>2
  <2>3. a[i].dot <=> a[i - 1].dot \/ text[i] = "."
    BY <2>1, ScanCharIs
  <2>4. \A k : k \in 1 .. i <=> k \in 1 .. i - 1 \/ k = i
    BY <1>0
  <2>5. Seen(i)
    BY <2>2, <2>3, <2>4
  <2> QED
    BY <2>1, <2>5
<1>3. Good \in SUBSET (0 .. n)
  OBVIOUS
<1>4. \A i \in 0 .. n : i \in Good
  <2> HIDE DEF Good
  <2> QED
    BY <1>0, <1>1, <1>2, <1>3, EveryTurn
<1> QED
  BY <1>4

\* A loop that has not returned has read a well-formed text, and an integer part in range.
LEMMA OkIsWellFormed ==
    ASSUME NEW S, NEW text \in Seq(S), NEW a, ScansOf(a, text), NEW v, Numbers(v, text)
    PROVE  \A i \in 0 .. Len(text) : a[i].ok => WellFormed(text, i) /\ a[i].int <= MaxInt
<1> DEFINE n == Len(text)
           Read(i) == a[i].ok => WellFormed(text, i) /\ a[i].int <= MaxInt
           Good == {i \in 0 .. n : Read(i)}
<1>0. n \in Nat /\ MaxInt \in Nat
  BY PayloadAssumption
<1>1. 0 \in Good
  <2>1. a[0] = Unread
    BY DEF ScansOf
  <2>2. a[0].int = 0
    BY <2>1 DEF Unread
  <2>3. WellFormed(text, 0)
    BY DEF WellFormed
  <2>4. Read(0)
    BY <1>0, <2>2, <2>3
  <2> QED
    BY <1>0, <2>4
<1>2. ASSUME NEW i \in 1 .. n, i - 1 \in Good PROVE i \in Good
  <2>1. i \in 0 .. n /\ i - 1 \in 0 .. n /\ a[i - 1] \in Scans /\ a[i] = ScanChar(a[i - 1], text[i])
    BY Turn
  <2>2. Read(i - 1)
    BY <1>2
  <2>3. Read(i)
    <3> SUFFICES ASSUME a[i].ok PROVE WellFormed(text, i) /\ a[i].int <= MaxInt
      OBVIOUS
    <3>1. a[i - 1].ok /\ text[i] \in DigitSet \cup {"."}
      BY <2>1, ScanCharIs
    <3>2. WellFormed(text, i - 1) /\ a[i - 1].int <= MaxInt
      BY <2>2, <3>1
    <3>3. text[i] = "." => ~a[i - 1].dot
      BY <2>1, ScanCharIs
    <3>4. text[i] = "." => \A k \in 1 .. i - 1 : text[k] # "."
      BY <2>1, <3>3, DotSeen
    <3>5. \A k : k \in 1 .. i <=> k \in 1 .. i - 1 \/ k = i
      BY <1>0
    <3>6. WellFormed(text, i)
      BY <3>1, <3>2, <3>4, <3>5 DEF WellFormed
    <3>7. a[i].int <= MaxInt
      <4>1. CASE text[i] \notin DigitSet
        <5>1. a[i].int = a[i - 1].int
          BY <2>1, <4>1, ScanCharIs
        <5> QED
          BY <3>2, <5>1
      <4>2. CASE text[i] \in DigitSet /\ a[i - 1].dot
        <5>1. a[i].int = a[i - 1].int
          BY <2>1, <4>2, ScanCharIs
        <5> QED
          BY <3>2, <5>1
      <4>3. CASE text[i] \in DigitSet /\ ~a[i - 1].dot
        <5>1. a[i].int = a[i - 1].int * 10 + DigitOf(text[i])
          BY <2>1, <4>3, ScanCharIs
        <5>2. a[i - 1].int * 10 + DigitOf(text[i]) <= MaxInt
          BY <2>1, <4>3, ScanCharIs
        <5> QED
          BY <5>1, <5>2
      <4> QED
        BY <4>1, <4>2, <4>3
    <3> QED
      BY <3>6, <3>7
  <2> QED
    BY <2>1, <2>3
<1>3. Good \in SUBSET (0 .. n)
  OBVIOUS
<1>4. \A i \in 0 .. n : i \in Good
  <2> HIDE DEF Good
  <2> QED
    BY <1>0, <1>1, <1>2, <1>3, EveryTurn
<1> QED
  BY <1>4

\* In a well-formed text the scale counts the characters behind the dot.
LEMMA ScaleIs ==
    ASSUME NEW S, NEW text \in Seq(S), NEW a, ScansOf(a, text), NEW v, Numbers(v, text),
           WellFormed(text, Len(text))
    PROVE  \A i \in 0 .. Len(text), k \in 1 .. Len(text) : k <= i /\ text[k] = "." => a[i].scale = i - k
<1> DEFINE n == Len(text)
           Counts(i) == \A k \in 1 .. n : k <= i /\ text[k] = "." => a[i].scale = i - k
           Good == {i \in 0 .. n : Counts(i)}
<1>0. n \in Nat
  OBVIOUS
<1>1. 0 \in Good
  BY <1>0
<1>2. ASSUME NEW i \in 1 .. n, i - 1 \in Good PROVE i \in Good
  <2>1. i \in 0 .. n /\ i - 1 \in 0 .. n /\ a[i - 1] \in Scans /\ a[i] = ScanChar(a[i - 1], text[i])
    BY Turn
  <2>2. Counts(i - 1)
    BY <1>2
  <2>s. a[i - 1].scale \in Nat
    BY <2>1 DEF Scans
  <2>3. ASSUME NEW k \in 1 .. n, k <= i, text[k] = "." PROVE a[i].scale = i - k
    <3>1. CASE k = i
      <4>1. \A j \in 1 .. i - 1 : text[j] # "."
        <5> SUFFICES ASSUME NEW j \in 1 .. i - 1, text[j] = "." PROVE FALSE
          OBVIOUS
        <5>1. j \in 1 .. n /\ j # k
          BY <1>0, <3>1
        <5> QED
          BY <2>3, <5>1 DEF WellFormed
      <4>2. ~a[i - 1].dot
        BY <2>1, <4>1, DotSeen
      <4>3. a[i - 1].scale = 0
        BY <2>1, <4>2, PartsMakeTheNumber DEF PartsMake
      <4>4. a[i].scale = a[i - 1].scale
        BY <2>1, <2>3, <3>1, ScanCharIs
      <4> QED
        BY <3>1, <4>3, <4>4
    <3>2. CASE k # i
      <4>1. k <= i - 1 /\ k \in 1 .. i - 1
        BY <1>0, <2>3, <3>2
      <4>2. a[i - 1].scale = i - 1 - k
        BY <2>2, <2>3, <4>1
      <4>3. a[i - 1].dot
        BY <2>1, <2>3, <4>1, DotSeen
      <4>4. text[i] \in DigitSet
        <5>1. text[i] # "."
          BY <2>3, <3>2 DEF WellFormed
        <5> QED
          BY <5>1 DEF WellFormed
      <4>5. a[i].scale = a[i - 1].scale + 1
        BY <2>1, <4>3, <4>4, ScanCharIs
      <4> QED
        BY <1>0, <4>2, <4>5
    <3> QED
      BY <3>1, <3>2
  <2> QED
    BY <2>1, <2>3
<1>3. Good \in SUBSET (0 .. n)
  OBVIOUS
<1>4. \A i \in 0 .. n : i \in Good
  <2> HIDE DEF Good
  <2> QED
    BY <1>0, <1>1, <1>2, <1>3, EveryTurn
<1> QED
  BY <1>4

\* Reading on makes neither the number nor the scale smaller.
LEMMA ReadingOn ==
    ASSUME NEW S, NEW text \in Seq(S), NEW a, ScansOf(a, text), NEW v, Numbers(v, text),
           NEW i \in 0 .. Len(text)
    PROVE  v[i] <= v[Len(text)] /\ a[i].scale <= a[Len(text)].scale
<1> DEFINE n == Len(text)
           More(j) == i <= j => v[i] <= v[j] /\ a[i].scale <= a[j].scale
           Good == {j \in 0 .. n : More(j)}
<1>0. n \in Nat /\ v[i] \in Nat /\ a[i].scale \in Nat
  BY DEF Numbers, ScansOf, Scans
<1>1. 0 \in Good
  <2>1. i <= 0 => i = 0
    OBVIOUS
  <2>2. More(0)
    BY <1>0, <2>1
  <2> QED
    BY <1>0, <2>2
<1>2. ASSUME NEW j \in 1 .. n, j - 1 \in Good PROVE j \in Good
  <2>1. /\ j \in 0 .. n /\ a[j - 1] \in Scans /\ a[j] = ScanChar(a[j - 1], text[j])
        /\ v[j - 1] \in Nat /\ v[j] \in Nat
        /\ v[j] = IF text[j] \in DigitSet THEN v[j - 1] * 10 + DigitOf(text[j]) ELSE v[j - 1]
    BY Turn
  <2>2. More(j - 1)
    BY <1>2
  <2>3. v[j - 1] <= v[j]
    <3>1. CASE text[j] \in DigitSet
      <4>1. DigitOf(text[j]) \in 0 .. 9
        BY <3>1, DigitValues
      <4>2. v[j] = v[j - 1] * 10 + DigitOf(text[j])
        BY <2>1, <3>1
      <4>3. \A x \in Nat, d \in 0 .. 9 : x <= x * 10 + d
        OBVIOUS
      <4> QED
        BY <2>1, <4>1, <4>2, <4>3, Zenon
    <3>2. CASE text[j] \notin DigitSet
      BY <2>1, <3>2
    <3> QED
      BY <3>1, <3>2
  <2>4. a[j - 1].scale \in Nat
    BY <2>1 DEF Scans
  <2>5. a[j - 1].scale <= a[j].scale
    <3>1. CASE text[j] \notin DigitSet
      <4>1. a[j].scale = a[j - 1].scale
        BY <2>1, <3>1, ScanCharIs
      <4> QED
        BY <2>4, <4>1
    <3>2. CASE text[j] \in DigitSet /\ a[j - 1].dot
      <4>1. a[j].scale = a[j - 1].scale + 1
        BY <2>1, <3>2, ScanCharIs
      <4> QED
        BY <2>4, <4>1
    <3>3. CASE text[j] \in DigitSet /\ ~a[j - 1].dot
      <4>1. a[j].scale = a[j - 1].scale
        BY <2>1, <3>3, ScanCharIs
      <4> QED
        BY <2>4, <4>1
    <3> QED
      BY <3>1, <3>2, <3>3
  <2>6. a[j].scale \in Nat
    <3>1. a[j] \in Scans
      BY Turn
    <3> QED
      BY <3>1 DEF Scans
  <2>7. More(j)
    <3>1. CASE i = j
      BY <1>0, <3>1
    <3>2. CASE i <= j - 1
      BY <1>0, <2>1, <2>2, <2>3, <2>4, <2>5, <2>6, <3>2
    <3>3. CASE i > j
      BY <3>3
    <3> QED
      BY <3>1, <3>2, <3>3
  <2> QED
    BY <2>1, <2>7
<1>3. Good \in SUBSET (0 .. n)
  OBVIOUS
<1>4. \A j \in 0 .. n : j \in Good
  <2> HIDE DEF Good
  <2> QED
    BY <1>0, <1>1, <1>2, <1>3, EveryTurn
<1>5. More(n)
  BY <1>0, <1>4
<1> QED
  BY <1>0, <1>5

\* A well-formed text whose number and whose scale fit is read to its end.
LEMMA WellFormedIsOk ==
    ASSUME NEW S, NEW text \in Seq(S), NEW a, ScansOf(a, text), NEW v, Numbers(v, text),
           WellFormed(text, Len(text)), v[Len(text)] <= MaxInt, Pow10(a[Len(text)].scale) <= MaxInt
    PROVE  \A i \in 0 .. Len(text) : a[i].ok
<1> DEFINE n == Len(text)
           Good == {i \in 0 .. n : a[i].ok}
<1>0. n \in Nat /\ MaxInt \in Nat /\ v[n] \in Nat /\ a[n].scale \in Nat
  BY PayloadAssumption DEF Numbers, ScansOf, Scans
<1>1. 0 \in Good
  <2>1. a[0] = Unread
    BY DEF ScansOf
  <2>2. a[0].ok
    BY <2>1 DEF Unread
  <2> QED
    BY <1>0, <2>2
<1>2. ASSUME NEW i \in 1 .. n, i - 1 \in Good PROVE i \in Good
  <2>1. /\ i \in 0 .. n /\ i - 1 \in 0 .. n /\ a[i - 1] \in Scans /\ a[i] \in Scans
        /\ a[i] = ScanChar(a[i - 1], text[i]) /\ v[i] \in Nat
    BY Turn
  <2>2. a[i - 1].ok
    BY <1>2
  <2>s. a[i].int \in Nat /\ a[i].frac \in Nat /\ a[i].scale \in Nat
    BY <2>1 DEF Scans
  <2>3. v[i] <= v[n] /\ a[i].scale <= a[n].scale
    BY <2>1, ReadingOn
  <2>4. Pow10(a[i].scale) \in Nat /\ Pow10(a[n].scale) \in Nat /\ Pow10(a[i].scale) <= Pow10(a[n].scale)
    BY <1>0, <2>s, <2>3, PowersGrow, PowerStep
  <2>5. v[i] = a[i].int * Pow10(a[i].scale) + a[i].frac /\ a[i].frac < Pow10(a[i].scale)
    BY <2>1, PartsMakeTheNumber DEF PartsMake
  <2>6. a[i].frac <= MaxInt
    BY <1>0, <2>s, <2>4, <2>5
  <2>7. CASE text[i] = "."
    <3>1. \A k \in 1 .. i - 1 : text[k] # "."
      <4> SUFFICES ASSUME NEW k \in 1 .. i - 1, text[k] = "." PROVE FALSE
        OBVIOUS
      <4>1. k \in 1 .. n /\ k # i
        BY <1>0
      <4> QED
        BY <2>7, <4>1 DEF WellFormed
    <3>2. ~a[i - 1].dot
      BY <2>1, <3>1, DotSeen
    <3>3. a[i].ok
      BY <2>1, <2>2, <2>7, <3>2, ScanCharIs
    <3> QED
      BY <2>1, <3>3
  <2>8. CASE text[i] \in DigitSet /\ a[i - 1].dot
    <3>1. a[i].frac = a[i - 1].frac * 10 + DigitOf(text[i])
      BY <2>1, <2>8, ScanCharIs
    <3>2. a[i - 1].frac * 10 + DigitOf(text[i]) <= MaxInt
      BY <2>6, <3>1
    <3>3. a[i].ok
      BY <2>1, <2>2, <2>8, <3>2, ScanCharIs
    <3> QED
      BY <2>1, <3>3
  <2>9. CASE text[i] \in DigitSet /\ ~a[i - 1].dot
    <3>0. text[i] # "."
      BY <2>9, DigitValues
    <3>1. a[i].int = a[i - 1].int * 10 + DigitOf(text[i])
      BY <2>1, <2>9, ScanCharIs
    <3>2. ~a[i].dot
      BY <2>1, <2>9, <3>0, ScanCharIs
    <3>3. a[i].scale = 0 /\ a[i].frac = 0
      BY <2>1, <3>2, PartsMakeTheNumber DEF PartsMake
    <3>4. Pow10(a[i].scale) = 1
      BY <3>3, PowerStep
    <3>5. a[i].int <= MaxInt
      BY <1>0, <2>1, <2>s, <2>3, <2>5, <3>3, <3>4
    <3>6. a[i - 1].int * 10 + DigitOf(text[i]) <= MaxInt
      BY <3>1, <3>5
    <3>7. a[i].ok
      BY <2>1, <2>2, <2>9, <3>6, ScanCharIs
    <3> QED
      BY <2>1, <3>7
  <2> QED
    BY <2>7, <2>8, <2>9 DEF WellFormed
<1>3. Good \in SUBSET (0 .. n)
  OBVIOUS
<1>4. \A i \in 0 .. n : i \in Good
  <2> HIDE DEF Good
  <2> QED
    BY <1>0, <1>1, <1>2, <1>3, EveryTurn
<1> QED
  BY <1>4

\* How many characters of a text are behind its first dot.
DigitsBehind(text) == IF Dots(text) = {} THEN 0 ELSE Len(text) - Min(Dots(text))

\* What is left of the loop: its parts make the number, it is ok for well-formed texts
\* only, and for all of them whose number and scale fit.
LEMMA ScannedText ==
    ASSUME NEW S, NEW text \in Seq(S), NEW s, s = Scanned(text)
    PROVE  /\ s \in Scans /\ Number(text) \in Nat /\ PartsMake(s, Number(text))
           /\ s.ok => WellFormed(text, Len(text)) /\ s.int <= MaxInt
           /\ WellFormed(text, Len(text)) => s.scale = DigitsBehind(text)
           /\ WellFormed(text, Len(text)) /\ Number(text) <= MaxInt /\ Pow10(s.scale) <= MaxInt => s.ok
<1> DEFINE n == Len(text)
<1>0. n \in Nat /\ n \in 0 .. n
  OBVIOUS
<1>1. PICK a : ScansOf(a, text) /\ s = a[n]
  BY ScannedIs
<1>2. PICK v : Numbers(v, text) /\ Number(text) = v[n]
  BY NumberIs
<1>3. s \in Scans /\ Number(text) \in Nat
  BY <1>0, <1>1, <1>2 DEF ScansOf, Numbers
<1>4. PartsMake(s, Number(text))
  BY <1>0, <1>1, <1>2, PartsMakeTheNumber
<1>5. s.ok => WellFormed(text, n) /\ s.int <= MaxInt
  BY <1>0, <1>1, <1>2, OkIsWellFormed
<1>6. ASSUME WellFormed(text, n) PROVE s.scale = DigitsBehind(text)
  <2>1. DOMAIN text = 1 .. n
    OBVIOUS
  <2>2. CASE Dots(text) = {}
    <3>1. \A k \in 1 .. n : text[k] # "."
      BY <2>1, <2>2 DEF Dots
    <3>2. ~s.dot
      BY <1>0, <1>1, <1>2, <3>1, DotSeen
    <3>3. s.scale = 0
      BY <1>4, <3>2 DEF PartsMake
    <3> QED
      BY <2>2, <3>3 DEF DigitsBehind
  <2>3. CASE Dots(text) # {}
    <3>1. PICK k \in 1 .. n : text[k] = "."
      BY <2>1, <2>3 DEF Dots
    <3>2. Dots(text) = {k}
      BY <1>6, <2>1, <3>1 DEF Dots, WellFormed
    <3>3. Min(Dots(text)) = k
      BY <3>2 DEF Min
    <3>4. s.scale = n - k
      BY <1>0, <1>1, <1>2, <1>6, <3>1, ScaleIs
    <3> QED
      BY <2>3, <3>3, <3>4 DEF DigitsBehind
  <2> QED
    BY <2>2, <2>3
<1>7. WellFormed(text, n) /\ Number(text) <= MaxInt /\ Pow10(s.scale) <= MaxInt => s.ok
  BY <1>0, <1>1, <1>2, WellFormedIsOk
<1> QED
  BY <1>3, <1>4, <1>5, <1>6, <1>7

-----------------------------------------------------------------------------
(* parseDecimal.                                                           *)

\* The exact value of a text, part by part.
LEMMA ExactIs ==
    ASSUME NEW S, NEW text \in Seq(S)
    PROVE  /\ Abs(text) \in Seq(S)
           /\ Exact(text).ok <=> text # <<>> /\ WellFormed(Abs(text), Len(Abs(text)))
           /\ Exact(text).int = IF Negative(text) THEN -Number(Abs(text)) ELSE Number(Abs(text))
           /\ Exact(text).scale = DigitsBehind(Abs(text))
<1>1. Abs(text) \in Seq(S)
  BY DEF Abs, Negative
<1>2. DOMAIN Abs(text) = 1 .. Len(Abs(text))
  BY <1>1
<1>3. Exact(text).ok <=> /\ text # <<>>
                         /\ \A i, j \in Dots(Abs(text)) : i = j
                         /\ \A i \in DOMAIN Abs(text) : Abs(text)[i] \in DigitSet \cup {"."}
  BY Zenon DEF Exact
<1>4. WellFormed(Abs(text), Len(Abs(text))) <=>
        /\ \A i, j \in Dots(Abs(text)) : i = j
        /\ \A i \in DOMAIN Abs(text) : Abs(text)[i] \in DigitSet \cup {"."}
  BY <1>2 DEF WellFormed, Dots
<1>5. Exact(text).int = IF Negative(text) THEN -Number(Abs(text)) ELSE Number(Abs(text))
  BY DEF Exact
<1>6. Exact(text).scale = DigitsBehind(Abs(text))
  BY DEF Exact, DigitsBehind
<1> QED
  BY <1>1, <1>3, <1>4, <1>5, <1>6

\* mul stays in range for as many turns as make a power in range.
LEMMA MulFitsIs == ASSUME NEW n \in Nat PROVE MulFits(n) <=> Pow10(n) <= MaxInt
<1>0. MaxInt \in Nat /\ MaxInt >= 1
  BY PayloadAssumption
<1>1. ASSUME NEW k \in Nat PROVE Pow10(k) <= MaxInt \div 10 <=> Pow10(k + 1) <= MaxInt
  <2>1. Pow10(k) \in Nat /\ Pow10(k + 1) = 10 * Pow10(k)
    BY PowerStep
  <2>2. \A p \in Nat : p <= MaxInt \div 10 <=> 10 * p <= MaxInt
    BY <1>0
  <2> QED
    BY <2>1, <2>2
<1>2. ASSUME MulFits(n) PROVE Pow10(n) <= MaxInt
  <2>1. CASE n = 0
    BY <1>0, <2>1, PowerStep
  <2>2. CASE n # 0
    <3>1. n - 1 \in 0 .. n - 1 /\ n - 1 \in Nat /\ (n - 1) + 1 = n
      BY <2>2
    <3>2. Pow10(n - 1) <= MaxInt \div 10
      BY <1>2, <3>1 DEF MulFits
    <3> QED
      BY <1>1, <3>1, <3>2
  <2> QED
    BY <2>1, <2>2
<1>3. ASSUME Pow10(n) <= MaxInt, NEW k \in 0 .. n - 1 PROVE Pow10(k) <= MaxInt \div 10
  <2>1. k \in Nat /\ k + 1 \in Nat /\ k + 1 <= n
    OBVIOUS
  <2>2. Pow10(k + 1) <= Pow10(n) /\ Pow10(k + 1) \in Nat /\ Pow10(n) \in Nat
    BY <2>1, PowersGrow, PowerStep
  <2>3. Pow10(k + 1) <= MaxInt
    BY <1>0, <1>3, <2>2
  <2> QED
    BY <1>1, <2>1, <2>3
<1> QED
  BY <1>2, <1>3 DEF MulFits

\* A number of at most twice maxInt64, taken into int64 and then given its sign, is itself
\* or off by 2^64.
LEMMA WrappedOnce ==
    ASSUME NEW x \in 0 .. 2 * MaxInt, NEW neg \in BOOLEAN,
           NEW y, y = IF neg THEN Wrap(-Wrap(x)) ELSE Wrap(x),
           NEW e, e = IF neg THEN -x ELSE x
    PROVE  /\ y \in Int
           /\ e \in -(MaxInt + 1) .. MaxInt => y = e
           /\ e \notin -(MaxInt + 1) .. MaxInt =>
                 x > MaxInt /\ y - e \in {2 * (MaxInt + 1), -2 * (MaxInt + 1)}
<1>0. MaxInt \in Nat /\ MaxInt >= 1
  BY PayloadAssumption
<1>1. CASE x <= MaxInt
  <2>1. x \in Int /\ x \in -(MaxInt + 1) .. MaxInt /\ -x \in Int /\ -x \in -(MaxInt + 1) .. MaxInt
    BY <1>0, <1>1
  <2>2. Wrap(x) = x /\ Wrap(-x) = -x
    BY <2>1, Wrapped
  <2>3. y = e
    BY <2>2
  <2>4. e \in -(MaxInt + 1) .. MaxInt /\ e \in Int
    BY <2>1
  <2> QED
    BY <2>3, <2>4
<1>2. CASE x > MaxInt
  <2> DEFINE m == 2 * (MaxInt + 1)
             w == x - m
  <2>1. x \in Int /\ x \in MaxInt + 1 .. 2 * MaxInt
    BY <1>0, <1>2
  <2>2. Wrap(x) = w
    BY <2>1, Wrapped
  <2>3. w \in Int /\ -w \in Int /\ -w \in 2 .. MaxInt + 1
    BY <1>0, <2>1
  <2>4. CASE ~neg
    <3>1. y = w /\ e = x
      BY <2>2, <2>4
    <3>2. e \notin -(MaxInt + 1) .. MaxInt /\ y - e = -2 * (MaxInt + 1)
      BY <1>0, <2>1, <3>1
    <3> QED
      BY <1>2, <2>3, <3>1, <3>2
  <2>5. CASE neg /\ -w <= MaxInt
    <3>1. -w \in -(MaxInt + 1) .. MaxInt
      BY <1>0, <2>3, <2>5
    <3>2. Wrap(-w) = -w
      BY <2>3, <3>1, Wrapped
    <3>3. y = -w /\ e = -x
      BY <2>2, <2>5, <3>2
    <3>4. e \notin -(MaxInt + 1) .. MaxInt /\ y - e = 2 * (MaxInt + 1)
      BY <1>0, <2>1, <2>5, <3>3
    <3> QED
      BY <1>2, <2>3, <3>3, <3>4
  <2>6. CASE neg /\ -w = MaxInt + 1
    <3>1. -w \in MaxInt + 1 .. 2 * MaxInt
      BY <1>0, <2>3, <2>6
    <3>2. Wrap(-w) = -w - m
      BY <2>3, <3>1, Wrapped
    <3>3. y = -w - m /\ e = -x
      BY <2>2, <2>6, <3>2
    <3>4. y = e /\ e = -(MaxInt + 1)
      BY <1>0, <2>1, <2>6, <3>3
    <3> QED
      BY <1>0, <3>4
  <2> QED
    BY <1>0, <2>3, <2>4, <2>5, <2>6
<1> QED
  BY <1>0, <1>1, <1>2

\* Fits bounds the product, and with it the power.
LEMMA FitsIs ==
    ASSUME NEW n \in Nat, NEW int \in Nat
    PROVE  Fits(int, n) <=> Pow10(n) <= MaxInt /\ int * Pow10(n) <= MaxInt
<1>0. MaxInt \in Nat /\ Pow10(n) \in Nat /\ Pow10(n) > 0
  BY PayloadAssumption, PowerStep
<1>1. int <= MaxInt \div Pow10(n) <=> int * Pow10(n) <= MaxInt
  BY <1>0, Quotient
<1>2. MulFits(n) <=> Pow10(n) <= MaxInt
  BY MulFitsIs
<1> QED
  BY <1>1, <1>2, Zenon DEF Fits

\* The decimal made of the two parts is the number they make, modulo 2^64.
LEMMA CombineIs ==
    ASSUME NEW s \in Scans, NEW neg \in BOOLEAN, NEW x \in Nat, PartsMake(s, x),
           s.ok => s.int <= MaxInt, NEW d, d = Combine(s, neg)
    PROVE  /\ d.ok <=> s.ok /\ (s.scale > 0 => Fits(s.int, s.scale))
           /\ d.ok => /\ d.scale = s.scale
                      /\ d.int = IF neg THEN Wrap(-Wrap(x)) ELSE Wrap(x)
                      /\ x <= 2 * MaxInt
                      /\ x > MaxInt => s.scale > 0
<1>0. MaxInt \in Nat /\ MaxInt >= 1
  BY PayloadAssumption
<1>s. s.int \in Nat /\ s.frac \in Nat /\ s.scale \in Nat
  BY DEF Scans
<1> DEFINE p == Pow10(s.scale)
           fit == s.ok /\ (s.scale > 0 => Fits(s.int, s.scale))
           value == IF s.scale = 0 THEN s.int ELSE Wrap(s.int * p + s.frac)
<1>p. p \in Nat /\ p > 0
  BY <1>s, PowerStep
<1>x. x = s.int * p + s.frac /\ s.frac < p
  BY DEF PartsMake
<1>1. d = IF fit THEN [ok |-> TRUE, int |-> IF neg THEN Wrap(-value) ELSE value, scale |-> s.scale]
          ELSE BadDecimal
  BY DEF Combine
<1> HIDE DEF p, fit, value
<1>2. d.ok <=> fit
  BY <1>1 DEF BadDecimal
<1>3. ASSUME fit PROVE /\ value = Wrap(x) /\ x <= 2 * MaxInt /\ (x > MaxInt => s.scale > 0)
  <2>1. CASE s.scale = 0
    <3>1. p = 1
      BY <2>1, PowerStep DEF p
    <3>2. s.frac = 0 /\ x = s.int
      BY <1>s, <1>x, <3>1
    <3>3. x <= MaxInt
      BY <1>3, <3>2 DEF fit
    <3>4. x \in Int /\ x \in -(MaxInt + 1) .. MaxInt
      BY <1>0, <3>3
    <3>5. Wrap(x) = x
      BY <3>4, Wrapped
    <3>6. value = s.int
      BY <2>1 DEF value
    <3> QED
      BY <1>0, <3>2, <3>3, <3>5, <3>6
  <2>2. CASE s.scale # 0
    <3>1. s.scale > 0
      BY <1>s, <2>2
    <3>2. p <= MaxInt /\ s.int * p <= MaxInt
      BY <1>3, <1>s, <3>1, FitsIs DEF fit, p
    <3>3. s.int * p \in Nat
      BY <1>s, <1>p
    <3>4. x <= 2 * MaxInt
      BY <1>0, <1>s, <1>p, <1>x, <3>2, <3>3
    <3>5. value = Wrap(x)
      BY <1>x, <2>2 DEF value
    <3> QED
      BY <3>1, <3>4, <3>5
  <2> QED
    BY <2>1, <2>2
<1>4. ASSUME fit PROVE d.scale = s.scale /\ d.int = IF neg THEN Wrap(-value) ELSE value
  BY <1>1, <1>4
<1> QED
  BY <1>2, <1>3, <1>4, Zenon DEF fit

\* What parseDecimal (payload.go, both packages) makes of a text is its value: the digits
\* and the number of those behind the dot, for every text and every maxInt64.  It fails on
\* any text that is no decimal, and only where intPart*mul is in range and the sum with
\* fracPart is not can it be off, by 2^64.
THEOREM DecimalsAreFaithful ==
    ASSUME NEW S, NEW text \in Seq(S), parseDecimal(text).ok
    PROVE  DecimalFaithful(parseDecimal(text), text)
<1> DEFINE body == Abs(text)
           neg == Negative(text)
           x == Number(body)
           d == parseDecimal(text)
           e == Exact(text)
<1>0. MaxInt \in Nat /\ MaxInt >= 1
  BY PayloadAssumption
<1>1. text # <<>>
  BY DEF parseDecimal, BadDecimal
<1>2. PICK s : s = Scanned(body)
  OBVIOUS
<1>3. d = Combine(s, neg)
  BY <1>1, <1>2 DEF parseDecimal
<1>4. neg \in BOOLEAN
  BY DEF Negative
<1>5. /\ body \in Seq(S)
      /\ e.ok <=> text # <<>> /\ WellFormed(body, Len(body))
      /\ e.int = IF neg THEN -x ELSE x
      /\ e.scale = DigitsBehind(body)
  BY ExactIs
<1>d. d.ok
  OBVIOUS
<1> HIDE DEF body, neg, x, e, d
<1>6. /\ s \in Scans /\ x \in Nat /\ PartsMake(s, x)
      /\ s.ok => WellFormed(body, Len(body)) /\ s.int <= MaxInt
      /\ WellFormed(body, Len(body)) => s.scale = DigitsBehind(body)
  BY <1>2, <1>5, ScannedText DEF x
<1>7. /\ d.ok <=> s.ok /\ (s.scale > 0 => Fits(s.int, s.scale))
      /\ d.ok => /\ d.scale = s.scale
                 /\ d.int = IF neg THEN Wrap(-Wrap(x)) ELSE Wrap(x)
                 /\ x <= 2 * MaxInt
                 /\ x > MaxInt => s.scale > 0
  BY <1>3, <1>4, <1>6, CombineIs
<1>8. e.ok /\ d.scale = e.scale /\ e.scale = s.scale
  BY <1>1, <1>5, <1>6, <1>7, <1>d
<1>9. x \in 0 .. 2 * MaxInt
  BY <1>0, <1>6, <1>7, <1>d
<1>10. /\ e.int \in -(MaxInt + 1) .. MaxInt => d.int = e.int
       /\ e.int \notin -(MaxInt + 1) .. MaxInt =>
             x > MaxInt /\ d.int - e.int \in {2 * (MaxInt + 1), -2 * (MaxInt + 1)}
  <2>1. d.int = IF neg THEN Wrap(-Wrap(x)) ELSE Wrap(x)
    BY <1>7, <1>d
  <2> QED
    BY <1>4, <1>5, <1>9, <2>1, WrappedOnce
<1>11. /\ InRange(e) => d.int = e.int
       /\ ~InRange(e) => e.scale > 0 /\ d.int - e.int \in {2 * (MaxInt + 1), -2 * (MaxInt + 1)}
  <2>1. x > MaxInt => e.scale > 0
    BY <1>7, <1>8, <1>d
  <2> QED
    BY <1>10, <2>1, Zenon DEF InRange
<1>12. DecimalFaithful(d, text)
  BY <1>8, <1>11, Zenon DEF DecimalFaithful, e
<1> QED
  BY <1>12 DEF d

\* Every decimal that int64 can hold, with a power of its scale that int64 can hold as well,
\* is parsed, and to that decimal: no level of a book and no order is refused for a number
\* there is room for (parseDecimal, payload.go of both packages).
THEOREM RepresentableIsParsed ==
    ASSUME NEW S, NEW text \in Seq(S), Representable(text)
    PROVE  /\ parseDecimal(text).ok
           /\ parseDecimal(text).int = Exact(text).int /\ parseDecimal(text).scale = Exact(text).scale
<1> DEFINE body == Abs(text)
           neg == Negative(text)
           x == Number(body)
           d == parseDecimal(text)
           e == Exact(text)
<1>0. MaxInt \in Nat /\ MaxInt >= 1
  BY PayloadAssumption
<1>1. e.ok /\ e.int \in -MaxInt .. MaxInt /\ Pow10(e.scale) <= MaxInt
  BY DEF Representable
<1>2. /\ body \in Seq(S)
      /\ e.ok <=> text # <<>> /\ WellFormed(body, Len(body))
      /\ e.int = IF neg THEN -x ELSE x
      /\ e.scale = DigitsBehind(body)
  BY ExactIs
<1>3. PICK s : s = Scanned(body)
  OBVIOUS
<1>4. d = Combine(s, neg)
  BY <1>1, <1>2, <1>3 DEF parseDecimal
<1>5. neg \in BOOLEAN
  BY DEF Negative
<1>d. /\ d.ok => DecimalFaithful(d, text)
      /\ d = parseDecimal(text) /\ e = Exact(text)
  BY DecimalsAreFaithful
<1> HIDE DEF body, neg, x, e, d
<1>6. /\ s \in Scans /\ x \in Nat /\ PartsMake(s, x)
      /\ s.ok => WellFormed(body, Len(body)) /\ s.int <= MaxInt
      /\ WellFormed(body, Len(body)) => s.scale = DigitsBehind(body)
      /\ WellFormed(body, Len(body)) /\ x <= MaxInt /\ Pow10(s.scale) <= MaxInt => s.ok
  BY <1>2, <1>3, ScannedText DEF x
<1>7. x <= MaxInt
  BY <1>0, <1>1, <1>2, <1>5, <1>6
<1>8. s.ok /\ s.scale = e.scale
  BY <1>1, <1>2, <1>6, <1>7
<1>9. Fits(s.int, s.scale)
  <2>1. s.int \in Nat /\ s.frac \in Nat /\ s.scale \in Nat
    BY <1>6 DEF Scans
  <2>2. Pow10(s.scale) \in Nat
    BY <2>1, PowerStep
  <2>3. x = s.int * Pow10(s.scale) + s.frac
    BY <1>6 DEF PartsMake
  <2>4. s.int * Pow10(s.scale) \in Nat
    BY <2>1, <2>2
  <2>5. s.int * Pow10(s.scale) <= MaxInt
    BY <1>0, <1>6, <1>7, <2>1, <2>3, <2>4
  <2> QED
    BY <1>1, <1>8, <2>1, <2>5, FitsIs
<1>10. d.ok
  BY <1>4, <1>5, <1>6, <1>8, <1>9, CombineIs
<1>11. InRange(e)
  BY <1>0, <1>1 DEF InRange
<1>12. d.int = e.int /\ d.scale = e.scale
  BY <1>d, <1>10, <1>11, Zenon DEF DecimalFaithful
<1> QED
  BY <1>d, <1>10, <1>12, Zenon

-----------------------------------------------------------------------------
(* decimalSub.                                                             *)

\* The exact value and scale of a decimal are numbers.
LEMMA ExactNumbers ==
    ASSUME NEW S, NEW text \in Seq(S), Exact(text).ok
    PROVE  Exact(text).int \in Int /\ Exact(text).scale \in Nat
<1>1. /\ Abs(text) \in Seq(S)
      /\ WellFormed(Abs(text), Len(Abs(text)))
      /\ Exact(text).int = IF Negative(text) THEN -Number(Abs(text)) ELSE Number(Abs(text))
      /\ Exact(text).scale = DigitsBehind(Abs(text))
  BY ExactIs
<1>2. PICK s : s = Scanned(Abs(text))
  OBVIOUS
<1>3. /\ s \in Scans /\ Number(Abs(text)) \in Nat
      /\ WellFormed(Abs(text), Len(Abs(text))) => s.scale = DigitsBehind(Abs(text))
  BY <1>1, <1>2, ScannedText
<1>4. s.scale \in Nat
  BY <1>3 DEF Scans
<1> QED
  BY <1>1, <1>3, <1>4

\* Taken to a larger scale whose power is in range, a decimal is the product, if that is
\* in range.
LEMMA RescaledIs ==
    ASSUME NEW d, d.int \in Int, d.scale \in Nat, NEW scale \in Nat, d.scale <= scale,
           Pow10(scale - d.scale) <= MaxInt, NEW x, x = d.int * Pow10(scale - d.scale),
           NEW r, r = rescaleDecimal(d, scale)
    PROVE  /\ r.ok <=> x \in -MaxInt .. MaxInt
           /\ r.ok => r.int = x
<1> DEFINE n == scale - d.scale
           p == Pow10(n)
           ok == n >= 0 /\ MulFits(n) /\ d.int \in -(MaxInt \div p) .. MaxInt \div p
<1>0. MaxInt \in Nat /\ n \in Nat
  BY PayloadAssumption
<1>1. p \in Nat /\ p > 0 /\ p <= MaxInt /\ MulFits(n)
  BY <1>0, PowerStep, MulFitsIs
<1>2. r = [ok |-> ok, int |-> IF ok THEN d.int * p ELSE 0]
  BY DEF rescaleDecimal
<1>3. ok <=> x \in -MaxInt .. MaxInt
  <2>1. /\ MaxInt \div p \in Nat
        /\ d.int <= MaxInt \div p <=> d.int * p <= MaxInt
        /\ -(MaxInt \div p) <= d.int <=> -MaxInt <= d.int * p
    BY <1>0, <1>1, Quotient
  <2>2. x = d.int * p /\ x \in Int /\ d.int \in Int
    BY <1>1
  <2>3. d.int \in -(MaxInt \div p) .. MaxInt \div p <=> x \in -MaxInt .. MaxInt
    BY <1>0, <2>1, <2>2
  <2> QED
    BY <1>0, <1>1, <2>3
<1>x. x = d.int * p
  OBVIOUS
<1> HIDE DEF ok, p, n
<1>4. r.ok <=> ok
  BY <1>2
<1>5. ok => r.int = x
  BY <1>2, <1>x
<1> QED
  BY <1>3, <1>4, <1>5

\* The larger of two scales.
LEMMA LargerOf ==
    ASSUME NEW m \in Nat, NEW n \in Nat, NEW k, k = Max({m, n})
    PROVE  k \in Nat /\ m <= k /\ n <= k /\ (k = m \/ k = n)
<1>1. \E x \in {m, n} : \A y \in {m, n} : x >= y
  OBVIOUS
<1>2. k \in {m, n} /\ \A y \in {m, n} : k >= y
  BY <1>1 DEF Max
<1> QED
  BY <1>2

\* Of two scales in range, what either lacks to the larger is in range as well.
LEMMA Lacking ==
    ASSUME NEW m \in Nat, NEW n \in Nat, NEW k, k = Max({m, n}),
           Pow10(m) <= MaxInt, Pow10(n) <= MaxInt
    PROVE  k - m \in Nat /\ Pow10(k - m) <= MaxInt
<1>1. k \in Nat /\ m <= k /\ n <= k /\ (k = m \/ k = n)
  BY LargerOf
<1>2. k - m \in Nat /\ k - m <= k
  BY <1>1
<1>3. Pow10(k) <= MaxInt
  BY <1>1
<1>4. Pow10(k - m) <= Pow10(k) /\ Pow10(k - m) \in Nat /\ Pow10(k) \in Nat
  BY <1>1, <1>2, PowersGrow, PowerStep
<1>5. MaxInt \in Nat
  BY PayloadAssumption
<1> QED
  BY <1>2, <1>3, <1>4, <1>5

\* What is left of an order (decodeBinanceOrder and decodeBtccOrder, payload.go) is its
\* quantity less its fill, or zero when one of them is out of range at the larger of their
\* scales: for every two decimals that int64 can hold, of any scales, with
\* 0 <= fill <= quantity.
THEOREM LeftIsExact ==
    ASSUME NEW S, NEW qty \in Seq(S), NEW cum \in Seq(S), NEW i
    PROVE  LeftFaithful(Left(parseDecimal(qty), Found(cum, i)), qty, cum)
<1> DEFINE q == Exact(qty)
           c == Exact(cum)
           scale == Max({q.scale, c.scale})
           x == q.int * Pow10(scale - q.scale)
           y == c.int * Pow10(scale - c.scale)
           left == Left(parseDecimal(qty), Found(cum, i))
<1> SUFFICES ASSUME Representable(qty), Representable(cum), 0 <= y, y <= x
             PROVE  left.scale = scale /\ left.int = IF x <= MaxInt /\ y <= MaxInt THEN x - y ELSE 0
  BY Zenon DEF LeftFaithful
<1>0. MaxInt \in Nat
  BY PayloadAssumption
<1>1. PICK a, b : a = parseDecimal(qty) /\ b = parseDecimal(cum)
  OBVIOUS
<1>2. a.int = q.int /\ a.scale = q.scale /\ b.int = c.int /\ b.scale = c.scale
  BY <1>1, RepresentableIsParsed
<1>3. /\ q.int \in Int /\ q.scale \in Nat /\ Pow10(q.scale) <= MaxInt
      /\ c.int \in Int /\ c.scale \in Nat /\ Pow10(c.scale) <= MaxInt
  BY ExactNumbers DEF Representable
<1>4. left = decimalSub(a, b)
  BY <1>1, Zenon DEF Left, Found
<1> HIDE DEF q, c, left
<1>5. scale \in Nat /\ q.scale <= scale /\ c.scale <= scale
  BY <1>3, LargerOf
<1>6. /\ scale - q.scale \in Nat /\ Pow10(scale - q.scale) <= MaxInt
      /\ scale - c.scale \in Nat /\ Pow10(scale - c.scale) <= MaxInt
  <2>1. scale - q.scale \in Nat /\ Pow10(scale - q.scale) <= MaxInt
    BY <1>3, Lacking
  <2>2. {q.scale, c.scale} = {c.scale, q.scale}
    OBVIOUS
  <2>3. scale - c.scale \in Nat /\ Pow10(scale - c.scale) <= MaxInt
    BY <1>3, <2>2, Lacking
  <2> QED
    BY <2>1, <2>3
<1>7. PICK ai, bi : ai = rescaleDecimal(a, scale) /\ bi = rescaleDecimal(b, scale)
  OBVIOUS
<1>8. left = [ok |-> TRUE, scale |-> scale, int |-> IF ai.ok /\ bi.ok THEN Wrap(ai.int - bi.int) ELSE 0]
  BY <1>2, <1>4, <1>7, Zenon DEF decimalSub
<1>9. x \in Int /\ y \in Int
  <2>1. Pow10(scale - q.scale) \in Nat /\ Pow10(scale - c.scale) \in Nat
    BY <1>6, PowerStep
  <2> HIDE DEF scale
  <2> QED
    BY <1>3, <2>1
<1>10. x = a.int * Pow10(scale - a.scale) /\ y = b.int * Pow10(scale - b.scale)
  BY <1>2, Zenon
<1> HIDE DEF scale, x, y
<1>11. (ai.ok <=> x \in -MaxInt .. MaxInt) /\ (ai.ok => ai.int = x)
  <2>1. a.int \in Int /\ a.scale \in Nat /\ a.scale <= scale /\ Pow10(scale - a.scale) <= MaxInt
    BY <1>2, <1>3, <1>5, <1>6
  <2> QED
    BY <1>5, <1>7, <1>10, <2>1, RescaledIs, Zenon
<1>12. (bi.ok <=> y \in -MaxInt .. MaxInt) /\ (bi.ok => bi.int = y)
  <2>1. b.int \in Int /\ b.scale \in Nat /\ b.scale <= scale /\ Pow10(scale - b.scale) <= MaxInt
    BY <1>2, <1>3, <1>5, <1>6
  <2> QED
    BY <1>5, <1>7, <1>10, <2>1, RescaledIs, Zenon
<1>13. ai.ok /\ bi.ok <=> x <= MaxInt /\ y <= MaxInt
  BY <1>0, <1>9, <1>11, <1>12
<1>14. ASSUME x <= MaxInt /\ y <= MaxInt PROVE Wrap(ai.int - bi.int) = x - y
  <2>1. ai.int - bi.int = x - y
    BY <1>11, <1>12, <1>13, <1>14
  <2>2. x - y \in Int /\ x - y \in -(MaxInt + 1) .. MaxInt
    BY <1>0, <1>9, <1>14
  <2>3. Wrap(x - y) = x - y
    BY <2>2, Wrapped
  <2> QED
    BY <2>1, <2>3, Zenon
<1>15. left.scale = scale /\ left.int = IF ai.ok /\ bi.ok THEN Wrap(ai.int - bi.int) ELSE 0
  BY <1>8
<1> QED
  BY <1>13, <1>14, <1>15, Zenon

================================================================================
