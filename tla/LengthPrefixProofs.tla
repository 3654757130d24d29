-------------------------- MODULE LengthPrefixProofs --------------------------
(***************************************************************************)
(* Proofs about LengthPrefix: for any fields, lengths, number of items and *)
(* base of the varints, and wherever the stream ends, a prefix is read     *)
(* only where one was written, a call returns the first item that was      *)
(* asked for, and bytesRead is how far the stream has moved.               *)
(***************************************************************************)
EXTENDS LengthPrefix, SequenceTheorems, FiniteSetTheorems, WellFoundedInduction, TLAPS

-----------------------------------------------------------------------------
(* Induction, over a set of naturals, and recursive functions.             *)

LEMMA LeastOf ==
  ASSUME NEW T, T \subseteq Nat, T # {}
  PROVE  \E x \in T : \A y \in T : x <= y
<1>1. PICK R : R = OpToRel(<, Nat)
  OBVIOUS
<1>2. IsWellFoundedOn(R, Nat)
  BY <1>1, NatLessThanWellFounded, Zenon
<1>3. PICK x \in T : \A y \in T : ~(<<y, x>> \in R)
  BY <1>2, WFMin
<1>4. \A y \in T : ~(y < x)
  BY <1>1, <1>3 DEF OpToRel
<1>5. QED
  BY <1>4

LEMMA NatSets ==
  ASSUME NEW S, 0 \in S, \A n \in Nat : n \in S => n + 1 \in S
  PROVE  Nat \subseteq S
<1>1. SUFFICES ASSUME Nat \ S # {} PROVE FALSE
  OBVIOUS
<1>2. PICK T : T = Nat \ S
  OBVIOUS
<1>3. PICK x \in T : \A y \in T : x <= y
  <2>1. T \subseteq Nat /\ T # {}
    BY <1>1, <1>2
  <2>2. QED
    BY <2>1, LeastOf
<1>4. x # 0 /\ x \in Nat
  BY <1>2
<1>5. x - 1 \in T
  BY <1>2, <1>4
<1>6. QED
  BY <1>3, <1>4, <1>5

\* The powers up to one.
IsPowers(f, n) == f = [i \in 0 .. n |-> IF i = 0 THEN 1 ELSE Base * f[i - 1]]

LEMMA PowersAt ==
  ASSUME NEW n \in Nat, NEW f, IsPowers(f, n), NEW i \in 0 .. n
  PROVE  f[i] = IF i = 0 THEN 1 ELSE Base * f[i - 1]
<1>1. f = [j \in 0 .. n |-> IF j = 0 THEN 1 ELSE Base * f[j - 1]]
  BY DEF IsPowers
<1>2. QED
  BY <1>1

LEMMA PowersExist ==
  ASSUME NEW m \in Nat
  PROVE  \E f : IsPowers(f, m)
<1>1. PICK S : S = {n \in Nat : \E f : IsPowers(f, n)}
  OBVIOUS
<1>2. 0 \in S
  <2>1. [i \in 0 .. 0 |-> 1] = [i \in 0 .. 0 |-> IF i = 0 THEN 1
                                                 ELSE Base * [j \in 0 .. 0 |-> 1][i - 1]]
    OBVIOUS
  <2>2. IsPowers([i \in 0 .. 0 |-> 1], 0)
    BY <2>1 DEF IsPowers
  <2>3. QED
    BY <1>1, <2>2
<1>3. ASSUME NEW n \in Nat, n \in S PROVE n + 1 \in S
  <2>1. PICK f : IsPowers(f, n)
    BY <1>1, <1>3
  <2>2. PICK g : g = [i \in 0 .. n + 1 |-> IF i \in 0 .. n THEN f[i] ELSE Base * f[n]]
    OBVIOUS
  <2>3. ASSUME NEW i \in 0 .. n + 1
        PROVE  g[i] = IF i = 0 THEN 1 ELSE Base * g[i - 1]
    <3>1. CASE i \in 0 .. n
      <4>1. g[i] = f[i] /\ f[i] = IF i = 0 THEN 1 ELSE Base * f[i - 1]
        BY <2>1, <2>2, <3>1, PowersAt
      <4>2. i # 0 => g[i - 1] = f[i - 1]
        BY <2>2, <3>1
      <4>3. QED
        BY <4>1, <4>2
    <3>2. CASE i \notin 0 .. n
      <4>1. i = n + 1 /\ i # 0 /\ i - 1 = n /\ i - 1 \in 0 .. n
        BY <3>2
      <4>2. g[i] = Base * f[n] /\ g[i - 1] = f[n]
        BY <2>2, <3>2, <4>1
      <4>3. QED
        BY <4>1, <4>2
    <3>3. QED
      BY <3>1, <3>2
  <2>4. IsPowers(g, n + 1)
    <3>1. g = [i \in 0 .. n + 1 |-> g[i]]
      BY <2>2
    <3>2. QED
      BY <2>3, <3>1 DEF IsPowers
  <2>5. n + 1 \in Nat
    OBVIOUS
  <2>6. QED
    BY <1>1, <2>4, <2>5
<1>4. Nat \subseteq S
  BY <1>2, <1>3, NatSets
<1>5. QED
  BY <1>1, <1>4

LEMMA PowersAgree ==
  ASSUME NEW m \in Nat, NEW n \in Nat, NEW f, NEW g, IsPowers(f, m), IsPowers(g, n),
         NEW k \in Nat, k <= m, k <= n
  PROVE  f[k] = g[k]
<1>1. PICK S : S = {i \in Nat : i <= k => f[i] = g[i]}
  OBVIOUS
<1>2. 0 \in S
  <2>1. 0 \in 0 .. m /\ 0 \in 0 .. n
    OBVIOUS
  <2>2. f[0] = 1 /\ g[0] = 1
    BY <2>1, PowersAt
  <2>3. QED
    BY <1>1, <2>2
<1>3. ASSUME NEW i \in Nat, i \in S PROVE i + 1 \in S
  <2>1. SUFFICES ASSUME i + 1 <= k PROVE f[i + 1] = g[i + 1]
    BY <1>1
  <2>2. PICK h \in Nat : h = i + 1 /\ h - 1 = i /\ h # 0
    OBVIOUS
  <2>3. h \in 0 .. m /\ h \in 0 .. n /\ i <= k
    BY <2>1, <2>2
  <2>4. f[h] = Base * f[i] /\ g[h] = Base * g[i]
    BY <2>2, <2>3, PowersAt
  <2>5. f[i] = g[i]
    BY <1>1, <1>3, <2>3
  <2>6. QED
    BY <2>2, <2>4, <2>5
<1>4. Nat \subseteq S
  BY <1>2, <1>3, NatSets
<1>5. QED
  BY <1>1, <1>4

\* Power is what its recursion says.
LEMMA PowerIs ==
  /\ Power[0] = 1
  /\ \A k \in Nat : Power[k + 1] = Base * Power[k]
<1> DEFINE Is(p) == p = [k \in Nat |-> IF k = 0 THEN 1 ELSE Base * p[k - 1]]
<1>1. PICK p : p = [k \in Nat |-> (CHOOSE f : IsPowers(f, k))[k]]
  OBVIOUS
<1>2. ASSUME NEW k \in Nat PROVE p[k] = IF k = 0 THEN 1 ELSE Base * p[k - 1]
  <2>1. PICK f : f = CHOOSE g : IsPowers(g, k)
    OBVIOUS
  <2>2. IsPowers(f, k) /\ p[k] = f[k]
    BY <1>1, <2>1, PowersExist
  <2>3. k \in 0 .. k
    OBVIOUS
  <2>4. f[k] = IF k = 0 THEN 1 ELSE Base * f[k - 1]
    BY <2>2, <2>3, PowersAt
  <2>5. CASE k = 0
    BY <2>2, <2>4, <2>5
  <2>6. CASE k # 0
    <3>1. PICK j \in Nat : j = k - 1 /\ j <= k
      BY <2>6
    <3>2. PICK h : h = CHOOSE g : IsPowers(g, j)
      OBVIOUS
    <3>3. IsPowers(h, j) /\ p[j] = h[j]
      BY <1>1, <3>2, PowersExist
    <3>4. j <= j
      OBVIOUS
    <3>5. f[j] = h[j]
      BY <2>2, <3>1, <3>3, <3>4, PowersAgree
    <3>6. QED
      BY <2>2, <2>4, <2>6, <3>1, <3>3, <3>5
  <2>7. QED
    BY <2>5, <2>6
<1>3. Is(p)
  <2>1. p = [k \in Nat |-> p[k]]
    BY <1>1
  <2>2. QED
    BY <1>2, <2>1
<1>4. Is(CHOOSE q : Is(q))
  <2> HIDE DEF Is
  <2>1. QED
    BY <1>3
<1>5. Power = CHOOSE q : Is(q)
  BY Zenon DEF Power
<1>6. Is(Power)
  <2> HIDE DEF Is
  <2>1. QED
    BY <1>4, <1>5
<1>7. Power[0] = 1
  BY <1>6
<1>8. ASSUME NEW k \in Nat PROVE Power[k + 1] = Base * Power[k]
  <2>1. PICK h \in Nat : h = k + 1 /\ h - 1 = k /\ h # 0
    OBVIOUS
  <2>2. Power[h] = Base * Power[h - 1]
    BY <1>6, <2>1
  <2>3. QED
    BY <2>1, <2>2
<1>9. QED
  BY <1>7, <1>8

LEMMA PowerType == \A k \in Nat : Power[k] \in Nat \ {0}
<1>1. PICK S : S = {k \in Nat : Power[k] \in Nat \ {0}}
  OBVIOUS
<1>2. 0 \in S
  BY <1>1, PowerIs
<1>3. ASSUME NEW k \in Nat, k \in S PROVE k + 1 \in S
  <2>1. PICK p \in Nat \ {0} : p = Power[k]
    BY <1>1, <1>3
  <2>2. Base \in Nat \ {0}
    BY WireAssumption
  <2>3. Base * p \in Nat \ {0}
    BY <2>1, <2>2
  <2>4. QED
    BY <1>1, <2>1, <2>3, PowerIs
<1>4. QED
  BY <1>1, <1>2, <1>3, NatSets

LEMMA PowerGrows ==
  ASSUME NEW k \in Nat
  PROVE  \A j \in Nat : Power[k] <= Power[k + j]
<1>1. PICK S : S = {j \in Nat : Power[k] <= Power[k + j]}
  OBVIOUS
<1>2. 0 \in S
  BY <1>1, PowerType
<1>3. ASSUME NEW j \in Nat, j \in S PROVE j + 1 \in S
  <2>1. PICK h \in Nat : h = k + j /\ k + (j + 1) = h + 1
    OBVIOUS
  <2>2. PICK p \in Nat : p = Power[h]
    BY PowerType
  <2>3. Base \in Nat \ {0} /\ Power[k] \in Nat
    BY WireAssumption, PowerType
  <2>4. p <= Base * p
    BY <2>2, <2>3
  <2>5. Power[h + 1] = Base * p /\ Base * p \in Nat
    BY <2>2, <2>3, PowerIs
  <2>6. Power[k] <= p
    BY <1>1, <1>3, <2>1, <2>2
  <2>7. QED
    BY <1>1, <2>1, <2>2, <2>3, <2>4, <2>5, <2>6
<1>4. QED
  BY <1>1, <1>2, <1>3, NatSets

-----------------------------------------------------------------------------
(* The digits of a number.                                                 *)

\* A number is cut at a power of the base.
LEMMA CutAt ==
  ASSUME NEW n \in Nat, NEW b \in Nat \ {0}, NEW p \in Nat \ {0}
  PROVE  n % (b * p) = (n % p) + ((n \div p) % b) * p
<1>1. PICK q \in Nat : q = n \div p
  OBVIOUS
<1>2. PICK r \in Nat : r = n % p /\ r < p /\ n = p * q + r
  BY <1>1
<1>3. PICK t \in Nat : t = q \div b
  OBVIOUS
<1>4. PICK d \in Nat : d = q % b /\ d <= b - 1 /\ q = b * t + d
  BY <1>3
<1>5. p * q = (b * p) * t + d * p
  <2>1. p * (b * t + d) = p * (b * t) + p * d
    OBVIOUS
  <2>2. p * (b * t) = (b * p) * t /\ p * d = d * p
    OBVIOUS
  <2>3. QED
    BY <1>4, <2>1, <2>2
<1>6. PICK e \in Nat : e = d * p + r
  <2>1. d * p \in Nat
    OBVIOUS
  <2>2. QED
    BY <2>1
<1>7. e < b * p
  <2>1. d * p <= (b - 1) * p
    BY <1>4
  <2>2. (b - 1) * p = b * p - p /\ b * p \in Nat /\ d * p \in Nat
    OBVIOUS
  <2>3. QED
    BY <1>2, <1>6, <2>1, <2>2
<1>8. b * p \in Nat \ {0} /\ n = (b * p) * t + e
  <2>1. b * p \in Nat \ {0} /\ (b * p) * t \in Nat /\ d * p \in Nat
    OBVIOUS
  <2>2. QED
    BY <1>2, <1>5, <1>6, <2>1
<1>9. \A m \in Nat \ {0} : n = m * t + e /\ e < m => n % m = e
  OBVIOUS
<1>10. n % (b * p) = e
  BY <1>7, <1>8, <1>9
<1>11. (n \div p) % b = d /\ n % p = r
  BY <1>1, <1>2, <1>4
<1>12. e = r + d * p
  <2>1. d * p \in Nat
    OBVIOUS
  <2>2. QED
    BY <1>6, <2>1
<1>13. QED
  BY <1>10, <1>11, <1>12, Zenon

\* What the digits up to one come to.
IsSums(f, d, n) ==
  f = [i \in 0 .. n |-> IF i = 0 THEN 0 ELSE f[i - 1] + d[i][2] * Power[i - 1]]

LEMMA SumsAt ==
  ASSUME NEW d, NEW n \in Nat, NEW f, IsSums(f, d, n), NEW i \in 0 .. n
  PROVE  f[i] = IF i = 0 THEN 0 ELSE f[i - 1] + d[i][2] * Power[i - 1]
<1>1. f = [j \in 0 .. n |-> IF j = 0 THEN 0 ELSE f[j - 1] + d[j][2] * Power[j - 1]]
  BY DEF IsSums
<1>2. QED
  BY <1>1

LEMMA SumsExist ==
  ASSUME NEW d, NEW m \in Nat
  PROVE  \E f : IsSums(f, d, m)
<1>1. PICK S : S = {n \in Nat : \E f : IsSums(f, d, n)}
  OBVIOUS
<1>2. 0 \in S
  <2>1. PICK f : f = [i \in 0 .. 0 |-> 0]
    OBVIOUS
  <2>2. f = [i \in 0 .. 0 |-> IF i = 0 THEN 0 ELSE f[i - 1] + d[i][2] * Power[i - 1]]
    BY <2>1
  <2>3. IsSums(f, d, 0)
    BY <2>2, Zenon DEF IsSums
  <2>4. QED
    BY <1>1, <2>3
<1>3. ASSUME NEW n \in Nat, n \in S PROVE n + 1 \in S
  <2>1. PICK f : IsSums(f, d, n)
    BY <1>1, <1>3
  <2>2. PICK g : g = [i \in 0 .. n + 1 |-> IF i \in 0 .. n THEN f[i]
                                           ELSE f[n] + d[i][2] * Power[i - 1]]
    OBVIOUS
  <2>3. ASSUME NEW i \in 0 .. n + 1
        PROVE  g[i] = IF i = 0 THEN 0 ELSE g[i - 1] + d[i][2] * Power[i - 1]
    <3>1. CASE i \in 0 .. n
      <4>1. g[i] = f[i] /\ f[i] = IF i = 0 THEN 0 ELSE f[i - 1] + d[i][2] * Power[i - 1]
        BY <2>1, <2>2, <3>1, SumsAt
      <4>2. i # 0 => g[i - 1] = f[i - 1]
        BY <2>2, <3>1
      <4>3. QED
        BY <4>1, <4>2
    <3>2. CASE i \notin 0 .. n
      <4>1. i = n + 1 /\ i # 0 /\ i - 1 = n /\ i - 1 \in 0 .. n
        BY <3>2
      <4>2. g[i] = f[n] + d[i][2] * Power[i - 1] /\ g[i - 1] = f[n]
        BY <2>2, <3>2, <4>1
      <4>3. QED
        BY <4>1, <4>2
    <3>3. QED
      BY <3>1, <3>2
  <2>4. IsSums(g, d, n + 1)
    <3>1. g = [i \in 0 .. n + 1 |-> g[i]]
      BY <2>2
    <3>2. QED
      BY <2>3, <3>1 DEF IsSums
  <2>5. n + 1 \in Nat
    OBVIOUS
  <2>6. QED
    BY <1>1, <2>4, <2>5
<1>4. Nat \subseteq S
  BY <1>2, <1>3, NatSets
<1>5. QED
  BY <1>1, <1>4

LEMMA NumberIs ==
  ASSUME NEW d, NEW n \in Nat, n = Len(d)
  PROVE  \E f : IsSums(f, d, n) /\ Number(d) = f[n]
<1> DEFINE Is(f) == f = [i \in 0 .. Len(d) |->
                          IF i = 0 THEN 0 ELSE f[i - 1] + d[i][2] * Power[i - 1]]
<1>1. \E f : Is(f)
  <2>1. PICK f : IsSums(f, d, n)
    BY SumsExist
  <2>2. Is(f)
    BY <2>1, Zenon DEF IsSums
  <2>3. QED
    BY <2>2
<1>2. Number(d) = (CHOOSE f : Is(f))[Len(d)]
  BY Zenon DEF Number
<1>3. PICK f : f = CHOOSE g : Is(g)
  OBVIOUS
<1>4. Is(f)
  <2> HIDE DEF Is
  <2>1. QED
    BY <1>1, <1>3
<1>5. IsSums(f, d, n)
  BY <1>4, Zenon DEF IsSums
<1>6. Number(d) = f[n]
  BY <1>2, <1>3, Zenon
<1>7. QED
  BY <1>5, <1>6

\* A varint has the fewest digits that tell the number.
LEMMA WidthIs ==
  ASSUME NEW n \in Nat, n < Power[VarintSpace]
  PROVE  Width(n) \in 1 .. VarintSpace /\ n < Power[Width(n)]
<1>1. VarintSpace \in Nat \ {0}
  BY WireAssumption
<1>2. PICK T : T = {k \in 1 .. VarintSpace : n < Power[k]}
  OBVIOUS
<1>3. T \subseteq Nat /\ VarintSpace \in T
  BY <1>1, <1>2
<1>4. PICK t \in T : \A y \in T : t <= y
  BY <1>3, LeastOf
<1>5. t \in 1 .. VarintSpace /\ n < Power[t]
  BY <1>2
<1>6. PICK S : S = {k \in 1 .. VarintSpace - 1 : Power[k] <= n}
  OBVIOUS
<1>7. S = 1 .. t - 1
  <2>1. ASSUME NEW k \in 1 .. VarintSpace - 1 PROVE Power[k] <= n <=> k <= t - 1
    <3>1. Power[k] \in Nat /\ Power[t] \in Nat /\ k \in 1 .. VarintSpace
      BY <1>1, <1>5, PowerType
    <3>2. ASSUME k <= t - 1 PROVE Power[k] <= n
      <4>1. k \notin T
        BY <1>4, <1>5, <3>2
      <4>2. QED
        BY <1>2, <3>1, <4>1
    <3>3. ASSUME ~(k <= t - 1) PROVE ~(Power[k] <= n)
      <4>1. PICK j \in Nat : k = t + j
        <5>1. k - t \in Nat /\ k = t + (k - t)
          BY <1>5, <3>3
        <5>2. QED
          BY <5>1
      <4>2. Power[t] <= Power[k]
        BY <1>5, <4>1, PowerGrows
      <4>3. QED
        BY <1>5, <3>1, <4>2
    <3>4. QED
      BY <3>2, <3>3
  <2>2. \A k \in 1 .. t - 1 : k \in 1 .. VarintSpace - 1 /\ k <= t - 1
    BY <1>1, <1>5
  <2>3. \A k \in 1 .. VarintSpace - 1 : k <= t - 1 => k \in 1 .. t - 1
    BY <1>1, <1>5
  <2>4. QED
    BY <1>6, <2>1, <2>2, <2>3
<1>8. Cardinality(S) = t - 1
  <2>1. t \in Nat /\ 1 <= t
    BY <1>5
  <2>2. QED
    BY <1>7, <2>1, FS_Interval
<1>9. Width(n) = 1 + Cardinality(S)
  BY <1>6, Zenon DEF Width
<1>10. Width(n) = t
  BY <1>5, <1>8, <1>9
<1>11. QED
  BY <1>5, <1>10

\* The cells of items with their prefixes.
DigitCell(n, i) == <<"digit", (n \div Power[i - 1]) % Base, i < Width(n)>>
Cell == {Byte} \union {Header(f, "String") : f \in Fields}
        \union {DigitCell(n, i) : n \in Nat, i \in Nat}
        \union {<<"fixed", n, i>> : n \in Nat, i \in Nat}

GoesOn(cell) == cell[1] = "digit" /\ cell[3]

LEMMA DigitsType ==
  ASSUME NEW n \in Nat, Width(n) \in Nat
  PROVE  /\ Digits(n) \in Seq(Cell)
         /\ Len(Digits(n)) = Width(n)
         /\ \A i \in 1 .. Width(n) : GoesOn(Digits(n)[i]) <=> i < Width(n)
<1>1. PICK w \in Nat : w = Width(n)
  OBVIOUS
<1>2. PICK d : d = Digits(n)
  OBVIOUS
<1>3. d = [i \in 1 .. w |-> <<"digit", (n \div Power[i - 1]) % Base, i < w>>]
  BY <1>1, <1>2, Zenon DEF Digits
<1>4. \A i \in 1 .. w : d[i] = DigitCell(n, i)
  BY <1>1, <1>3 DEF DigitCell
<1>5. \A i \in 1 .. w : d[i] \in Cell
  <2>1. \A i \in Nat : DigitCell(n, i) \in Cell
    BY DEF Cell
  <2>2. \A i \in 1 .. w : i \in Nat
    OBVIOUS
  <2>3. QED
    BY <1>4, <2>1, <2>2
<1>6. d = [i \in 1 .. w |-> d[i]]
  BY <1>3
<1>7. d \in Seq(Cell)
  BY <1>1, <1>5, <1>6
<1>8. Len(d) = w
  BY <1>1, <1>3, <1>7
<1>9. ASSUME NEW i \in 1 .. w PROVE GoesOn(d[i]) <=> i < w
  <2>1. PICK c : c = (n \div Power[i - 1]) % Base
    OBVIOUS
  <2>2. PICK e : e = d[i]
    OBVIOUS
  <2>3. e = <<"digit", c, i < w>>
    BY <1>3, <2>1, <2>2
  <2>4. i \in Nat /\ w \in Nat
    OBVIOUS
  <2>5. GoesOn(e) <=> i < w
    BY ONLY <2>3, <2>4 DEF GoesOn
  <2>6. QED
    BY <2>2, <2>5
<1>10. QED
  BY <1>1, <1>2, <1>7, <1>8, <1>9

\* Digit by digit, a varint is the number it was written for.
LEMMA DigitsAreTheNumber ==
  ASSUME NEW n \in Nat, n < Power[VarintSpace]
  PROVE  /\ Len(Digits(n)) = Width(n)
         /\ Number(Digits(n)) = n
<1>1. PICK w \in Nat : w = Width(n) /\ n < Power[w] /\ 1 <= w
  BY WidthIs
<1>2. PICK d : d = Digits(n)
  OBVIOUS
<1>3. d = [i \in 1 .. w |-> <<"digit", (n \div Power[i - 1]) % Base, i < w>>]
  BY <1>1, <1>2, Zenon DEF Digits
<1>4. Len(d) = w
  BY <1>1, <1>2, DigitsType
<1>5. PICK f : IsSums(f, d, w) /\ Number(d) = f[w]
  BY <1>4, NumberIs
<1>6. PICK S : S = {i \in Nat : i <= w => f[i] = n % Power[i]}
  OBVIOUS
<1>7. 0 \in S
  <2>1. 0 \in 0 .. w
    BY <1>1
  <2>2. f[0] = 0
    <3>1. f[0] = IF 0 = 0 THEN 0 ELSE f[0 - 1] + d[0][2] * Power[0 - 1]
      BY <1>5, <2>1, SumsAt, Zenon
    <3>2. QED
      BY <3>1
  <2>3. Power[0] = 1 /\ n % 1 = 0
    <3>1. n % 1 = 0
      OBVIOUS
    <3>2. QED
      BY <3>1, PowerIs
  <2>4. QED
    BY <1>6, <2>2, <2>3
<1>8. ASSUME NEW i \in Nat, i \in S PROVE i + 1 \in S
  <2>1. SUFFICES ASSUME i + 1 <= w PROVE f[i + 1] = n % Power[i + 1]
    BY <1>6
  <2>2. PICK h \in Nat : h = i + 1 /\ h - 1 = i /\ h # 0 /\ h \in 0 .. w /\ h \in 1 .. w
    BY <2>1
  <2>3. PICK p \in Nat \ {0} : p = Power[i]
    BY PowerType
  <2>4. d[h][2] = (n \div p) % Base
    BY <1>3, <2>2, <2>3
  <2>5. f[h] = f[i] + d[h][2] * p
    BY <1>5, <2>2, <2>3, SumsAt
  <2>6. f[i] = n % p
    <3>1. i <= w
      BY <2>1
    <3>2. QED
      BY <1>6, <1>8, <2>3, <3>1
  <2>7. f[h] = (n % p) + ((n \div p) % Base) * p
    BY <2>4, <2>5, <2>6
  <2>8. Power[h] = Base * p
    BY <2>2, <2>3, PowerIs
  <2>9. Base \in Nat \ {0}
    BY WireAssumption
  <2>10. n % (Base * p) = (n % p) + ((n \div p) % Base) * p
    BY <2>3, <2>9, CutAt
  <2>11. QED
    BY <2>2, <2>7, <2>8, <2>10
<1>9. Nat \subseteq S
  BY <1>7, <1>8, NatSets
<1>10. f[w] = n % Power[w]
  BY <1>1, <1>6, <1>9
<1>11. n % Power[w] = n
  <2>1. PICK p \in Nat \ {0} : p = Power[w]
    BY PowerType
  <2>2. n % p = n
    BY <1>1, <2>1
  <2>3. QED
    BY <2>1, <2>2
<1>12. QED
  BY <1>1, <1>2, <1>4, <1>5, <1>10, <1>11

-----------------------------------------------------------------------------
(* Where the items are on the stream.                                      *)

Items == [tag : Fields, length : Lengths]

LEMMA LengthsFit ==
  ASSUME NEW n \in Lengths
  PROVE  n \in Nat /\ n < Power[VarintSpace]
<1>1. PICK p \in Nat : p = Power[VarintSpace]
  BY PowerType, WireAssumption
<1>2. MaxCells \in Nat \ {0} /\ MaxCells <= p
  BY <1>1, WireAssumption
<1>3. n \in 0 .. MaxCells - 1
  BY PrefixAssumption
<1>4. QED
  BY <1>1, <1>2, <1>3

LEMMA PrefixTagged ==
  ASSUME NEW item \in Items
  PROVE  /\ Prefix("tagged", item) \in Seq(Cell)
         /\ Len(Prefix("tagged", item)) = 1 + Width(item.length)
         /\ Prefix("tagged", item)[1] = Header(item.tag, "String")
         /\ \A i \in 1 .. Width(item.length) :
              Prefix("tagged", item)[1 + i] = Digits(item.length)[i]
<1>1. PICK n \in Nat : n = item.length /\ n < Power[VarintSpace]
  BY LengthsFit DEF Items
<1>2. PICK d : d = Digits(n)
  OBVIOUS
<1>3. PICK w \in Nat : w = Width(n)
  BY <1>1, WidthIs
<1>4. d \in Seq(Cell) /\ Len(d) = w
  BY <1>2, <1>3, DigitsType
<1>5. PICK h : h = Header(item.tag, "String")
  OBVIOUS
<1>6. h \in Cell
  <2>1. item.tag \in Fields
    BY DEF Items
  <2>2. QED
    BY <1>5, <2>1 DEF Cell
<1>7. <<h>> \in Seq(Cell) /\ Len(<<h>>) = 1 /\ <<h>>[1] = h
  <2> HIDE DEF Cell
  <2>1. QED
    BY <1>6
<1>8. Prefix("tagged", item) = <<h>> \o d
  BY <1>1, <1>2, <1>5, Zenon DEF Prefix
<1>9. /\ <<h>> \o d \in Seq(Cell)
      /\ Len(<<h>> \o d) = 1 + w
      /\ \A i \in 1 .. 1 + w : (<<h>> \o d)[i] = IF i <= 1 THEN <<h>>[i] ELSE d[i - 1]
  <2>1. PICK s \in Seq(Cell) : s = <<h>> /\ Len(s) = 1
    BY <1>7
  <2>2. /\ s \o d \in Seq(Cell)
        /\ Len(s \o d) = 1 + w
        /\ \A i \in 1 .. 1 + w : (s \o d)[i] = IF i <= 1 THEN s[i] ELSE d[i - 1]
    BY <1>4, <2>1, ConcatProperties
  <2>3. QED
    BY <2>1, <2>2
<1>10. (<<h>> \o d)[1] = h
  BY <1>7, <1>9
<1>11. \A i \in 1 .. w : (<<h>> \o d)[1 + i] = d[i]
  <2>1. ASSUME NEW i \in 1 .. w PROVE (<<h>> \o d)[1 + i] = d[i]
    <3>1. PICK j \in 1 .. 1 + w : j = 1 + i /\ j - 1 = i /\ ~(j <= 1)
      OBVIOUS
    <3>2. QED
      BY <1>9, <3>1
  <2>2. QED
    BY <2>1
<1>12. QED
  BY <1>1, <1>2, <1>3, <1>5, <1>8, <1>9, <1>10, <1>11

LEMMA PrefixLength ==
  ASSUME NEW item
  PROVE  Prefix("length", item) = Digits(item.length)
BY DEF Prefix

LEMMA PrefixFixed ==
  ASSUME NEW item \in Items
  PROVE  /\ Prefix("fixed", item) \in Seq(Cell)
         /\ Len(Prefix("fixed", item)) = FixedLength
         /\ Prefix("fixed", item)[1][2] = item.length
<1>1. PICK n \in Nat : n = item.length
  BY LengthsFit DEF Items
<1>2. PICK s : s = Prefix("fixed", item)
  OBVIOUS
<1>3. s = [i \in 1 .. FixedLength |-> <<"fixed", n, i>>]
  BY <1>1, <1>2 DEF Prefix, Fixed
<1>4. FixedLength \in Nat \ {0}
  BY WireAssumption
<1>5. \A i \in 1 .. FixedLength : s[i] \in Cell
  <2>1. \A i \in 1 .. FixedLength : s[i] = <<"fixed", n, i>> /\ i \in Nat
    BY <1>3, <1>4
  <2>2. \A i \in Nat : <<"fixed", n, i>> \in Cell
    BY <1>1 DEF Cell
  <2>3. QED
    BY <2>1, <2>2
<1>6. s = [i \in 1 .. FixedLength |-> s[i]]
  BY <1>3
<1>7. s \in Seq(Cell)
  BY <1>4, <1>5, <1>6
<1>8. Len(s) = FixedLength
  BY <1>3, <1>4, <1>7
<1>9. s[1][2] = n
  BY <1>3, <1>4
<1>10. QED
  BY <1>1, <1>2, <1>7, <1>8, <1>9

LEMMA PrefixType ==
  ASSUME NEW style \in Styles, NEW item \in Items
  PROVE  Prefix(style, item) \in Seq(Cell) /\ Len(Prefix(style, item)) \in Nat \ {0}
<1>1. PICK n \in Nat : n = item.length /\ n < Power[VarintSpace]
  BY LengthsFit DEF Items
<1>2. PICK w \in Nat \ {0} : w = Width(n)
  BY <1>1, WidthIs
<1>3. CASE style = "tagged"
  BY <1>1, <1>2, <1>3, PrefixTagged
<1>4. CASE style = "length"
  BY <1>1, <1>2, <1>4, PrefixLength, DigitsType
<1>5. CASE style = "fixed"
  BY <1>5, PrefixFixed, WireAssumption
<1>6. QED
  BY <1>3, <1>4, <1>5 DEF Styles

LEMMA FramedIs ==
  ASSUME NEW style \in Styles, NEW item \in Items
  PROVE  /\ Framed(style, item) \in Seq(Cell)
         /\ Len(Framed(style, item)) = Len(Prefix(style, item)) + item.length
         /\ \A i \in 1 .. Len(Prefix(style, item)) :
              Framed(style, item)[i] = Prefix(style, item)[i]
<1>1. PICK n \in Nat : n = item.length
  BY LengthsFit DEF Items
<1>2. PICK b : b = Bytes(n)
  OBVIOUS
<1>3. b \in Seq(Cell) /\ Len(b) = n
  <2>1. Byte \in Cell
    BY DEF Cell
  <2>2. QED
    BY <1>2, <2>1 DEF Bytes
<1>4. PICK p \in Seq(Cell) : p = Prefix(style, item) /\ Len(p) \in Nat
  BY PrefixType
<1>5. /\ p \o b \in Seq(Cell)
      /\ Len(p \o b) = Len(p) + n
      /\ \A i \in 1 .. Len(p) : (p \o b)[i] = p[i]
  <2>1. /\ p \o b \in Seq(Cell)
        /\ Len(p \o b) = Len(p) + Len(b)
        /\ \A i \in 1 .. Len(p) + Len(b) :
             (p \o b)[i] = IF i <= Len(p) THEN p[i] ELSE b[i - Len(p)]
    BY <1>3, ConcatProperties
  <2>2. \A i \in 1 .. Len(p) : i \in 1 .. Len(p) + Len(b) /\ i <= Len(p)
    BY <1>3, <1>4
  <2>3. QED
    BY <1>3, <2>1, <2>2
<1>6. Framed(style, item) = p \o b
  BY <1>1, <1>2, <1>4, Zenon DEF Framed
<1>7. QED
  BY <1>1, <1>4, <1>5, <1>6

IsFlattening(f, s, m) ==
  f = [i \in 1 .. m |-> IF i = 1 THEN s[i] ELSE f[i - 1] \o s[i]]

\* FlattenSeq is what its recursion says.
LEMMA Flattened ==
  ASSUME NEW s, NEW m \in Nat \ {0}, m = Len(s)
  PROVE  \E f : IsFlattening(f, s, m) /\ FlattenSeq(s) = f[m]
<1> DEFINE Is(f, n) == f = [i \in 1 .. n |-> IF i = 1 THEN s[i] ELSE f[i - 1] \o s[i]]
<1>1. PICK S : S = {n \in Nat : \E f : Is(f, n)}
  OBVIOUS
<1>2. 0 \in S
  <2>1. Is([i \in 1 .. 0 |-> 0], 0)
    OBVIOUS
  <2>2. QED
    BY <1>1, <2>1
<1>3. ASSUME NEW n \in Nat, n \in S PROVE n + 1 \in S
  <2>1. PICK f : Is(f, n)
    BY <1>1, <1>3
  <2>2. PICK g : g = [i \in 1 .. n + 1 |-> IF i \in 1 .. n THEN f[i]
                                           ELSE IF i = 1 THEN s[i] ELSE f[i - 1] \o s[i]]
    OBVIOUS
  <2>3. ASSUME NEW i \in 1 .. n + 1
        PROVE  g[i] = IF i = 1 THEN s[i] ELSE g[i - 1] \o s[i]
    <3>1. CASE i \in 1 .. n
      <4>1. g[i] = f[i] /\ f[i] = IF i = 1 THEN s[i] ELSE f[i - 1] \o s[i]
        BY <2>1, <2>2, <3>1
      <4>2. i # 1 => g[i - 1] = f[i - 1]
        BY <2>2, <3>1
      <4>3. QED
        BY <4>1, <4>2
    <3>2. CASE i \notin 1 .. n
      <4>1. g[i] = IF i = 1 THEN s[i] ELSE f[i - 1] \o s[i]
        BY <2>2, <3>2
      <4>2. i # 1 => g[i - 1] = f[i - 1]
        BY <2>2, <3>2
      <4>3. QED
        BY <4>1, <4>2
    <3>3. QED
      BY <3>1, <3>2
  <2>4. Is(g, n + 1)
    <3>1. g = [i \in 1 .. n + 1 |-> g[i]]
      BY <2>2
    <3>2. QED
      BY <2>3, <3>1
  <2>5. \E h : Is(h, n + 1)
    BY <2>4, Zenon
  <2>6. n + 1 \in Nat
    OBVIOUS
  <2> HIDE DEF Is
  <2>7. QED
    BY <1>1, <2>5, <2>6, Zenon
<1>4. m \in S
  BY <1>2, <1>3, NatSets
<1>5. Is(CHOOSE f : Is(f, m), m)
  BY <1>1, <1>4
<1>6. FlattenSeq(s) = (CHOOSE f : Is(f, m))[m]
  BY Zenon DEF FlattenSeq
<1>7. IsFlattening(CHOOSE f : Is(f, m), s, m)
  BY <1>5, Zenon DEF IsFlattening
<1>8. QED
  BY <1>6, <1>7, Zenon

LEMMA FlatteningAt ==
  ASSUME NEW f, NEW s, NEW m \in Nat, IsFlattening(f, s, m), NEW i \in 1 .. m
  PROVE  f[i] = IF i = 1 THEN s[i] ELSE f[i - 1] \o s[i]
<1>1. f = [j \in 1 .. m |-> IF j = 1 THEN s[j] ELSE f[j - 1] \o s[j]]
  BY DEF IsFlattening
<1>2. QED
  BY <1>1

\* One more sequence is joined at the end.
LEMMA FlattenMore ==
  ASSUME NEW m \in Nat \ {0}, NEW s, NEW t, Len(t) = m, Len(s) = m + 1,
         \A i \in 1 .. m : t[i] = s[i]
  PROVE  FlattenSeq(s) = FlattenSeq(t) \o s[m + 1]
<1>1. PICK n \in Nat \ {0} : n = m + 1 /\ n - 1 = m /\ n # 1 /\ n = Len(s)
  OBVIOUS
<1>2. PICK f : IsFlattening(f, s, n) /\ FlattenSeq(s) = f[n]
  BY <1>1, Flattened
<1>3. PICK g : IsFlattening(g, t, m) /\ FlattenSeq(t) = g[m]
  BY Flattened
<1>4. PICK S : S = {i \in Nat : i \in 1 .. m => f[i] = g[i]}
  OBVIOUS
<1>5. 0 \in S
  BY <1>4
<1>6. ASSUME NEW i \in Nat, i \in S PROVE i + 1 \in S
  <2>1. SUFFICES ASSUME i + 1 \in 1 .. m PROVE f[i + 1] = g[i + 1]
    BY <1>4
  <2>2. PICK h \in Nat : h = i + 1 /\ h - 1 = i /\ h \in 1 .. m /\ h \in 1 .. n
    BY <1>1, <2>1
  <2>3. f[h] = IF h = 1 THEN s[h] ELSE f[i] \o s[h]
    BY <1>2, <2>2, FlatteningAt
  <2>4. g[h] = IF h = 1 THEN t[h] ELSE g[i] \o t[h]
    BY <1>3, <2>2, FlatteningAt
  <2>5. h # 1 => f[i] = g[i]
    BY <1>4, <1>6, <2>2
  <2>6. t[h] = s[h]
    BY <2>2
  <2>7. QED
    BY <2>2, <2>3, <2>4, <2>5, <2>6
<1>7. Nat \subseteq S
  BY <1>5, <1>6, NatSets
<1>8. f[m] = g[m]
  BY <1>4, <1>7
<1>9. f[n] = f[n - 1] \o s[n]
  <2>1. n \in 1 .. n /\ n \in Nat
    OBVIOUS
  <2>2. f[n] = IF n = 1 THEN s[n] ELSE f[n - 1] \o s[n]
    BY <1>2, <2>1, FlatteningAt
  <2>3. QED
    BY <1>1, <2>2
<1>10. QED
  BY <1>1, <1>2, <1>3, <1>8, <1>9

LEMMA FlattenOne ==
  ASSUME NEW s, Len(s) = 1
  PROVE  FlattenSeq(s) = s[1]
<1>1. PICK n \in Nat \ {0} : n = 1 /\ n = Len(s) /\ n \in 1 .. n
  OBVIOUS
<1>2. PICK f : IsFlattening(f, s, n) /\ FlattenSeq(s) = f[n]
  BY <1>1, Flattened
<1>3. f[n] = s[n]
  BY <1>1, <1>2, FlatteningAt
<1>4. QED
  BY <1>1, <1>2, <1>3

\* What is written of the first items.
Parts(style, items, m) == Written(style, SubSeq(items, 1, m))

LEMMA PartsAre ==
  ASSUME NEW style, NEW items \in Seq(Items), NEW m \in 0 .. Len(items)
  PROVE  Parts(style, items, m) = FlattenSeq([k \in 1 .. m |-> Framed(style, items[k])])
<1>1. PICK u : u = SubSeq(items, 1, m)
  OBVIOUS
<1>2. DOMAIN u = 1 .. m /\ \A k \in 1 .. m : u[k] = items[k]
  BY <1>1
<1>3. [k \in DOMAIN u |-> Framed(style, u[k])] = [k \in 1 .. m |-> Framed(style, items[k])]
  BY <1>2
<1>4. QED
  BY <1>1, <1>3, Zenon DEF Parts, Written

LEMMA PartsMore ==
  ASSUME NEW style \in Styles, NEW items \in Seq(Items), NEW m \in Nat, m + 1 <= Len(items),
         Parts(style, items, m) \in Seq(Cell)
  PROVE  Parts(style, items, m + 1) = Parts(style, items, m) \o Framed(style, items[m + 1])
<1>1. PICK n \in Nat : n = m + 1 /\ n \in 0 .. Len(items) /\ m \in 0 .. Len(items)
  OBVIOUS
<1>2. PICK s : s = [k \in 1 .. n |-> Framed(style, items[k])]
  OBVIOUS
<1>3. PICK t : t = [k \in 1 .. m |-> Framed(style, items[k])]
  OBVIOUS
<1>4. \A k \in 1 .. n : Framed(style, items[k]) \in Seq(Cell)
  <2>1. \A k \in 1 .. n : items[k] \in Items
    BY <1>1
  <2>2. QED
    BY <2>1, FramedIs
<1>5. s \in Seq(Seq(Cell)) /\ t \in Seq(Seq(Cell))
  BY <1>1, <1>2, <1>3, <1>4
<1>6. Len(s) = n /\ Len(t) = m
  BY <1>1, <1>2, <1>3, <1>5
<1>7. /\ Parts(style, items, n) = FlattenSeq(s)
      /\ Parts(style, items, m) = FlattenSeq(t)
  BY <1>1, <1>2, <1>3, PartsAre
<1>8. s[n] = Framed(style, items[n]) /\ \A i \in 1 .. m : t[i] = s[i]
  BY <1>1, <1>2, <1>3
<1>9. CASE m = 0
  <2>1. FlattenSeq(s) = s[1]
    BY <1>1, <1>6, <1>9, FlattenOne
  <2>2. FlattenSeq(t) = t /\ t = <<>>
    <3>1. t = <<>>
      BY <1>5, <1>6, <1>9, EmptySeq
    <3>2. QED
      BY <1>6, <1>9, <3>1 DEF FlattenSeq
  <2>3. PICK c \in Seq(Cell) : c = s[1]
    BY <1>1, <1>2, <1>4, <1>9
  <2>4. <<>> \o c = c
    OBVIOUS
  <2>5. QED
    BY <1>1, <1>7, <1>8, <1>9, <2>1, <2>2, <2>3, <2>4
<1>10. CASE m # 0
  <2>1. FlattenSeq(s) = FlattenSeq(t) \o s[m + 1]
    BY <1>1, <1>6, <1>8, <1>10, FlattenMore
  <2>2. QED
    BY <1>1, <1>7, <1>8, <2>1
<1>11. QED
  BY <1>9, <1>10

LEMMA PartsNone ==
  ASSUME NEW style, NEW items \in Seq(Items)
  PROVE  Parts(style, items, 0) = <<>>
<1>1. PICK t : t = [k \in 1 .. 0 |-> Framed(style, items[k])]
  OBVIOUS
<1>2. t \in Seq(Cell) /\ Len(t) = 0
  <2>1. t \in Seq(Cell)
    BY <1>1
  <2>2. DOMAIN t = 1 .. 0
    BY <1>1
  <2>3. QED
    BY <2>1, <2>2
<1>3. t = <<>>
  BY <1>2, EmptySeq
<1>4. FlattenSeq(t) = t
  BY <1>2 DEF FlattenSeq
<1>5. Parts(style, items, 0) = FlattenSeq(t)
  <2>1. 0 \in 0 .. Len(items)
    OBVIOUS
  <2>2. QED
    BY <1>1, <2>1, PartsAre, Zenon
<1>6. QED
  BY <1>3, <1>4, <1>5

-----------------------------------------------------------------------------
(* The layout of a stream.                                                 *)

IsStream(s) ==
  /\ s.style \in Styles
  /\ s.items \in Seq(Items)
  /\ s.arrives \in 0 .. Len(Written(s.style, s.items))
  /\ s.seekable \in BOOLEAN

StartIn(s, k) == Len(Written(s.style, SubSeq(s.items, 1, k - 1)))
PrefixIn(s, k) == Prefix(s.style, s.items[k])
BodyIn(s, k) == StartIn(s, k) + Len(PrefixIn(s, k))
StopIn(s, k) == BodyIn(s, k) + s.items[k].length
CellsIn(s) == Written(s.style, s.items)
ItemsIn(s) == 1 .. Len(s.items)

Placed(s, k) ==
  /\ StartIn(s, k) \in Nat
  /\ Len(PrefixIn(s, k)) \in Nat \ {0}
  /\ s.items[k].length \in Nat

\* That the k-th item has its prefix where it begins, in the cells c.
PrefixAt(s, k, c) ==
  \A i \in 1 .. Len(PrefixIn(s, k)) : c[StartIn(s, k) + i] = PrefixIn(s, k)[i]

\* The items up to the m-th are where they should be.
LaidOut(s, m) ==
  /\ Parts(s.style, s.items, m) \in Seq(Cell)
  /\ \A k \in 1 .. m : /\ Placed(s, k)
                       /\ StopIn(s, k) <= Len(Parts(s.style, s.items, m))
                       /\ PrefixAt(s, k, Parts(s.style, s.items, m))

LEMMA PlacedStop ==
  ASSUME NEW s, NEW k, Placed(s, k)
  PROVE  /\ BodyIn(s, k) \in Nat /\ StopIn(s, k) \in Nat
         /\ StartIn(s, k) < BodyIn(s, k) /\ BodyIn(s, k) <= StopIn(s, k)
BY DEF Placed, BodyIn, StopIn

LEMMA StartIsParts ==
  ASSUME NEW s, NEW m \in Nat
  PROVE  StartIn(s, m + 1) = Len(Parts(s.style, s.items, m))
<1>1. (m + 1) - 1 = m
  OBVIOUS
<1>2. QED
  BY <1>1 DEF StartIn, Parts

LEMMA StartBegins ==
  ASSUME NEW s, IsStream(s)
  PROVE  LaidOut(s, 0) /\ StartIn(s, 1) = 0
<1>1. PICK p : p = Parts(s.style, s.items, 0)
  OBVIOUS
<1>2. p = <<>>
  BY <1>1, PartsNone DEF IsStream
<1>3. p \in Seq(Cell) /\ Len(p) = 0
  BY <1>2
<1>4. LaidOut(s, 0)
  BY <1>1, <1>3 DEF LaidOut
<1>5. StartIn(s, 0 + 1) = Len(p)
  BY <1>1, StartIsParts
<1>6. StartIn(s, 1) = 0
  BY <1>3, <1>5
<1>7. QED
  BY <1>4, <1>6

LEMMA StartMoves ==
  ASSUME NEW s, IsStream(s), NEW m \in Nat, m + 1 <= Len(s.items), LaidOut(s, m)
  PROVE  LaidOut(s, m + 1) /\ StartIn(s, m + 2) = StopIn(s, m + 1)
<1>1. PICK n \in Nat : n = m + 1 /\ n + 1 = m + 2 /\ n \in 1 .. Len(s.items)
  OBVIOUS
<1>2. PICK p \in Seq(Cell) : p = Parts(s.style, s.items, m)
  BY DEF LaidOut
<1>3. PICK a \in Nat : a = Len(p) /\ a = StartIn(s, n)
  BY <1>1, <1>2, StartIsParts
<1>4. s.style \in Styles /\ s.items \in Seq(Items) /\ s.items[n] \in Items
  BY <1>1 DEF IsStream
<1>5. PICK h : h = PrefixIn(s, n)
  OBVIOUS
<1>6. h \in Seq(Cell) /\ Len(h) \in Nat \ {0}
  BY <1>4, <1>5, PrefixType DEF PrefixIn
<1>7. PICK l \in Nat : l = s.items[n].length
  BY <1>4, LengthsFit DEF Items
<1>8. PICK c \in Seq(Cell) : /\ c = Framed(s.style, s.items[n])
                             /\ Len(c) = Len(h) + l
                             /\ \A i \in 1 .. Len(h) : c[i] = h[i]
  BY <1>4, <1>5, <1>7, FramedIs DEF PrefixIn
<1>9. PICK q : q = Parts(s.style, s.items, n)
  OBVIOUS
<1>10. q = p \o c
  BY <1>1, <1>2, <1>4, <1>8, <1>9, PartsMore
<1>11. /\ q \in Seq(Cell)
       /\ Len(q) = a + Len(h) + l
       /\ \A i \in 1 .. Len(p) + Len(c) : q[i] = IF i <= Len(p) THEN p[i] ELSE c[i - Len(p)]
  <2>1. /\ p \o c \in Seq(Cell)
        /\ Len(p \o c) = Len(p) + Len(c)
        /\ \A i \in 1 .. Len(p) + Len(c) :
             (p \o c)[i] = IF i <= Len(p) THEN p[i] ELSE c[i - Len(p)]
    BY ConcatProperties
  <2>2. a + (Len(h) + l) = a + Len(h) + l
    BY <1>6
  <2>3. QED
    BY <1>3, <1>8, <1>10, <2>1, <2>2
<1>12. StopIn(s, n) = a + Len(h) + l
  BY <1>3, <1>5, <1>7 DEF StopIn, BodyIn
<1>13. StartIn(s, n + 1) = StopIn(s, n)
  BY <1>9, <1>11, <1>12, StartIsParts
<1>14. Placed(s, n)
  BY <1>3, <1>5, <1>6, <1>7 DEF Placed
<1>15. ASSUME NEW k \in 1 .. n
       PROVE  Placed(s, k) /\ StopIn(s, k) <= Len(q) /\ PrefixAt(s, k, q)
  <2>1. CASE k = n
    <3>1. StopIn(s, k) <= Len(q)
      BY <1>6, <1>11, <1>12, <2>1
    <3>2. ASSUME NEW i \in 1 .. Len(h) PROVE q[a + i] = h[i]
      <4>1. PICK j \in 1 .. Len(p) + Len(c) : j = a + i /\ ~(j <= Len(p)) /\ j - Len(p) = i
        <5>1. a + i \in 1 .. Len(p) + Len(c) /\ ~(a + i <= Len(p)) /\ (a + i) - Len(p) = i
          BY <1>3, <1>6, <1>8
        <5>2. QED
          BY <5>1
      <4>2. q[j] = c[i] /\ c[i] = h[i]
        BY <1>8, <1>11, <4>1
      <4>3. QED
        BY <4>1, <4>2
    <3>3. PrefixAt(s, k, q)
      BY <1>3, <1>5, <2>1, <3>2 DEF PrefixAt
    <3>4. QED
      BY <1>14, <2>1, <3>1, <3>3
  <2>2. CASE k # n
    <3>1. k \in 1 .. m
      BY <1>1, <2>2
    <3>2. Placed(s, k) /\ StopIn(s, k) <= a /\ PrefixAt(s, k, p)
      BY <1>2, <1>3, <3>1 DEF LaidOut
    <3>3. BodyIn(s, k) \in Nat /\ StopIn(s, k) \in Nat /\ BodyIn(s, k) <= StopIn(s, k)
      BY <3>2, PlacedStop
    <3>4. StopIn(s, k) <= Len(q)
      BY <1>6, <1>11, <3>2, <3>3
    <3>5. PICK b \in Nat : b = StartIn(s, k)
      BY <3>2 DEF Placed
    <3>6. PICK g : g = PrefixIn(s, k) /\ Len(g) \in Nat /\ b + Len(g) <= a
      BY <3>2, <3>3, <3>5 DEF BodyIn, Placed
    <3>7. ASSUME NEW i \in 1 .. Len(g) PROVE q[b + i] = g[i]
      <4>1. PICK j \in 1 .. Len(p) + Len(c) : j = b + i /\ j <= Len(p)
        <5>1. b + i \in 1 .. Len(p) + Len(c) /\ b + i <= Len(p)
          BY <1>3, <1>6, <1>8, <3>6
        <5>2. QED
          BY <5>1
      <4>2. q[j] = p[j]
        BY <1>11, <4>1
      <4>3. p[j] = g[i]
        BY <3>2, <3>5, <3>6, <4>1 DEF PrefixAt
      <4>4. QED
        BY <4>1, <4>2, <4>3
    <3>8. PrefixAt(s, k, q)
      BY <3>5, <3>6, <3>7 DEF PrefixAt
    <3>9. QED
      BY <3>2, <3>4, <3>8
  <2>3. QED
    BY <2>1, <2>2
<1>16. LaidOut(s, n)
  BY <1>9, <1>11, <1>15 DEF LaidOut
<1>17. QED
  BY <1>1, <1>13, <1>16

\* Items follow each other with nothing between them, and their prefixes are
\* on the stream where they begin.
LEMMA Layout ==
  ASSUME NEW s, IsStream(s)
  PROVE  /\ CellsIn(s) \in Seq(Cell)
         /\ StartIn(s, 1) = 0
         /\ StartIn(s, Len(s.items) + 1) = Len(CellsIn(s))
         /\ \A k \in ItemsIn(s) : /\ Placed(s, k)
                                  /\ StartIn(s, k + 1) = StopIn(s, k)
                                  /\ StopIn(s, k) <= Len(CellsIn(s))
                                  /\ PrefixAt(s, k, CellsIn(s))
<1>1. PICK n \in Nat : n = Len(s.items)
  BY DEF IsStream
<1>2. PICK S : S = {m \in Nat : m <= n => LaidOut(s, m)}
  OBVIOUS
<1>3. 0 \in S
  BY <1>2, StartBegins
<1>4. ASSUME NEW m \in Nat, m \in S PROVE m + 1 \in S
  <2>1. SUFFICES ASSUME m + 1 <= n PROVE LaidOut(s, m + 1)
    BY <1>2
  <2>2. m <= n
    BY <2>1
  <2>3. LaidOut(s, m)
    BY <1>2, <1>4, <2>2
  <2>4. QED
    BY <1>1, <2>1, <2>3, StartMoves
<1>5. Nat \subseteq S
  BY <1>3, <1>4, NatSets
<1>6. \A m \in 0 .. n : LaidOut(s, m)
  <2>1. \A m \in 0 .. n : m \in Nat /\ m <= n
    OBVIOUS
  <2>2. QED
    BY <1>2, <1>5, <2>1
<1>7. Parts(s.style, s.items, n) = CellsIn(s)
  <2>1. SubSeq(s.items, 1, n) = s.items
    BY <1>1, SubSeqFull DEF IsStream
  <2>2. QED
    BY <2>1 DEF Parts, CellsIn
<1>8. LaidOut(s, n)
  BY <1>6
<1>9. StartIn(s, n + 1) = Len(CellsIn(s))
  BY <1>7, StartIsParts
<1>10. ASSUME NEW k \in 1 .. n PROVE StartIn(s, k + 1) = StopIn(s, k)
  <2>1. PICK m \in Nat : m + 1 = k /\ m + 2 = k + 1 /\ m + 1 <= n /\ m \in 0 .. n
    <3>1. k - 1 \in Nat /\ (k - 1) + 1 = k /\ (k - 1) + 2 = k + 1 /\ k <= n /\ k - 1 <= n
      OBVIOUS
    <3>2. QED
      BY <3>1
  <2>2. LaidOut(s, m)
    BY <1>6, <2>1
  <2>3. StartIn(s, m + 2) = StopIn(s, m + 1)
    BY <1>1, <2>1, <2>2, StartMoves
  <2>4. QED
    BY <2>1, <2>3
<1>11. StartIn(s, 1) = 0
  BY StartBegins
<1>12. CellsIn(s) \in Seq(Cell)
  BY <1>7, <1>8 DEF LaidOut
<1>13. \A k \in 1 .. n : /\ Placed(s, k)
                         /\ StopIn(s, k) <= Len(CellsIn(s))
                         /\ PrefixAt(s, k, CellsIn(s))
  BY <1>7, <1>8 DEF LaidOut
<1>14. ItemsIn(s) = 1 .. n
  BY <1>1 DEF ItemsIn
<1>15. QED
  BY <1>1, <1>9, <1>10, <1>11, <1>12, <1>13, <1>14

\* An item ends before the next begins, and so does every item before it.
LEMMA ItemsInOrder ==
  ASSUME NEW s, IsStream(s), NEW j \in ItemsIn(s), NEW k \in ItemsIn(s), j < k
  PROVE  StopIn(s, j) <= StartIn(s, k)
<1>1. PICK n \in Nat : n = Len(s.items) /\ ItemsIn(s) = 1 .. n
  BY DEF IsStream, ItemsIn
<1>2. PICK S : S = {i \in Nat : j + 1 + i \in 1 .. n => StopIn(s, j) <= StartIn(s, j + 1 + i)}
  OBVIOUS
<1>3. j \in Nat /\ k \in Nat /\ \A i \in 1 .. n : Placed(s, i) /\ StartIn(s, i + 1) = StopIn(s, i)
  BY <1>1, Layout
<1>4. StopIn(s, j) \in Nat
  BY <1>1, <1>3, PlacedStop
<1>5. 0 \in S
  <2>1. j + 1 + 0 = j + 1
    BY <1>3
  <2>2. StartIn(s, j + 1) = StopIn(s, j)
    BY <1>1, <1>3
  <2>3. QED
    BY <1>2, <1>4, <2>1, <2>2
<1>6. ASSUME NEW i \in Nat, i \in S PROVE i + 1 \in S
  <2>1. PICK h \in Nat : h = j + 1 + i /\ j + 1 + (i + 1) = h + 1
    BY <1>3
  <2>2. SUFFICES ASSUME h + 1 \in 1 .. n PROVE StopIn(s, j) <= StartIn(s, h + 1)
    BY <1>2, <2>1
  <2>3. h \in 1 .. n
    BY <1>3, <2>1, <2>2
  <2>4. StopIn(s, j) <= StartIn(s, h)
    BY <1>2, <1>6, <2>1, <2>3
  <2>5. /\ StartIn(s, h) \in Nat /\ StopIn(s, h) \in Nat /\ BodyIn(s, h) \in Nat
        /\ StartIn(s, h) < BodyIn(s, h) /\ BodyIn(s, h) <= StopIn(s, h)
    <3>1. Placed(s, h)
      BY <1>3, <2>3
    <3>2. QED
      BY <3>1, PlacedStop DEF Placed
  <2>6. StartIn(s, h + 1) = StopIn(s, h)
    BY <1>3, <2>3
  <2>7. QED
    BY <1>4, <2>4, <2>5, <2>6
<1>7. PICK i \in Nat : j + 1 + i = k
  <2>1. k - j - 1 \in Nat /\ j + 1 + (k - j - 1) = k
    BY <1>3
  <2>2. QED
    BY <2>1
<1>8. i \in S
  BY <1>5, <1>6, NatSets
<1>9. QED
  BY <1>1, <1>2, <1>7, <1>8

\* Items that begin no later come no later.
LEMMA EarlierItems ==
  ASSUME NEW s, IsStream(s), NEW j \in ItemsIn(s), NEW k \in ItemsIn(s)
  PROVE  /\ StartIn(s, j) <= StartIn(s, k) => j <= k
         /\ StartIn(s, j) < StopIn(s, k) => j <= k
         /\ j < k => StartIn(s, j) < StartIn(s, k)
<1>1. j \in Nat /\ k \in Nat
  BY DEF ItemsIn, IsStream
<1>2. Placed(s, j) /\ Placed(s, k)
  BY Layout
<1>3. /\ StartIn(s, j) \in Nat /\ StopIn(s, j) \in Nat /\ StartIn(s, j) < StopIn(s, j)
      /\ StartIn(s, k) \in Nat /\ StopIn(s, k) \in Nat /\ StartIn(s, k) < StopIn(s, k)
  BY <1>2, PlacedStop DEF Placed
<1>4. j < k => StopIn(s, j) <= StartIn(s, k)
  BY ItemsInOrder
<1>5. k < j => StopIn(s, k) <= StartIn(s, j)
  BY ItemsInOrder
<1>6. QED
  BY <1>1, <1>3, <1>4, <1>5

-----------------------------------------------------------------------------
(* The invariant.                                                          *)

Calls == [pc : {"none", "prefix", "length", "choose"}, from : Nat, prefix : Nat,
          tag : Nat, length : Nat, bytesRead : Nat]
Receivers == [iterates : BOOLEAN, wanted : SUBSET Fields, haveObject : BOOLEAN]
Outcomes == [kind : {"none", "object", "nothing", "cut", "failed"}, call : Calls, body : Nat]

TypeOK ==
  /\ IsStream(sent)
  /\ at \in Nat
  /\ receiver \in Receivers
  /\ call \in Calls
  /\ outcome \in Outcomes

\* A prefix begins at a, or nothing can be read there.
Boundary(s, a) == a >= s.arrives \/ \E k \in ItemsIn(s) : a = StartIn(s, k)

\* The k-th item is one that r asks for, from a position on.
AskedIn(s, r, from, k) ==
  /\ k \in ItemsIn(s) /\ StartIn(s, k) >= from
  /\ s.style = "tagged" => s.items[k].tag \in r.wanted

\* Nothing that r asks for begins between two positions.
NonePassed(s, r, from, to) ==
  \A k \in ItemsIn(s) : AskedIn(s, r, from, k) => StartIn(s, k) >= to

\* The call has read the prefix of the k-th item, or the tag in it.
HasPrefix(s, c, k) ==
  /\ k \in ItemsIn(s)
  /\ c.prefix = StartIn(s, k)
  /\ s.style = "tagged" => c.tag = s.items[k].tag

\* Behind the whole prefix, or where its length is missing altogether.
BehindPrefix(s, a, c, k) ==
  /\ HasPrefix(s, c, k)
  /\ StartIn(s, k) < a /\ a <= s.arrives
  /\ \/ a = BodyIn(s, k) /\ c.length = s.items[k].length
     \/ a = s.arrives /\ a < BodyIn(s, k) /\ c.length = 0

\* A call that is active.
InFlight(s, a, r, c) ==
  /\ ~r.haveObject
  /\ c.from <= c.prefix /\ c.prefix <= a
  /\ c.from + c.bytesRead = a
  /\ NonePassed(s, r, c.from, c.prefix)
  /\ CASE c.pc = "prefix" -> c.prefix = a /\ Boundary(s, a)
       [] c.pc = "length" -> /\ s.style = "tagged"
                             /\ \E k \in ItemsIn(s) : HasPrefix(s, c, k) /\ a = StartIn(s, k) + 1
                             /\ a <= s.arrives
       [] OTHER -> \E k \in ItemsIn(s) : BehindPrefix(s, a, c, k)

\* What the last call came to.
Returned(s, a, r, o, k) ==
  /\ AskedIn(s, r, o.call.from, k)
  /\ StartIn(s, k) = o.call.prefix
  /\ \A j \in ItemsIn(s) : AskedIn(s, r, o.call.from, j) => k <= j
  /\ StopIn(s, k) <= s.arrives => o.body = BodyIn(s, k) /\ a = StopIn(s, k)

AtRest(s, a, r, o) ==
  /\ o.kind = "object" => \E k \in ItemsIn(s) : Returned(s, a, r, o, k)
  /\ o.kind = "nothing" => NonePassed(s, r, o.call.from, s.arrives)
  /\ o.kind = "cut" => \E k \in ItemsIn(s) : StartIn(s, k) < s.arrives /\ s.arrives < StopIn(s, k)
  /\ o.kind \in {"object", "nothing"} => o.call.from + o.call.bytesRead = a
  /\ o.kind \notin {"cut", "failed"} => Boundary(s, a)
  /\ r.haveObject => o.kind \notin {"cut", "failed"}

Reads(s, a, r, c, o) ==
  /\ c.pc = "none" => AtRest(s, a, r, o)
  /\ c.pc # "none" => InFlight(s, a, r, c)

Inv == TypeOK /\ Reads(sent, at, receiver, call, outcome)

-----------------------------------------------------------------------------
(* What can be read where.                                                 *)

LEMMA StreamFacts ==
  ASSUME NEW s, IsStream(s)
  PROVE  /\ s.arrives \in Nat
         /\ Len(CellsIn(s)) \in Nat
         /\ s.arrives <= Len(CellsIn(s))
         /\ ItemsIn(s) \subseteq Nat \ {0}
         /\ \A k \in ItemsIn(s) :
              /\ s.items[k] \in Items
              /\ s.items[k].length \in Nat /\ s.items[k].length < Power[VarintSpace]
              /\ StartIn(s, k) \in Nat /\ BodyIn(s, k) \in Nat /\ StopIn(s, k) \in Nat
              /\ StartIn(s, k) < BodyIn(s, k) /\ BodyIn(s, k) <= StopIn(s, k)
              /\ BodyIn(s, k) + s.items[k].length = StopIn(s, k)
              /\ StopIn(s, k) <= Len(CellsIn(s))
<1>1. Len(CellsIn(s)) \in Nat
  BY Layout, LenProperties
<1>2. s.arrives \in Nat /\ s.arrives <= Len(CellsIn(s))
  BY <1>1 DEF IsStream, CellsIn
<1>3. ItemsIn(s) \subseteq Nat \ {0} /\ \A k \in ItemsIn(s) : s.items[k] \in Items
  BY DEF IsStream, ItemsIn
<1>4. \A k \in ItemsIn(s) :
        s.items[k].length \in Nat /\ s.items[k].length < Power[VarintSpace]
  BY <1>3, LengthsFit DEF Items
<1>5. ASSUME NEW k \in ItemsIn(s)
      PROVE  /\ StartIn(s, k) \in Nat /\ BodyIn(s, k) \in Nat /\ StopIn(s, k) \in Nat
             /\ StartIn(s, k) < BodyIn(s, k) /\ BodyIn(s, k) <= StopIn(s, k)
             /\ BodyIn(s, k) + s.items[k].length = StopIn(s, k)
             /\ StopIn(s, k) <= Len(CellsIn(s))
  <2>1. Placed(s, k) /\ StopIn(s, k) <= Len(CellsIn(s))
    BY Layout
  <2>2. StartIn(s, k) \in Nat
    BY <2>1 DEF Placed
  <2>3. BodyIn(s, k) + s.items[k].length = StopIn(s, k)
    BY DEF StopIn
  <2>4. QED
    BY <2>1, <2>2, <2>3, PlacedStop
<1>6. QED
  BY <1>1, <1>2, <1>3, <1>4, <1>5

LEMMA ArrivedIs ==
  ASSUME IsStream(sent)
  PROVE  /\ Arrived \in Seq(Cell)
         /\ Len(Arrived) = sent.arrives
         /\ \A q \in 1 .. sent.arrives : Arrived[q] = CellsIn(sent)[q]
<1>1. PICK w \in Seq(Cell) : w = CellsIn(sent)
  BY Layout
<1>2. PICK n \in Nat : n = sent.arrives /\ n <= Len(w)
  BY <1>1, StreamFacts
<1>3. Arrived = SubSeq(w, 1, n)
  BY <1>1, <1>2 DEF Arrived, CellsIn
<1>4. /\ SubSeq(w, 1, n) \in Seq(Cell)
      /\ Len(SubSeq(w, 1, n)) = n
      /\ \A q \in 1 .. n : SubSeq(w, 1, n)[q] = w[q]
  BY <1>2
<1>5. QED
  BY <1>1, <1>2, <1>3, <1>4

\* Where the varints that begin here may end.
Stops == {q \in at + 1 .. sent.arrives : ~GoesOn(Arrived[q])}

LEMMA VarintStopIs == VarintStop = IF Stops = {} THEN 0 ELSE Min(Stops)
BY Zenon DEF VarintStop, Stops, GoesOn

LEMMA NothingAtEnd ==
  ASSUME IsStream(sent), at \in Nat, AtEnd
  PROVE  VarintStop = 0
<1>1. sent.arrives \in Nat /\ at >= sent.arrives
  BY StreamFacts DEF AtEnd
<1>2. Stops = {}
  BY <1>1 DEF Stops
<1>3. QED
  BY <1>2, VarintStopIs

\* A varint is read as it was written, or is found to be cut off.
LEMMA VarintRead ==
  ASSUME IsStream(sent), at \in Nat,
         NEW n \in Nat, n < Power[VarintSpace], NEW w \in Nat, w = Width(n),
         \A i \in 1 .. w : CellsIn(sent)[at + i] = Digits(n)[i]
  PROVE  /\ at + w <= sent.arrives => VarintStop = at + w /\ VarintValue = n
         /\ sent.arrives < at + w => VarintStop = 0
<1>1. PICK m \in Nat : m = sent.arrives
  BY StreamFacts
<1>2. 1 <= w
  BY WidthIs
<1>3. ASSUME NEW i \in 1 .. w, at + i <= m
      PROVE  Arrived[at + i] = Digits(n)[i] /\ (GoesOn(Arrived[at + i]) <=> i < w)
  <2>1. PICK q \in 1 .. m : q = at + i
    <3>1. at + i \in 1 .. m
      BY <1>3
    <3>2. QED
      BY <3>1
  <2>2. Arrived[q] = CellsIn(sent)[q]
    BY <1>1, ArrivedIs
  <2>3. CellsIn(sent)[q] = Digits(n)[i]
    BY <2>1
  <2>4. GoesOn(Digits(n)[i]) <=> i < w
    BY DigitsType
  <2>5. QED
    BY <2>1, <2>2, <2>3, <2>4, Zenon
<1>4. PICK T : T = Stops
  OBVIOUS
<1>5. \A q : q \in T <=> q \in at + 1 .. m /\ ~GoesOn(Arrived[q])
  BY <1>1, <1>4 DEF Stops
<1>6. \A q \in at + 1 .. m : q < at + w => q \notin T
  <2>1. ASSUME NEW q \in at + 1 .. m, q < at + w PROVE q \notin T
    <3>1. PICK i \in 1 .. w : at + i = q /\ at + i <= m /\ i < w
      <4>1. q - at \in 1 .. w /\ at + (q - at) = q /\ q <= m /\ q - at < w
        BY <2>1
      <4>2. QED
        BY <4>1
    <3>2. GoesOn(Arrived[q])
      BY <1>3, <3>1
    <3>3. QED
      BY <1>5, <3>2
  <2>2. QED
    BY <2>1
<1>7. CASE m < at + w
  <2>1. \A q \in at + 1 .. m : q < at + w
    BY <1>7
  <2>2. T = {}
    BY <1>5, <1>6, <2>1
  <2>3. VarintStop = 0
    BY <1>4, <2>2, VarintStopIs
  <2>4. ~(at + w <= sent.arrives)
    BY <1>1, <1>7
  <2>5. QED
    BY <2>3, <2>4
<1>8. CASE at + w <= m
  <2>1. PICK e \in Nat : e = at + w /\ e \in at + 1 .. m
    BY <1>2, <1>8
  <2>2. e \in T
    <3>1. ~GoesOn(Arrived[e])
      <4>1. w \in 1 .. w /\ at + w <= m /\ ~(w < w)
        BY <1>2, <1>8
      <4>2. QED
        BY <1>3, <2>1, <4>1
    <3>2. QED
      BY <1>5, <2>1, <3>1
  <2>3. \A q \in T : e <= q
    <3>1. ASSUME NEW q \in T PROVE e <= q
      <4>1. q \in at + 1 .. m
        BY <1>5
      <4>2. ~(q < at + w)
        BY <1>6, <4>1
      <4>3. QED
        BY <2>1, <4>1, <4>2
    <3>2. QED
      BY <3>1
  <2>4. Min(T) = e
    <3>1. T \subseteq Nat
      BY <1>5
    <3>2. PICK x : x = Min(T)
      OBVIOUS
    <3>3. x \in T /\ \A y \in T : x <= y
      BY <2>2, <2>3, <3>2 DEF Min
    <3>4. x <= e /\ e <= x /\ x \in Nat
      BY <2>2, <2>3, <3>1, <3>3
    <3>5. QED
      BY <2>1, <3>2, <3>4
  <2>5. VarintStop = e
    BY <1>4, <2>2, <2>4, VarintStopIs
  <2>6. PICK d \in Seq(Cell) : d = SubSeq(Arrived, at + 1, e) /\ Len(d) = w
                               /\ \A i \in 1 .. w : d[i] = Arrived[at + i]
    <3>1. PICK u \in Seq(Cell) : u = Arrived /\ Len(u) = m
      BY <1>1, ArrivedIs
    <3>2. /\ SubSeq(u, at + 1, e) \in Seq(Cell)
          /\ Len(SubSeq(u, at + 1, e)) = w
          /\ \A i \in 1 .. w : SubSeq(u, at + 1, e)[i] = u[at + i]
      BY <1>2, <1>8, <2>1, <3>1
    <3>3. QED
      BY <3>1, <3>2
  <2>7. d = Digits(n)
    <3>1. Digits(n) \in Seq(Cell) /\ Len(Digits(n)) = w
      BY DigitsType
    <3>2. \A i \in 1 .. w : d[i] = Digits(n)[i]
      <4>1. \A i \in 1 .. w : at + i <= m
        BY <1>8
      <4>2. QED
        BY <1>3, <2>6, <4>1
    <3>3. QED
      BY <2>6, <3>1, <3>2, SeqEqual
  <2>8. VarintValue = n
    <3>1. VarintValue = Number(d)
      BY <2>5, <2>6 DEF VarintValue
    <3>2. QED
      BY <2>7, <3>1, DigitsAreTheNumber
  <2>9. ~(sent.arrives < at + w)
    BY <1>1, <1>8
  <2>10. QED
    BY <2>1, <2>5, <2>8, <2>9
<1>9. QED
  BY <1>1, <1>7, <1>8

-----------------------------------------------------------------------------
(* Every step keeps the invariant.                                         *)

LEMMA StopsAtBoundaries ==
  ASSUME NEW s, IsStream(s), NEW k \in ItemsIn(s)
  PROVE  Boundary(s, StopIn(s, k))
<1>1. PICK n \in Nat : n = Len(s.items) /\ ItemsIn(s) = 1 .. n
  BY DEF IsStream, ItemsIn
<1>2. StartIn(s, k + 1) = StopIn(s, k) /\ StartIn(s, n + 1) = Len(CellsIn(s))
  BY <1>1, Layout
<1>3. CASE k + 1 \in 1 .. n
  BY <1>1, <1>2, <1>3 DEF Boundary
<1>4. CASE k + 1 \notin 1 .. n
  <2>1. k = n
    BY <1>1, <1>4
  <2>2. StopIn(s, k) >= s.arrives
    BY <1>2, <2>1, StreamFacts
  <2>3. QED
    BY <2>2 DEF Boundary
<1>5. QED
  BY <1>3, <1>4

LEMMA NoCallIs == NoCall \in Calls /\ NoCall.pc = "none"
BY DEF NoCall, Calls, NoTag

LEMMA BegunIs ==
  ASSUME NEW a \in Nat, NEW c, c = [NoCall EXCEPT !.pc = "prefix", !.from = a, !.prefix = a]
  PROVE  /\ c \in Calls
         /\ c.pc = "prefix" /\ c.from = a /\ c.prefix = a /\ c.bytesRead = 0
BY DEF NoCall, Calls, NoTag

LEMMA InitInv == Init => Inv
<1> SUFFICES ASSUME Init PROVE Inv
  OBVIOUS
<1> DEFINE Streamed(st, i) == [style : {st}, items : {i}, arrives : 0 .. Len(Written(st, i)),
                               seekable : BOOLEAN]
<1>1. PICK st \in Styles, i \in Seq(Items) : sent \in Streamed(st, i)
  <2> DEFINE I == UNION {[1 .. n -> [tag : Fields, length : Lengths]] : n \in 0 .. MaxItems}
  <2>1. sent \in Streams
    BY DEF Init
  <2>2. Streams = UNION {Streamed(s, i) : s \in Styles, i \in I}
    BY DEF Streams
  <2> HIDE DEF Streamed, I
  <2>3. PICK u \in {Streamed(s, i) : s \in Styles, i \in I} : sent \in u
    BY <2>1, <2>2
  <2>4. PICK st \in Styles, i \in I : u = Streamed(st, i)
    BY <2>3
  <2>5. PICK n \in 0 .. MaxItems : i \in [1 .. n -> Items]
    BY <2>4 DEF I, Items
  <2>6. n \in Nat
    BY PrefixAssumption
  <2>7. i \in Seq(Items)
    BY <2>5, <2>6
  <2>8. QED
    BY <2>3, <2>4, <2>7
<1>2. sent.style = st /\ sent.items = i
  BY <1>1
<1>3. IsStream(sent)
  BY <1>1, <1>2 DEF IsStream
<1>4. call = NoCall /\ at = 0 /\ outcome = NoOutcome
  BY DEF Init
<1>5. receiver \in Receivers
  BY DEF Init, Receivers
<1>6. outcome \in Outcomes /\ outcome.kind = "none"
  BY <1>4, NoCallIs DEF NoOutcome, Outcomes
<1>7. TypeOK
  BY <1>3, <1>4, <1>5, <1>6, NoCallIs DEF TypeOK
<1>8. Boundary(sent, 0)
  <2>1. StartIn(sent, 1) = 0 /\ StartIn(sent, Len(sent.items) + 1) = Len(CellsIn(sent))
    BY <1>3, Layout
  <2>2. PICK m \in Nat : m = Len(sent.items) /\ ItemsIn(sent) = 1 .. m
    BY <1>3 DEF IsStream, ItemsIn
  <2>3. CASE m = 0
    <3>1. 0 >= sent.arrives
      BY <1>3, <2>1, <2>2, <2>3, StreamFacts
    <3>2. QED
      BY <3>1 DEF Boundary
  <2>4. CASE m # 0
    BY <2>1, <2>2, <2>4 DEF Boundary
  <2>5. QED
    BY <2>3, <2>4
<1>9. AtRest(sent, at, receiver, outcome)
  BY <1>4, <1>6, <1>8 DEF AtRest
<1>10. call.pc = "none"
  BY <1>4, NoCallIs
<1>11. QED
  BY <1>7, <1>9, <1>10 DEF Inv, Reads

LEMMA BeginKeepsInv ==
  ASSUME Inv, NEW wanted \in SUBSET Fields, Begin(wanted)
  PROVE  Inv'
<1>1. /\ call.pc = "none" /\ MayCall(wanted)
      /\ call' = [NoCall EXCEPT !.pc = "prefix", !.from = at, !.prefix = at]
      /\ receiver' = [receiver EXCEPT !.wanted = wanted, !.haveObject = FALSE]
      /\ sent' = sent /\ at' = at /\ outcome' = outcome
  BY DEF Begin
<1>2. TypeOK /\ AtRest(sent, at, receiver, outcome)
  BY <1>1 DEF Inv, Reads
<1>3. Boundary(sent, at)
  <2>1. outcome.kind \notin {"cut", "failed"}
    BY <1>1, <1>2 DEF MayCall, AtRest
  <2>2. QED
    BY <1>2, <2>1 DEF AtRest
<1>4. PICK c : c = call'
  OBVIOUS
<1>5. at \in Nat
  BY <1>2 DEF TypeOK
<1>6. c.pc = "prefix" /\ c.from = at /\ c.prefix = at /\ c.bytesRead = 0
  BY <1>1, <1>4, <1>5, BegunIs
<1>7. c \in Calls
  BY <1>1, <1>4, <1>5, BegunIs
<1>8. PICK r : r = receiver'
  OBVIOUS
<1>9. r \in Receivers /\ ~r.haveObject
  BY <1>1, <1>2, <1>8 DEF TypeOK, Receivers
<1>10. NonePassed(sent, r, at, at)
  BY DEF NonePassed, AskedIn
<1>11. InFlight(sent, at, r, c)
  <2>1. at <= at /\ at + 0 = at
    BY <1>5
  <2>2. QED
    BY <1>3, <1>6, <1>9, <1>10, <2>1 DEF InFlight
<1>12. TypeOK'
  BY <1>1, <1>2, <1>4, <1>7, <1>8, <1>9 DEF TypeOK
<1>13. Reads(sent, at, r, c, outcome)
  BY <1>6, <1>11 DEF Reads
<1>14. QED
  BY <1>1, <1>4, <1>8, <1>12, <1>13 DEF Inv

\* Calls that end.
LEMMA EndNothing ==
  ASSUME Inv, call.pc = "prefix", AtEnd, ReturnsNothing(call)
  PROVE  Inv'
<1>1. /\ outcome' = [kind |-> "nothing", call |-> call, body |-> 0]
      /\ call' = NoCall
      /\ sent' = sent /\ at' = at /\ receiver' = receiver
  BY DEF ReturnsNothing
<1>2. TypeOK /\ InFlight(sent, at, receiver, call)
  BY DEF Inv, Reads
<1>3. PICK o : o = outcome'
  OBVIOUS
<1>4. o.kind = "nothing" /\ o.call = call /\ o \in Outcomes
  BY <1>1, <1>2, <1>3 DEF TypeOK, Outcomes
<1>5. TypeOK'
  BY <1>1, <1>2, <1>3, <1>4, NoCallIs DEF TypeOK
<1>6. IsStream(sent) /\ at \in Nat /\ call.prefix = at /\ Boundary(sent, at)
  BY <1>2 DEF TypeOK, InFlight
<1>7. NonePassed(sent, receiver, call.from, sent.arrives)
  <2>1. NonePassed(sent, receiver, call.from, at)
    BY <1>2, <1>6 DEF InFlight
  <2>2. at >= sent.arrives /\ sent.arrives \in Nat
    BY <1>6, StreamFacts DEF AtEnd
  <2>3. \A k \in ItemsIn(sent) : StartIn(sent, k) \in Nat
    BY <1>6, StreamFacts
  <2>4. \A k \in ItemsIn(sent) : StartIn(sent, k) >= at => StartIn(sent, k) >= sent.arrives
    BY <1>6, <2>2, <2>3
  <2>5. QED
    BY <2>1, <2>4 DEF NonePassed
<1>8. AtRest(sent, at, receiver, o)
  <2>1. ~receiver.haveObject /\ call.from + call.bytesRead = at
    BY <1>2 DEF InFlight
  <2>2. QED
    BY <1>4, <1>6, <1>7, <2>1 DEF AtRest
<1>9. Reads(sent, at, receiver, NoCall, o)
  BY <1>8, NoCallIs DEF Reads
<1>10. QED
  BY <1>1, <1>3, <1>5, <1>9 DEF Inv

LEMMA EndThrows ==
  ASSUME Inv, call.pc # "none", sent' = sent, at' \in Nat, NEW kind, Throws(kind),
         \/ kind = "failed"
         \/ /\ kind = "cut"
            /\ \E k \in ItemsIn(sent) :
                 StartIn(sent, k) < sent.arrives /\ sent.arrives < StopIn(sent, k)
  PROVE  Inv'
<1>1. /\ outcome' = [kind |-> kind, call |-> call, body |-> 0]
      /\ call' = NoCall /\ receiver' = receiver
  BY DEF Throws
<1>2. TypeOK /\ InFlight(sent, at, receiver, call)
  BY DEF Inv, Reads
<1>3. PICK o : o = outcome'
  OBVIOUS
<1>4. o.kind = kind /\ o \in Outcomes
  BY <1>1, <1>2, <1>3 DEF TypeOK, Outcomes
<1>5. TypeOK'
  BY <1>1, <1>2, <1>3, <1>4, NoCallIs DEF TypeOK
<1>6. ~receiver.haveObject
  BY <1>2 DEF InFlight
<1>7. PICK a : a = at'
  OBVIOUS
<1>8. AtRest(sent, a, receiver, o)
  BY <1>4, <1>6 DEF AtRest
<1>9. Reads(sent, a, receiver, NoCall, o)
  BY <1>8, NoCallIs DEF Reads
<1>10. QED
  BY <1>1, <1>3, <1>5, <1>7, <1>9 DEF Inv

\* Calls that go on.
LEMMA GoesOnReading ==
  ASSUME Inv, sent' = sent, receiver' = receiver, outcome' = outcome, at' \in Nat,
         call' \in Calls, call'.pc # "none", InFlight(sent, at', receiver, call')
  PROVE  Inv'
<1>1. TypeOK'
  BY DEF Inv, TypeOK
<1>2. PICK a, c : a = at' /\ c = call'
  OBVIOUS
<1>3. Reads(sent, a, receiver, c, outcome)
  BY <1>2 DEF Reads
<1>4. QED
  BY <1>1, <1>2, <1>3 DEF Inv

\* What is known of a call that reads.
LEMMA Reading ==
  ASSUME Inv, call.pc # "none"
  PROVE  /\ IsStream(sent) /\ at \in Nat /\ receiver \in Receivers /\ call \in Calls
         /\ InFlight(sent, at, receiver, call)
         /\ ~receiver.haveObject
         /\ call.from \in Nat /\ call.prefix \in Nat /\ call.bytesRead \in Nat
         /\ call.length \in Nat
         /\ call.from <= call.prefix /\ call.prefix <= at
         /\ call.from + call.bytesRead = at
         /\ NonePassed(sent, receiver, call.from, call.prefix)
BY DEF Inv, TypeOK, Reads, InFlight, Calls

LEMMA ReadingPrefix ==
  ASSUME Inv, call.pc = "prefix"
  PROVE  /\ call.prefix = at
         /\ ~AtEnd => \E k \in ItemsIn(sent) : at = StartIn(sent, k)
<1>1. InFlight(sent, at, receiver, call)
  BY Reading
<1>2. call.prefix = at /\ Boundary(sent, at)
  BY <1>1 DEF InFlight
<1>3. QED
  BY <1>2 DEF Boundary, AtEnd

LEMMA ReadHeaderKeepsInv ==
  ASSUME Inv, ReadHeader
  PROVE  Inv'
<1>1. call.pc = "prefix" /\ sent.style = "tagged"
  BY DEF ReadHeader
<1>2. CASE AtEnd /\ ReturnsNothing(call)
  BY <1>1, <1>2, EndNothing
<1>3. CASE ~AtEnd /\ ~(AtEnd /\ ReturnsNothing(call))
  <2>1. /\ at' = at + 1
        /\ call' = [call EXCEPT !.pc = "length", !.bytesRead = @ + 1,
                                !.tag = Arrived[at + 1][2]]
        /\ sent' = sent /\ receiver' = receiver /\ outcome' = outcome
    BY <1>3 DEF ReadHeader
  <2>2. /\ IsStream(sent) /\ at \in Nat /\ call \in Calls
        /\ ~receiver.haveObject
        /\ call.from \in Nat /\ call.prefix \in Nat /\ call.bytesRead \in Nat
        /\ call.from <= call.prefix /\ call.prefix <= at
        /\ call.from + call.bytesRead = at
        /\ NonePassed(sent, receiver, call.from, call.prefix)
    BY <1>1, Reading
  <2>3. PICK k \in ItemsIn(sent) : at = StartIn(sent, k)
    BY <1>1, <1>3, ReadingPrefix
  <2>4. PICK m \in Nat : m = sent.arrives /\ at < m
    BY <1>3, <2>2, StreamFacts DEF AtEnd
  <2>5. PICK item \in Items : item = sent.items[k]
    BY <2>2, <2>3, StreamFacts
  <2>6. Arrived[at + 1][2] = item.tag
    <3>1. Arrived[at + 1] = CellsIn(sent)[at + 1]
      <4>1. at + 1 \in 1 .. sent.arrives
        BY <2>2, <2>4
      <4>2. QED
        BY <2>2, <4>1, ArrivedIs
    <3>2. PrefixIn(sent, k) = Prefix("tagged", item)
      BY <1>1, <2>5 DEF PrefixIn
    <3>3. 1 \in 1 .. Len(PrefixIn(sent, k))
      <4>1. Placed(sent, k)
        BY <2>2, Layout
      <4>2. QED
        BY <4>1 DEF Placed
    <3>4. CellsIn(sent)[StartIn(sent, k) + 1] = PrefixIn(sent, k)[1]
      <4>1. PrefixAt(sent, k, CellsIn(sent))
        BY <2>2, Layout
      <4>2. QED
        BY <3>3, <4>1 DEF PrefixAt
    <3>5. Prefix("tagged", item)[1] = Header(item.tag, "String")
      BY PrefixTagged
    <3>6. Header(item.tag, "String")[2] = item.tag
      BY DEF Header
    <3>7. QED
      BY <2>3, <3>1, <3>2, <3>4, <3>5, <3>6
  <2>7. PICK c : c = call'
    OBVIOUS
  <2>8. item.tag \in Nat
    BY WireAssumption DEF Items
  <2>9. /\ c \in Calls
        /\ c.pc = "length" /\ c.from = call.from /\ c.prefix = call.prefix
        /\ c.tag = item.tag /\ c.bytesRead = call.bytesRead + 1
    <3>1. PICK t \in Nat : t = item.tag
      BY <2>8
    <3>2. PICK b \in Nat : b = call.bytesRead + 1
      BY <2>2
    <3>3. c = [call EXCEPT !.pc = "length", !.bytesRead = b, !.tag = t]
      <4>1. c = [call EXCEPT !.pc = "length", !.bytesRead = @ + 1, !.tag = t]
        BY <2>1, <2>6, <2>7, <3>1
      <4>2. QED
        BY <2>2, <3>2, <4>1 DEF Calls
    <3>4. /\ c \in Calls
          /\ c.pc = "length" /\ c.from = call.from /\ c.prefix = call.prefix
          /\ c.tag = t /\ c.bytesRead = b
      BY <2>2, <3>3 DEF Calls
    <3>5. QED
      BY <3>1, <3>2, <3>4
  <2>10. HasPrefix(sent, c, k)
    BY <1>1, <2>3, <2>5, <2>9, ReadingPrefix DEF HasPrefix
  <2>11. /\ c.from <= c.prefix /\ c.prefix <= at + 1 /\ at + 1 \in Nat
         /\ c.from + c.bytesRead = at + 1 /\ at + 1 <= sent.arrives
    BY <2>2, <2>4, <2>9
  <2>12. InFlight(sent, at + 1, receiver, c)
    <3>1. NonePassed(sent, receiver, c.from, c.prefix)
      BY <2>2, <2>9
    <3>2. \E j \in ItemsIn(sent) : HasPrefix(sent, c, j) /\ at + 1 = StartIn(sent, j) + 1
      BY <2>3, <2>10
    <3>3. QED
      BY <1>1, <2>2, <2>9, <2>11, <3>1, <3>2 DEF InFlight
  <2>13. QED
    BY <2>1, <2>7, <2>9, <2>11, <2>12, GoesOnReading
<1>4. QED
  BY <1>2, <1>3 DEF ReadHeader

\* The call is behind a prefix that it has read.
LEMMA PrefixIsRead ==
  ASSUME Inv, call.pc # "none", sent' = sent, receiver' = receiver, outcome' = outcome,
         NEW k \in ItemsIn(sent), HasPrefix(sent, call, k),
         NEW a \in Nat, at <= a, a <= sent.arrives, StartIn(sent, k) < a,
         NEW l \in Nat, NEW b \in Nat, call.bytesRead + (a - at) = b,
         \/ a = BodyIn(sent, k) /\ l = sent.items[k].length
         \/ a = sent.arrives /\ a < BodyIn(sent, k) /\ l = 0,
         at' = a, call' = [call EXCEPT !.pc = "choose", !.length = l, !.bytesRead = b]
  PROVE  Inv'
<1>1. /\ IsStream(sent) /\ at \in Nat /\ call \in Calls
      /\ ~receiver.haveObject
      /\ call.from \in Nat /\ call.prefix \in Nat /\ call.bytesRead \in Nat
      /\ call.from <= call.prefix /\ call.prefix <= at
      /\ call.from + call.bytesRead = at
      /\ NonePassed(sent, receiver, call.from, call.prefix)
  BY Reading
<1>2. PICK c : c = call'
  OBVIOUS
<1>3. /\ c \in Calls
      /\ c.pc = "choose" /\ c.from = call.from /\ c.prefix = call.prefix
      /\ c.tag = call.tag /\ c.length = l /\ c.bytesRead = b
  BY <1>1, <1>2 DEF Calls
<1>4. HasPrefix(sent, c, k)
  BY <1>3 DEF HasPrefix
<1>5. BehindPrefix(sent, a, c, k)
  BY <1>3, <1>4 DEF BehindPrefix
<1>6. c.from <= c.prefix /\ c.prefix <= a /\ c.from + c.bytesRead = a
  BY <1>1, <1>3
<1>7. NonePassed(sent, receiver, c.from, c.prefix)
  BY <1>1, <1>3
<1>8. InFlight(sent, a, receiver, c)
  BY <1>1, <1>3, <1>5, <1>6, <1>7 DEF InFlight
<1>9. QED
  BY <1>2, <1>3, <1>8, GoesOnReading

LEMMA ReadTaggedLengthKeepsInv ==
  ASSUME Inv, ReadTaggedLength
  PROVE  Inv'
<1>1. call.pc = "length" /\ sent' = sent
  BY DEF ReadTaggedLength
<1>2. /\ IsStream(sent) /\ at \in Nat /\ call \in Calls
      /\ InFlight(sent, at, receiver, call)
      /\ call.bytesRead \in Nat /\ call.length \in Nat
  BY <1>1, Reading
<1>3. /\ sent.style = "tagged" /\ at <= sent.arrives
      /\ \E k \in ItemsIn(sent) : HasPrefix(sent, call, k) /\ at = StartIn(sent, k) + 1
  BY <1>1, <1>2 DEF InFlight
<1>4. PICK k \in ItemsIn(sent) : HasPrefix(sent, call, k) /\ at = StartIn(sent, k) + 1
  BY <1>3
<1>5. PICK item \in Items : item = sent.items[k]
  BY <1>2, StreamFacts
<1>6. PICK n \in Nat : n = item.length /\ n < Power[VarintSpace]
  BY <1>5, LengthsFit DEF Items
<1>7. PICK w \in Nat : w = Width(n) /\ 1 <= w
  BY <1>6, WidthIs
<1>8. PICK a \in Nat : a = StartIn(sent, k) /\ at = a + 1
  BY <1>2, <1>4, StreamFacts
<1>9. Len(PrefixIn(sent, k)) = 1 + w
      /\ \A i \in 1 .. w : PrefixIn(sent, k)[1 + i] = Digits(n)[i]
  BY <1>3, <1>5, <1>6, <1>7, PrefixTagged DEF PrefixIn
<1>10. BodyIn(sent, k) = at + w
  BY <1>7, <1>8, <1>9 DEF BodyIn
<1>11. \A i \in 1 .. w : CellsIn(sent)[at + i] = Digits(n)[i]
  <2>1. ASSUME NEW i \in 1 .. w PROVE CellsIn(sent)[at + i] = Digits(n)[i]
    <3>1. PICK j \in 1 .. 1 + w : j = 1 + i /\ a + j = at + i
      <4>1. 1 + i \in 1 .. 1 + w /\ a + (1 + i) = at + i
        BY <1>8
      <4>2. QED
        BY <4>1
    <3>2. PrefixAt(sent, k, CellsIn(sent))
      BY <1>2, Layout
    <3>3. CellsIn(sent)[a + j] = PrefixIn(sent, k)[j]
      BY <1>8, <1>9, <3>2 DEF PrefixAt
    <3>4. QED
      BY <1>9, <3>1, <3>3
  <2>2. QED
    BY <2>1
<1>12. /\ at + w <= sent.arrives => VarintStop = at + w /\ VarintValue = n
       /\ sent.arrives < at + w => VarintStop = 0
  BY <1>2, <1>6, <1>7, <1>11, VarintRead
<1>13. PICK m \in Nat : m = sent.arrives /\ at <= m
  BY <1>2, <1>3, StreamFacts
<1>14. /\ BodyIn(sent, k) \in Nat /\ StopIn(sent, k) \in Nat
       /\ BodyIn(sent, k) <= StopIn(sent, k)
  BY <1>2, StreamFacts
<1>15. CASE /\ AtEnd
            /\ call' = [call EXCEPT !.pc = "choose", !.length = 0]
            /\ UNCHANGED <<at, receiver, outcome>>
  <2>1. at = m /\ StartIn(sent, k) < at /\ at < BodyIn(sent, k)
    BY <1>7, <1>8, <1>10, <1>13, <1>15 DEF AtEnd
  <2>2. PICK b \in Nat : b = call.bytesRead
    BY <1>2
  <2>3. call' = [call EXCEPT !.pc = "choose", !.length = 0, !.bytesRead = b]
    BY <1>2, <1>15, <2>2 DEF Calls
  <2>4. at' = at /\ receiver' = receiver /\ outcome' = outcome
    BY <1>15
  <2>5. at <= at /\ call.bytesRead + (at - at) = b /\ 0 \in Nat
    BY <1>2, <2>2
  <2>6. QED
    BY <1>1, <1>2, <1>4, <1>13, <2>1, <2>2, <2>3, <2>4, <2>5, PrefixIsRead
<1>16. CASE ~AtEnd /\ VarintStop = 0 /\ at' = sent.arrives /\ Throws("cut")
  <2>1. m < at + w
    BY <1>2, <1>7, <1>12, <1>13, <1>16
  <2>2. StartIn(sent, k) < sent.arrives /\ sent.arrives < StopIn(sent, k)
    BY <1>7, <1>8, <1>10, <1>13, <1>14, <2>1
  <2>3. at' \in Nat
    BY <1>13, <1>16
  <2>4. QED
    BY <1>1, <1>16, <2>2, <2>3, EndThrows
<1>17. CASE /\ ~AtEnd /\ VarintStop # 0
            /\ at' = VarintStop
            /\ call' = [call EXCEPT !.pc = "choose", !.length = VarintValue,
                                    !.bytesRead = @ + VarintStop - at]
            /\ UNCHANGED <<receiver, outcome>>
  <2>1. VarintStop = at + w /\ VarintValue = n /\ at + w <= m
    BY <1>2, <1>7, <1>12, <1>13, <1>17
  <2>2. PICK b \in Nat : b = call.bytesRead + w
    BY <1>2
  <2>3. PICK e \in Nat : e = at + w /\ at <= e /\ e <= m /\ StartIn(sent, k) < e
    BY <1>2, <1>7, <1>8, <2>1
  <2>4. call.bytesRead + e - at = b /\ call.bytesRead + (e - at) = b
    BY <1>2, <2>2, <2>3
  <2>5. call' = [call EXCEPT !.pc = "choose", !.length = n, !.bytesRead = b]
    <3>1. call' = [call EXCEPT !.pc = "choose", !.length = n, !.bytesRead = @ + e - at]
      BY <1>17, <2>1, <2>3
    <3>2. QED
      BY <1>2, <2>4, <3>1 DEF Calls
  <2>6. at' = e /\ receiver' = receiver /\ outcome' = outcome
    BY <1>17, <2>1, <2>3
  <2>7. e = BodyIn(sent, k) /\ n = sent.items[k].length
    BY <1>5, <1>6, <1>10, <2>3
  <2>8. e <= sent.arrives
    BY <1>13, <2>3
  <2>9. QED
    BY <1>1, <1>4, <2>3, <2>4, <2>5, <2>6, <2>7, <2>8, PrefixIsRead
<1>18. QED
  BY <1>15, <1>16, <1>17 DEF ReadTaggedLength

LEMMA ReadLengthKeepsInv ==
  ASSUME Inv, ReadLength
  PROVE  Inv'
<1>1. call.pc = "prefix" /\ sent.style = "length"
  BY DEF ReadLength
<1>2. /\ IsStream(sent) /\ at \in Nat /\ call \in Calls
      /\ call.bytesRead \in Nat /\ call.prefix = at
  BY <1>1, Reading, ReadingPrefix
<1>3. CASE AtEnd /\ ReturnsNothing(call)
  BY <1>1, <1>3, EndNothing
<1>4. CASE \/ ~AtEnd /\ VarintStop = 0 /\ at' = sent.arrives /\ Throws("cut") /\ sent' = sent
           \/ /\ VarintStop # 0 /\ at' = VarintStop
              /\ call' = [call EXCEPT !.pc = "choose", !.length = VarintValue,
                                      !.bytesRead = @ + VarintStop - at]
              /\ UNCHANGED <<sent, receiver, outcome>>
  <2>1. ~AtEnd
    BY <1>2, <1>4, NothingAtEnd
  <2>2. PICK k \in ItemsIn(sent) : at = StartIn(sent, k)
    BY <1>1, <2>1, ReadingPrefix
  <2>3. HasPrefix(sent, call, k)
    BY <1>1, <1>2, <2>2 DEF HasPrefix
  <2>4. PICK item \in Items : item = sent.items[k]
    BY <1>2, StreamFacts
  <2>5. PICK n \in Nat : n = item.length /\ n < Power[VarintSpace]
    BY <2>4, LengthsFit DEF Items
  <2>6. PICK w \in Nat : w = Width(n) /\ 1 <= w
    BY <2>5, WidthIs
  <2>7. PrefixIn(sent, k) = Digits(n) /\ Len(PrefixIn(sent, k)) = w
    <3>1. PrefixIn(sent, k) = Digits(n)
      BY <1>1, <2>4, <2>5, PrefixLength DEF PrefixIn
    <3>2. QED
      BY <2>5, <2>6, <3>1, DigitsType
  <2>8. BodyIn(sent, k) = at + w
    BY <2>2, <2>7 DEF BodyIn
  <2>9. \A i \in 1 .. w : CellsIn(sent)[at + i] = Digits(n)[i]
    <3>1. PrefixAt(sent, k, CellsIn(sent))
      BY <1>2, Layout
    <3>2. QED
      BY <2>2, <2>7, <3>1 DEF PrefixAt
  <2>10. /\ at + w <= sent.arrives => VarintStop = at + w /\ VarintValue = n
         /\ sent.arrives < at + w => VarintStop = 0
    BY <1>2, <2>5, <2>6, <2>9, VarintRead
  <2>11. PICK m \in Nat : m = sent.arrives /\ at < m
    BY <1>2, <2>1, StreamFacts DEF AtEnd
  <2>12. /\ BodyIn(sent, k) \in Nat /\ StopIn(sent, k) \in Nat
         /\ BodyIn(sent, k) <= StopIn(sent, k)
    BY <1>2, StreamFacts
  <2>13. CASE VarintStop = 0 /\ at' = sent.arrives /\ Throws("cut") /\ sent' = sent
    <3>1. m < at + w
      BY <1>2, <2>6, <2>10, <2>11, <2>13
    <3>2. StartIn(sent, k) < sent.arrives /\ sent.arrives < StopIn(sent, k)
      BY <2>2, <2>8, <2>11, <2>12, <3>1
    <3>3. at' \in Nat
      BY <2>11, <2>13
    <3>4. QED
      BY <1>1, <2>13, <3>2, <3>3, EndThrows
  <2>14. CASE /\ VarintStop # 0 /\ at' = VarintStop
              /\ call' = [call EXCEPT !.pc = "choose", !.length = VarintValue,
                                      !.bytesRead = @ + VarintStop - at]
              /\ UNCHANGED <<sent, receiver, outcome>>
    <3>1. VarintStop = at + w /\ VarintValue = n /\ at + w <= m
      BY <1>2, <2>6, <2>10, <2>11, <2>14
    <3>2. PICK b \in Nat : b = call.bytesRead + w
      BY <1>2, <2>6
    <3>3. PICK e \in Nat : e = at + w /\ at <= e /\ e <= m /\ at < e
      BY <1>2, <2>6, <3>1
    <3>4. call.bytesRead + e - at = b /\ call.bytesRead + (e - at) = b
      BY <1>2, <3>2, <3>3
    <3>5. call' = [call EXCEPT !.pc = "choose", !.length = n, !.bytesRead = b]
      <4>1. call' = [call EXCEPT !.pc = "choose", !.length = n, !.bytesRead = @ + e - at]
        BY <2>14, <3>1, <3>3
      <4>2. QED
        BY <1>2, <3>4, <4>1 DEF Calls
    <3>6. at' = e /\ sent' = sent /\ receiver' = receiver /\ outcome' = outcome
      BY <2>14, <3>1, <3>3
    <3>7. e = BodyIn(sent, k) /\ n = sent.items[k].length
      BY <2>4, <2>5, <2>8, <3>3
    <3>8. e <= sent.arrives /\ StartIn(sent, k) < e
      BY <2>2, <2>11, <3>3
    <3>9. QED
      BY <1>1, <2>3, <3>3, <3>4, <3>5, <3>6, <3>7, <3>8, PrefixIsRead
  <2>15. QED
    BY <1>4, <2>13, <2>14
<1>5. QED
  BY <1>3, <1>4 DEF ReadLength

LEMMA ReadFixedKeepsInv ==
  ASSUME Inv, ReadFixed
  PROVE  Inv'
<1>1. call.pc = "prefix" /\ sent.style = "fixed"
  BY DEF ReadFixed
<1>2. /\ IsStream(sent) /\ at \in Nat /\ call \in Calls
      /\ call.bytesRead \in Nat /\ call.prefix = at
  BY <1>1, Reading, ReadingPrefix
<1>3. CASE AtEnd /\ ReturnsNothing(call)
  BY <1>1, <1>3, EndNothing
<1>4. CASE \/ /\ ~AtEnd /\ at + FixedLength > sent.arrives
              /\ at' = sent.arrives /\ Throws("cut") /\ sent' = sent
           \/ /\ at + FixedLength <= sent.arrives /\ at' = at + FixedLength
              /\ call' = [call EXCEPT !.pc = "choose", !.length = Arrived[at + 1][2],
                                      !.bytesRead = @ + FixedLength]
              /\ UNCHANGED <<sent, receiver, outcome>>
  <2>1. PICK w \in Nat \ {0} : w = FixedLength
    BY WireAssumption
  <2>2. PICK m \in Nat : m = sent.arrives /\ at < m
    BY <1>2, <1>4, <2>1, StreamFacts DEF AtEnd
  <2>3. PICK k \in ItemsIn(sent) : at = StartIn(sent, k)
    BY <1>1, <1>2, <2>2, ReadingPrefix DEF AtEnd
  <2>4. HasPrefix(sent, call, k)
    BY <1>1, <1>2, <2>3 DEF HasPrefix
  <2>5. PICK item \in Items : item = sent.items[k]
    BY <1>2, StreamFacts
  <2>6. PICK n \in Nat : n = item.length
    BY <2>5, LengthsFit DEF Items
  <2>7. Len(PrefixIn(sent, k)) = w /\ PrefixIn(sent, k)[1][2] = n
    BY <1>1, <2>1, <2>5, <2>6, PrefixFixed DEF PrefixIn
  <2>8. BodyIn(sent, k) = at + w
    BY <2>3, <2>7 DEF BodyIn
  <2>9. Arrived[at + 1][2] = n
    <3>1. PrefixAt(sent, k, CellsIn(sent)) /\ 1 \in 1 .. w
      BY <1>2, Layout
    <3>2. CellsIn(sent)[at + 1] = PrefixIn(sent, k)[1]
      BY <2>3, <2>7, <3>1 DEF PrefixAt
    <3>3. at + 1 \in 1 .. sent.arrives
      BY <1>2, <2>2
    <3>4. Arrived[at + 1] = CellsIn(sent)[at + 1]
      BY <1>2, <3>3, ArrivedIs
    <3>5. QED
      BY <2>7, <3>2, <3>4
  <2>10. /\ BodyIn(sent, k) \in Nat /\ StopIn(sent, k) \in Nat
         /\ BodyIn(sent, k) <= StopIn(sent, k)
    BY <1>2, StreamFacts
  <2>11. CASE /\ at + FixedLength > sent.arrives
              /\ at' = sent.arrives /\ Throws("cut") /\ sent' = sent
    <3>1. StartIn(sent, k) < sent.arrives /\ sent.arrives < StopIn(sent, k)
      BY <1>2, <2>1, <2>2, <2>3, <2>8, <2>10, <2>11
    <3>2. at' \in Nat
      BY <2>2, <2>11
    <3>3. QED
      BY <1>1, <2>11, <3>1, <3>2, EndThrows
  <2>12. CASE /\ at + FixedLength <= sent.arrives /\ at' = at + FixedLength
              /\ call' = [call EXCEPT !.pc = "choose", !.length = Arrived[at + 1][2],
                                      !.bytesRead = @ + FixedLength]
              /\ UNCHANGED <<sent, receiver, outcome>>
    <3>1. PICK b \in Nat : b = call.bytesRead + w
      BY <1>2, <2>1
    <3>2. PICK e \in Nat : e = at + w /\ at <= e /\ e <= m /\ at < e
      BY <1>2, <2>1, <2>2, <2>12
    <3>3. call.bytesRead + (e - at) = b
      BY <1>2, <2>1, <3>1, <3>2
    <3>4. call' = [call EXCEPT !.pc = "choose", !.length = n, !.bytesRead = b]
      <4>1. call' = [call EXCEPT !.pc = "choose", !.length = n, !.bytesRead = @ + w]
        BY <2>1, <2>9, <2>12
      <4>2. QED
        BY <1>2, <3>1, <4>1 DEF Calls
    <3>5. at' = e /\ sent' = sent /\ receiver' = receiver /\ outcome' = outcome
      BY <2>1, <2>12, <3>2
    <3>6. e = BodyIn(sent, k) /\ n = sent.items[k].length
      BY <2>5, <2>6, <2>8, <3>2
    <3>7. e <= sent.arrives /\ StartIn(sent, k) < e
      BY <2>2, <2>3, <3>2
    <3>8. QED
      BY <1>1, <2>4, <3>2, <3>3, <3>4, <3>5, <3>6, <3>7, PrefixIsRead
  <2>13. QED
    BY <1>4, <2>11, <2>12
<1>5. QED
  BY <1>3, <1>4 DEF ReadFixed

\* What is known of a call that has read the prefix of an item.
LEMMA Choosing ==
  ASSUME Inv, call.pc = "choose"
  PROVE  \E k \in ItemsIn(sent) :
           /\ BehindPrefix(sent, at, call, k)
           /\ Wanted(call.tag) <=> AskedIn(sent, receiver, call.from, k)
<1>1. /\ IsStream(sent) /\ at \in Nat /\ call \in Calls
      /\ InFlight(sent, at, receiver, call)
      /\ call.from \in Nat /\ call.from <= call.prefix
  BY Reading
<1>2. PICK k \in ItemsIn(sent) : BehindPrefix(sent, at, call, k)
  BY <1>1 DEF InFlight
<1>3. HasPrefix(sent, call, k) /\ StartIn(sent, k) \in Nat
  BY <1>1, <1>2, StreamFacts DEF BehindPrefix
<1>4. StartIn(sent, k) >= call.from
  BY <1>1, <1>3 DEF HasPrefix
<1>5. Wanted(call.tag) <=> AskedIn(sent, receiver, call.from, k)
  BY <1>3, <1>4 DEF HasPrefix, AskedIn, Wanted
<1>6. QED
  BY <1>2, <1>5

LEMMA SkipKeepsInv ==
  ASSUME Inv, Skip
  PROVE  Inv'
<1>1. call.pc = "choose" /\ ~Wanted(call.tag) /\ sent' = sent
  BY DEF Skip
<1>2. /\ IsStream(sent) /\ at \in Nat /\ call \in Calls
      /\ ~receiver.haveObject
      /\ call.from \in Nat /\ call.prefix \in Nat /\ call.bytesRead \in Nat
      /\ call.length \in Nat
      /\ call.from <= call.prefix /\ call.prefix <= at
      /\ call.from + call.bytesRead = at
      /\ NonePassed(sent, receiver, call.from, call.prefix)
  BY <1>1, Reading
<1>3. PICK k \in ItemsIn(sent) : /\ BehindPrefix(sent, at, call, k)
                                 /\ ~AskedIn(sent, receiver, call.from, k)
  BY <1>1, Choosing
<1>4. PICK m \in Nat : m = sent.arrives
  BY <1>2, StreamFacts
<1>5. PICK l \in Nat : l = call.length
  BY <1>2
<1>6. /\ call.prefix = StartIn(sent, k)
      /\ StartIn(sent, k) < at /\ at <= m
      /\ \/ at = BodyIn(sent, k) /\ l = sent.items[k].length
         \/ at = m /\ at < BodyIn(sent, k) /\ l = 0
  BY <1>3, <1>4, <1>5 DEF BehindPrefix, HasPrefix
<1>7. /\ StartIn(sent, k) \in Nat /\ BodyIn(sent, k) \in Nat /\ StopIn(sent, k) \in Nat
      /\ BodyIn(sent, k) <= StopIn(sent, k)
      /\ BodyIn(sent, k) + sent.items[k].length = StopIn(sent, k)
  BY <1>2, StreamFacts
<1>8. CASE /\ at' = at + call.length
           /\ call' = Skipped(call.length)
           /\ UNCHANGED <<receiver, outcome>>
  <2>1. PICK e \in Nat : e = at + l
    BY <1>2
  <2>2. PICK b \in Nat : b = call.bytesRead + l
    BY <1>2
  <2>3. PICK c : c = call'
    OBVIOUS
  <2>4. c = [call EXCEPT !.pc = "prefix", !.prefix = e, !.bytesRead = b]
    <3>1. c = [call EXCEPT !.pc = "prefix", !.prefix = at + l, !.bytesRead = @ + l]
      BY <1>5, <1>8, <2>3 DEF Skipped
    <3>2. QED
      BY <1>2, <2>1, <2>2, <3>1 DEF Calls
  <2>5. /\ c \in Calls
        /\ c.pc = "prefix" /\ c.from = call.from /\ c.prefix = e /\ c.bytesRead = b
    BY <1>2, <2>4 DEF Calls
  <2>6. Boundary(sent, e)
    <3>1. CASE e = StopIn(sent, k)
      BY <1>2, <3>1, StopsAtBoundaries
    <3>2. CASE e = m
      <4>1. e >= sent.arrives
        BY <1>4, <3>2
      <4>2. QED
        BY <4>1 DEF Boundary
    <3>3. QED
      BY <1>2, <1>6, <1>7, <2>1, <3>1, <3>2
  <2>7. e <= StopIn(sent, k)
    BY <1>2, <1>6, <1>7, <2>1
  <2>8. NonePassed(sent, receiver, c.from, e)
    <3>1. ASSUME NEW j \in ItemsIn(sent), AskedIn(sent, receiver, call.from, j)
          PROVE  StartIn(sent, j) >= e
      <4>1. StartIn(sent, j) >= StartIn(sent, k)
        BY <1>2, <1>6, <3>1 DEF NonePassed
      <4>2. j # k
        BY <1>3, <3>1
      <4>3. StartIn(sent, j) \in Nat /\ j \in Nat /\ k \in Nat
        BY <1>2, StreamFacts
      <4>4. k <= j
        <5>1. StartIn(sent, k) <= StartIn(sent, j)
          BY <1>7, <4>1, <4>3
        <5>2. QED
          BY <1>2, <5>1, EarlierItems
      <4>5. k < j
        BY <4>2, <4>3, <4>4
      <4>6. StopIn(sent, k) <= StartIn(sent, j)
        BY <1>2, <4>5, ItemsInOrder
      <4>7. QED
        BY <1>7, <2>7, <4>3, <4>6
    <3>2. QED
      BY <2>5, <3>1 DEF NonePassed
  <2>9. c.from <= c.prefix /\ c.prefix <= e /\ c.from + c.bytesRead = e
    BY <1>2, <2>1, <2>2, <2>5
  <2>10. NonePassed(sent, receiver, c.from, c.prefix)
    BY <2>5, <2>8
  <2>11. InFlight(sent, e, receiver, c)
    BY <1>2, <2>5, <2>6, <2>9, <2>10 DEF InFlight
  <2>12. at' = e /\ receiver' = receiver /\ outcome' = outcome
    BY <1>5, <1>8, <2>1
  <2>13. QED
    BY <1>1, <2>1, <2>3, <2>5, <2>11, <2>12, GoesOnReading
<1>9. CASE at + call.length > sent.arrives /\ at' = sent.arrives /\ Throws("cut")
  <2>1. StartIn(sent, k) < sent.arrives /\ sent.arrives < StopIn(sent, k)
    BY <1>2, <1>4, <1>5, <1>6, <1>7, <1>9
  <2>2. at' \in Nat
    BY <1>4, <1>9
  <2>3. QED
    BY <1>1, <1>9, <2>1, <2>2, EndThrows
<1>10. QED
  BY <1>8, <1>9 DEF Skip

LEMMA TakenIs ==
  ASSUME NEW m \in Nat, m = sent.arrives, at \in Nat, at <= m, NEW l \in Nat, l = call.length
  PROVE  /\ Taken \in Nat
         /\ at + l <= m => Taken = l
         /\ m < at + l => Taken = m - at /\ Taken < l
<1>1. PICK r \in Nat : r = m - at
  <2>1. m - at \in Nat
    OBVIOUS
  <2>2. QED
    BY <2>1
<1>2. PICK t : t = Taken
  OBVIOUS
<1>3. t = Min({l, r})
  BY <1>1, <1>2 DEF Taken
<1>4. t \in {l, r} /\ \A y \in {l, r} : t <= y
  <2>1. \E x \in {l, r} : \A y \in {l, r} : x <= y
    <3>1. l <= r \/ r <= l
      OBVIOUS
    <3>2. l <= l /\ r <= r
      OBVIOUS
    <3>3. QED
      BY <3>1, <3>2
  <2>2. QED
    BY <1>3, <2>1 DEF Min
<1>5. t \in Nat /\ t <= l /\ t <= r /\ (t = l \/ t = r)
  BY <1>1, <1>4
<1>6. QED
  BY <1>1, <1>2, <1>5

LEMMA StopIs ==
  ASSUME NEW m \in Nat, m = sent.arrives, at \in Nat, at <= m, NEW l \in Nat, l = call.length,
         NEW q \in MayStop
  PROVE  /\ q \in Nat /\ at <= q
         /\ at + l <= m => q = at + l
         /\ m < at + l => m <= q
<1>1. PICK t \in Nat : /\ t = Taken
                       /\ at + l <= m => t = l
                       /\ m < at + l => t = m - at /\ t < l
  BY TakenIs
<1>2. q = at + t \/ q \in at + t .. at + l
  <2>1. q = at + Taken \/ q \in at + Taken .. at + call.length
    BY Zenon DEF MayStop
  <2>2. QED
    BY <1>1, <2>1
<1>3. QED
  BY <1>1, <1>2

LEMMA DeserializeKeepsInv ==
  ASSUME Inv, Deserialize
  PROVE  Inv'
<1>1. call.pc = "choose" /\ Wanted(call.tag) /\ sent' = sent
  BY DEF Deserialize
<1>2. /\ IsStream(sent) /\ at \in Nat /\ call \in Calls /\ receiver \in Receivers
      /\ ~receiver.haveObject
      /\ call.from \in Nat /\ call.prefix \in Nat /\ call.bytesRead \in Nat
      /\ call.length \in Nat
      /\ call.from <= call.prefix /\ call.prefix <= at
      /\ call.from + call.bytesRead = at
      /\ NonePassed(sent, receiver, call.from, call.prefix)
  BY <1>1, Reading
<1>3. PICK k \in ItemsIn(sent) : /\ BehindPrefix(sent, at, call, k)
                                 /\ AskedIn(sent, receiver, call.from, k)
  BY <1>1, Choosing
<1>4. PICK m \in Nat : m = sent.arrives
  BY <1>2, StreamFacts
<1>5. PICK l \in Nat : l = call.length
  BY <1>2
<1>6. /\ call.prefix = StartIn(sent, k)
      /\ StartIn(sent, k) < at /\ at <= m
      /\ \/ at = BodyIn(sent, k) /\ l = sent.items[k].length
         \/ at = m /\ at < BodyIn(sent, k) /\ l = 0
  BY <1>3, <1>4, <1>5 DEF BehindPrefix, HasPrefix
<1>7. /\ StartIn(sent, k) \in Nat /\ BodyIn(sent, k) \in Nat /\ StopIn(sent, k) \in Nat
      /\ BodyIn(sent, k) <= StopIn(sent, k)
      /\ BodyIn(sent, k) + sent.items[k].length = StopIn(sent, k)
  BY <1>2, StreamFacts
<1>8. PICK t \in Nat : /\ t = Taken
                       /\ at + l <= m => t = l
                       /\ m < at + l => t = m - at /\ t < l
  BY <1>2, <1>4, <1>5, <1>6, TakenIs
<1>9. ASSUME NEW e \in MayStop,
             /\ at' = e
             /\ outcome' = [kind |-> "object", body |-> at,
                            call |-> [call EXCEPT !.bytesRead = @ + (e - at)]]
             /\ receiver' = [receiver EXCEPT !.haveObject = TRUE]
             /\ call' = NoCall
      PROVE  Inv'
  <2>1. /\ e \in Nat /\ at <= e
        /\ at + l <= m => e = at + l
        /\ m < at + l => m <= e
    BY <1>2, <1>4, <1>5, <1>6, StopIs
  <2>2. PICK b \in Nat : b = call.bytesRead + (e - at)
    BY <1>2, <2>1
  <2>3. PICK c : c = [call EXCEPT !.bytesRead = b]
    OBVIOUS
  <2>4. c \in Calls /\ c.from = call.from /\ c.prefix = call.prefix /\ c.bytesRead = b
    BY <1>2, <2>3 DEF Calls
  <2>5. PICK o : o = outcome'
    OBVIOUS
  <2>6. o = [kind |-> "object", body |-> at, call |-> c]
    <3>1. [call EXCEPT !.bytesRead = @ + (e - at)] = c
      BY <1>2, <2>2, <2>3 DEF Calls
    <3>2. QED
      BY <1>9, <2>5, <3>1
  <2>7. o \in Outcomes /\ o.kind = "object" /\ o.body = at /\ o.call = c
    BY <1>2, <2>4, <2>6 DEF Outcomes
  <2>8. PICK r : r = receiver'
    OBVIOUS
  <2>9. r \in Receivers /\ r.wanted = receiver.wanted
    BY <1>2, <1>9, <2>8 DEF Receivers
  <2>10. \A j, from : AskedIn(sent, r, from, j) <=> AskedIn(sent, receiver, from, j)
    BY <2>9 DEF AskedIn
  <2>11. Boundary(sent, e)
    <3>1. CASE m < at + l
      <4>1. e >= sent.arrives
        BY <1>4, <2>1, <3>1
      <4>2. QED
        BY <4>1 DEF Boundary
    <3>2. CASE at + l <= m
      <4>1. e = StopIn(sent, k) \/ e = m
        BY <1>2, <1>6, <1>7, <2>1, <3>2
      <4>2. CASE e = StopIn(sent, k)
        BY <1>2, <4>2, StopsAtBoundaries
      <4>3. CASE e = m
        <5>1. e >= sent.arrives
          BY <1>4, <4>3
        <5>2. QED
          BY <5>1 DEF Boundary
      <4>4. QED
        BY <4>1, <4>2, <4>3
    <3>3. QED
      BY <1>2, <3>1, <3>2
  <2>12. Returned(sent, e, r, o, k)
    <3>1. AskedIn(sent, r, o.call.from, k)
      BY <1>3, <2>4, <2>7, <2>10
    <3>2. StartIn(sent, k) = o.call.prefix
      BY <1>6, <2>4, <2>7
    <3>3. ASSUME NEW j \in ItemsIn(sent), AskedIn(sent, r, o.call.from, j)
          PROVE  k <= j
      <4>1. AskedIn(sent, receiver, call.from, j)
        BY <2>4, <2>7, <2>10, <3>3
      <4>2. StartIn(sent, j) >= StartIn(sent, k) /\ StartIn(sent, j) \in Nat
        BY <1>2, <1>6, <4>1, StreamFacts DEF NonePassed
      <4>3. StartIn(sent, k) <= StartIn(sent, j)
        BY <1>7, <4>2
      <4>4. QED
        BY <1>2, <4>3, EarlierItems
    <3>4. ASSUME StopIn(sent, k) <= sent.arrives
          PROVE  o.body = BodyIn(sent, k) /\ e = StopIn(sent, k)
      <4>1. at = BodyIn(sent, k) /\ l = sent.items[k].length
        BY <1>2, <1>4, <1>6, <1>7, <3>4
      <4>2. at + l = StopIn(sent, k) /\ at + l <= m
        BY <1>4, <1>7, <3>4, <4>1
      <4>3. QED
        BY <2>1, <2>7, <4>1, <4>2
    <3>5. QED
      BY <3>1, <3>2, <3>3, <3>4 DEF Returned
  <2>13. AtRest(sent, e, r, o)
    <3>1. o.call.from + o.call.bytesRead = e
      BY <1>2, <2>1, <2>2, <2>4, <2>7
    <3>2. QED
      BY <2>7, <2>11, <2>12, <3>1 DEF AtRest
  <2>14. TypeOK'
    <3>1. at' = e /\ call' = NoCall
      BY <1>9
    <3>2. QED
      BY <1>1, <1>2, <2>1, <2>5, <2>7, <2>8, <2>9, <3>1, NoCallIs DEF TypeOK
  <2>15. Reads(sent, e, r, NoCall, o)
    BY <2>13, NoCallIs DEF Reads
  <2>16. at' = e /\ call' = NoCall
    BY <1>9
  <2>17. QED
    BY <1>1, <2>5, <2>8, <2>14, <2>15, <2>16 DEF Inv
<1>10. CASE Taken < call.length /\ at' \in MayStop /\ Throws("cut")
  <2>1. m < at + l
    BY <1>2, <1>5, <1>8, <1>10
  <2>2. StartIn(sent, k) < sent.arrives /\ sent.arrives < StopIn(sent, k)
    BY <1>2, <1>4, <1>6, <1>7, <2>1
  <2>3. at' \in Nat
    BY <1>2, <1>4, <1>5, <1>6, <1>10, StopIs
  <2>4. QED
    BY <1>1, <1>10, <2>2, <2>3, EndThrows
<1>11. CASE at' \in (at .. at + Taken) \union MayStop /\ Throws("failed")
  <2>1. at' \in Nat
    <3>1. CASE at' \in at .. at + Taken
      BY <1>2, <1>8, <3>1
    <3>2. CASE at' \in MayStop
      BY <1>2, <1>4, <1>5, <1>6, <3>2, StopIs
    <3>3. QED
      BY <1>11, <3>1, <3>2
  <2>2. QED
    BY <1>1, <1>11, <2>1, EndThrows
<1>12. QED
  BY <1>9, <1>10, <1>11, Zenon DEF Deserialize

LEMMA StutterKeepsInv == Inv /\ UNCHANGED vars => Inv'
BY DEF Inv, TypeOK, vars

LEMMA InvHolds == Spec => []Inv
<1>1. Inv /\ [Next]_vars => Inv'
  <2> SUFFICES ASSUME Inv, [Next]_vars PROVE Inv'
    OBVIOUS
  <2>1. CASE UNCHANGED vars
    BY <2>1, StutterKeepsInv
  <2>2. CASE \E wanted \in SUBSET Fields : Begin(wanted)
    BY <2>2, BeginKeepsInv
  <2>3. CASE ReadHeader
    BY <2>3, ReadHeaderKeepsInv
  <2>4. CASE ReadTaggedLength
    BY <2>4, ReadTaggedLengthKeepsInv
  <2>5. CASE ReadLength
    BY <2>5, ReadLengthKeepsInv
  <2>6. CASE ReadFixed
    BY <2>6, ReadFixedKeepsInv
  <2>7. CASE Skip
    BY <2>7, SkipKeepsInv
  <2>8. CASE Deserialize
    BY <2>8, DeserializeKeepsInv
  <2>9. QED
    BY <2>1, <2>2, <2>3, <2>4, <2>5, <2>6, <2>7, <2>8 DEF Next
<1>2. QED
  BY <1>1, InitInv, PTL DEF Spec

-----------------------------------------------------------------------------
(* The theorems.                                                           *)

\* The items as the model names them.
LEMMA Named ==
  ASSUME IsStream(sent)
  PROVE  /\ DOMAIN sent.items = ItemsIn(sent)
         /\ \A k : Start(k) = StartIn(sent, k) /\ Body(k) = BodyIn(sent, k)
                   /\ Stop(k) = StopIn(sent, k)
         /\ \A from, k : k \in Asked(from) <=> AskedIn(sent, receiver, from, k)
<1>1. DOMAIN sent.items = ItemsIn(sent)
  BY DEF IsStream, ItemsIn
<1>2. \A k : Start(k) = StartIn(sent, k)
  BY DEF Start, StartIn
<1>3. \A k : Body(k) = BodyIn(sent, k)
  BY <1>2 DEF Body, BodyIn, PrefixIn, Item
<1>4. \A k : Stop(k) = StopIn(sent, k)
  BY <1>3 DEF Stop, StopIn, Item
<1>5. \A from, k : k \in Asked(from) <=> AskedIn(sent, receiver, from, k)
  BY <1>1, <1>2 DEF Asked, AskedIn, Wanted, Item
<1>6. QED
  BY <1>1, <1>2, <1>3, <1>4, <1>5

\* A call of DeserializeWithLengthPrefix returns the first item behind its start
\* that was asked for, and the whole of it if the whole arrived; it returns
\* nothing only when no byte of such an item arrived, and it misses data only when
\* an item is cut off.
THEOREM FirstMatchIsReturned == Spec => []FirstMatch
<1>1. Inv => FirstMatch
  <2> SUFFICES ASSUME Inv, call.pc = "none"
               PROVE  CASE outcome.kind = "object" ->
                             \E k \in Asked(outcome.call.from) :
                               /\ Start(k) = outcome.call.prefix
                               /\ \A j \in Asked(outcome.call.from) : k <= j
                               /\ Stop(k) <= sent.arrives => outcome.body = Body(k) /\ at = Stop(k)
                        [] outcome.kind = "nothing" ->
                             \A k \in Asked(outcome.call.from) : Start(k) >= sent.arrives
                        [] outcome.kind = "cut" ->
                             \E k \in DOMAIN sent.items :
                               Start(k) < sent.arrives /\ sent.arrives < Stop(k)
                        [] OTHER -> TRUE
    BY DEF FirstMatch
  <2>1. IsStream(sent) /\ AtRest(sent, at, receiver, outcome)
    BY DEF Inv, TypeOK, Reads
  <2>2. ASSUME outcome.kind = "object"
        PROVE  \E k \in Asked(outcome.call.from) :
                 /\ Start(k) = outcome.call.prefix
                 /\ \A j \in Asked(outcome.call.from) : k <= j
                 /\ Stop(k) <= sent.arrives => outcome.body = Body(k) /\ at = Stop(k)
    <3>1. PICK k \in ItemsIn(sent) : Returned(sent, at, receiver, outcome, k)
      BY <2>1, <2>2 DEF AtRest
    <3>2. k \in Asked(outcome.call.from) /\ Start(k) = outcome.call.prefix
      BY <2>1, <3>1, Named DEF Returned
    <3>3. \A j \in Asked(outcome.call.from) : k <= j
      BY <2>1, <3>1, Named DEF Returned, AskedIn
    <3>4. Stop(k) <= sent.arrives => outcome.body = Body(k) /\ at = Stop(k)
      BY <2>1, <3>1, Named DEF Returned
    <3>5. QED
      BY <3>2, <3>3, <3>4
  <2>3. ASSUME outcome.kind = "nothing"
        PROVE  \A k \in Asked(outcome.call.from) : Start(k) >= sent.arrives
    <3>1. NonePassed(sent, receiver, outcome.call.from, sent.arrives)
      BY <2>1, <2>3 DEF AtRest
    <3>2. QED
      BY <2>1, <3>1, Named DEF NonePassed, AskedIn
  <2>4. ASSUME outcome.kind = "cut"
        PROVE  \E k \in DOMAIN sent.items : Start(k) < sent.arrives /\ sent.arrives < Stop(k)
    BY <2>1, <2>4, Named DEF AtRest
  <2>5. QED
    BY <2>2, <2>3, <2>4
<1>2. QED
  BY <1>1, InvHolds, PTL

\* The bytesRead that a call gives its caller is how far it moved the stream:
\* over prefixes, bodies and everything it skipped.
THEOREM BytesReadCountsAll == Spec => []BytesReadAgree
<1>1. Inv => BytesReadAgree
  <2> SUFFICES ASSUME Inv, call.pc = "none", outcome.kind \in {"object", "nothing"}
               PROVE  outcome.call.bytesRead = at - outcome.call.from
    BY DEF BytesReadAgree
  <2>1. outcome.call.from + outcome.call.bytesRead = at
    BY DEF Inv, Reads, AtRest
  <2>2. /\ outcome.call.from \in Nat /\ outcome.call.bytesRead \in Nat /\ at \in Nat
    BY DEF Inv, TypeOK, Outcomes, Calls
  <2>3. QED
    BY <2>1, <2>2
<1>2. QED
  BY <1>1, InvHolds, PTL

\* ReadLengthPrefix runs only where a prefix was written: in the first call, in
\* every later one, behind every item that was skipped, and never after a failure.
THEOREM PrefixesAreReadWhereWritten == Spec => []FramesAreKept
<1>1. Inv => FramesAreKept
  <2> SUFFICES ASSUME Inv, call.pc = "prefix", ~AtEnd
               PROVE  \E k \in DOMAIN sent.items : at = Start(k)
    BY DEF FramesAreKept
  <2>1. IsStream(sent)
    BY DEF Inv, TypeOK
  <2>2. PICK k \in ItemsIn(sent) : at = StartIn(sent, k)
    BY ReadingPrefix
  <2>3. QED
    BY <2>1, <2>2, Named
<1>2. QED
  BY <1>1, InvHolds, PTL
=============================================================================
