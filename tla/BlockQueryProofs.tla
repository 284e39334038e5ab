--------------------------- MODULE BlockQueryProofs ---------------------------
(***************************************************************************)
(* Proofs about what the queries select by comparing heights as strings.   *)
(* For any base and number of digits, the strings of the numbers that fit  *)
(* are in the order of the numbers, -1 included; so the rows that sync()   *)
(* and clear() select are those they mean, and the block API serves the    *)
(* indexed chain, for any number of loops.                                 *)
(***************************************************************************)
EXTENDS BlockQueries, LedgerProofs, FiniteLemmas

(***************************************************************************)
(* Division by the base.                                                   *)
(***************************************************************************)

\* What division by the base leaves.
LEMMA DivIs ==
  ASSUME NEW a \in Nat
  PROVE  /\ a \div Base \in Nat /\ a % Base \in 0..(Base - 1)
         /\ a = (Base * (a \div Base)) + (a % Base)
  BY BaseAssumption

\* Multiples of different numbers are the base apart.
LEMMA Times ==
  ASSUME NEW a \in Nat, NEW b \in Nat, a < b
  PROVE  (Base * a) + Base <= Base * b
  <1> DEFINE d == b - (a + 1)
  <1>1. d \in Nat /\ b = (a + 1) + d
    OBVIOUS
  <1> HIDE DEF d
  <1>2. Base * ((a + 1) + d) = ((Base * a) + Base) + (Base * d)
    BY <1>1, BaseAssumption
  <1>3. Base * d \in Nat /\ Base * a \in Nat
    BY <1>1, BaseAssumption
  <1> QED
    BY <1>1, <1>2, <1>3, BaseAssumption

\* Division keeps the order; where it does not tell numbers apart, the
\* digits it takes off do.
LEMMA DivKeepsOrder ==
  ASSUME NEW a \in Nat, NEW b \in Nat, a <= b
  PROVE  /\ a \div Base <= b \div Base
         /\ a \div Base = b \div Base /\ a < b => a % Base < b % Base
  <1> DEFINE p == a \div Base
             q == b \div Base
             r == a % Base
             s == b % Base
             x == Base * p
             y == Base * q
  <1>1. /\ p \in Nat /\ q \in Nat /\ r \in 0..(Base - 1) /\ s \in 0..(Base - 1)
        /\ a = x + r /\ b = y + s
    BY DivIs
  <1>2. x \in Nat /\ y \in Nat
    <2> HIDE DEF p, q
    <2> QED
      BY <1>1, BaseAssumption
  <1>3. q < p => y + Base <= x
    <2> HIDE DEF p, q
    <2> QED
      BY <1>1, Times
  <1>4. p = q => x = y
    OBVIOUS
  <1> HIDE DEF p, q, r, s, x, y
  <1>5. p <= q
    BY <1>1, <1>2, <1>3, BaseAssumption
  <1>6. p = q /\ a < b => r < s
    BY <1>1, <1>2, <1>4, BaseAssumption
  <1> QED
    BY <1>5, <1>6 DEF p, q, r, s

\* Division makes a number smaller.
LEMMA DivShrinks ==
  ASSUME NEW a \in Nat, a > 0
  PROVE  a \div Base < a
  <1> DEFINE q == a \div Base
             x == Base * q
  <1>1. q \in Nat /\ a % Base \in Nat /\ a = x + (a % Base)
    BY DivIs, BaseAssumption
  <1> HIDE DEF q
  <1>2. CASE q = 0
    BY <1>1, <1>2 DEF q
  <1>3. CASE q # 0
    <2>1. Base = 2 + (Base - 2) /\ Base - 2 \in Nat
      BY BaseAssumption
    <2>2. x >= 2 * q
      <3> DEFINE c == Base - 2
      <3>1. x = (2 + c) * q /\ c \in Nat
        BY <2>1
      <3> HIDE DEF c, x
      <3>2. x = (2 * q) + (c * q) /\ c * q \in Nat
        BY <1>1, <3>1
      <3> QED
        BY <1>1, <3>2
    <2>3. x \in Nat
      BY <1>1, BaseAssumption
    <2> HIDE DEF x
    <2> QED
      BY <1>1, <1>3, <2>2, <2>3 DEF q
  <1> QED
    BY <1>2, <1>3

(***************************************************************************)
(* The digits of a number.                                                 *)
(***************************************************************************)

Shorter(n, g, i) == IF i = 0 THEN n ELSE g[i - 1] \div Base
RestTo(n, m, g) == g = [i \in 0..m |-> Shorter(n, g, i)]

\* What a function says that gives the rests up to m.
LEMMA RestToSays ==
  ASSUME NEW n \in Nat, NEW m \in Nat, NEW g, RestTo(n, m, g)
  PROVE  g[0] = n /\ \A i \in Nat : i + 1 <= m => g[i + 1] = g[i] \div Base
  <1>1. \A i \in 0..m : g[i] = Shorter(n, g, i)
    BY DEF RestTo
  <1>2. g[0] = n
    BY <1>1 DEF Shorter
  <1>3. ASSUME NEW i \in Nat, i + 1 <= m
        PROVE  g[i + 1] = g[i] \div Base
    <2>1. i + 1 \in 0..m /\ i + 1 # 0 /\ (i + 1) - 1 = i
      BY <1>3
    <2> QED
      BY <1>1, <2>1 DEF Shorter
  <1> QED
    BY <1>2, <1>3

\* There is one for every m.
LEMMA RestToExists ==
  ASSUME NEW n \in Nat
  PROVE  \A m \in Nat : \E g : RestTo(n, m, g)
  <1> DEFINE good == {m \in Nat : \E g : RestTo(n, m, g)}
  <1>1. 0 \in good
    <2> DEFINE g == [i \in 0..0 |-> n]
    <2>1. \A i \in 0..0 : i = 0
      OBVIOUS
    <2>2. RestTo(n, 0, g)
      BY <2>1 DEF RestTo, Shorter
    <2> QED
      BY <2>2
  <1>2. ASSUME NEW m \in Nat, m \in good
        PROVE  m + 1 \in good
    <2>1. PICK g : RestTo(n, m, g)
      BY <1>2
    <2> DEFINE h == [i \in 0..(m + 1) |-> IF i = m + 1 THEN g[m] \div Base ELSE g[i]]
    <2>2. \A i \in 0..m : g[i] = Shorter(n, g, i)
      BY <2>1 DEF RestTo
    <2>3. ASSUME NEW i \in 0..(m + 1)
          PROVE  h[i] = Shorter(n, h, i)
      <3>1. CASE i = 0
        BY <2>2, <3>1 DEF Shorter
      <3>2. CASE i # 0
        <4>1. i - 1 \in 0..(m + 1) /\ i - 1 # m + 1 /\ h[i - 1] = g[i - 1]
          BY <3>2
        <4>2. CASE i = m + 1
          <5>1. h[i] = g[m] \div Base /\ i - 1 = m
            BY <4>2
          <5> HIDE DEF h
          <5> QED
            BY <3>2, <4>1, <5>1 DEF Shorter
        <4>3. CASE i # m + 1
          <5>1. i \in 0..m /\ h[i] = g[i]
            BY <4>3
          <5>2. g[i] = g[i - 1] \div Base
            BY <2>2, <3>2, <5>1 DEF Shorter
          <5> HIDE DEF h
          <5> QED
            BY <3>2, <4>1, <5>1, <5>2 DEF Shorter
        <4> QED
          BY <4>2, <4>3
      <3> QED
        BY <3>1, <3>2
    <2>4. h = [i \in 0..(m + 1) |-> h[i]]
      OBVIOUS
    <2> HIDE DEF h
    <2>5. RestTo(n, m + 1, h)
      BY <2>3, <2>4 DEF RestTo
    <2> QED
      BY <2>5
  <1>3. \A m \in Nat : m \in good
    <2> HIDE DEF good
    <2> QED
      BY <1>1, <1>2, CountUp
  <1> QED
    BY <1>3

\* Two of them agree as far as both go.
LEMMA RestsAgree ==
  ASSUME NEW n \in Nat, NEW a \in Nat, NEW b \in Nat, a <= b,
         NEW g, RestTo(n, a, g), NEW h, RestTo(n, b, h)
  PROVE  \A i \in 0..a : g[i] = h[i]
  <1> DEFINE good == {i \in Nat : i <= a => g[i] = h[i]}
  <1>1. /\ g[0] = n /\ h[0] = n
        /\ \A i \in Nat : i + 1 <= a => g[i + 1] = g[i] \div Base
        /\ \A i \in Nat : i + 1 <= b => h[i + 1] = h[i] \div Base
    BY RestToSays
  <1>2. 0 \in good
    BY <1>1
  <1>3. ASSUME NEW i \in Nat, i \in good
        PROVE  i + 1 \in good
    <2>1. CASE i + 1 <= a
      <3>1. i + 1 <= b /\ g[i] = h[i]
        BY <1>3, <2>1
      <3>2. g[i + 1] = h[i + 1]
        BY <1>1, <2>1, <3>1
      <3> QED
        BY <3>2
    <2>2. CASE ~(i + 1 <= a)
      BY <2>2
    <2> QED
      BY <2>1, <2>2
  <1>4. \A i \in Nat : i \in good
    <2> HIDE DEF good
    <2> QED
      BY <1>2, <1>3, CountUp
  <1> QED
    BY <1>4

\* The function by which Rest is defined exists.
LEMMA RestUnfolded ==
  ASSUME NEW n \in Nat
  PROVE  Rest(n) = [i \in Nat |-> Shorter(n, Rest(n), i)]
  <1> DEFINE to(m) == CHOOSE g : RestTo(n, m, g)
             r == [i \in Nat |-> to(i)[i]]
  <1>1. \A m \in Nat : RestTo(n, m, to(m))
    BY RestToExists
  <1>2. ASSUME NEW i \in Nat
        PROVE  r[i] = Shorter(n, r, i)
    <2> HIDE DEF to
    <2>1. CASE i = 0
      <3>1. to(0)[0] = n
        BY <1>1, RestToSays
      <3> QED
        BY <2>1, <3>1 DEF Shorter
    <2>2. CASE i # 0
      <3> DEFINE j == i - 1
      <3>1. j \in Nat /\ i = j + 1 /\ j <= i /\ j \in 0..j
        BY <2>2
      <3>2. to(j)[j] = to(i)[j]
        <4>1. RestTo(n, j, to(j)) /\ RestTo(n, i, to(i))
          BY <1>1, <3>1
        <4> HIDE DEF j
        <4>2. \A k \in 0..j : to(j)[k] = to(i)[k]
          BY <3>1, <4>1, RestsAgree
        <4> QED
          BY <3>1, <4>2
      <3>3. to(i)[i] = to(i)[j] \div Base
        <4>1. RestTo(n, i, to(i))
          BY <1>1
        <4>2. \A k \in Nat : k + 1 <= i => to(i)[k + 1] = to(i)[k] \div Base
          BY <4>1, RestToSays
        <4> HIDE DEF j
        <4> QED
          BY <3>1, <4>2
      <3> QED
        BY <2>2, <3>1, <3>2, <3>3 DEF Shorter
    <2> QED
      BY <2>1, <2>2
  <1>3. r = [i \in Nat |-> Shorter(n, r, i)]
    <2>1. r = [i \in Nat |-> r[i]]
      OBVIOUS
    <2> HIDE DEF r
    <2> QED
      BY <1>2, <2>1
  <1> HIDE DEF r
  <1>4. \E g : g = [i \in Nat |-> Shorter(n, g, i)]
    BY <1>3
  <1> QED
    BY <1>4, Zenon DEF Rest, Shorter

\* Each rest is the one before without its last digit.
LEMMA RestIs ==
  ASSUME NEW n \in Nat
  PROVE  /\ Rest(n)[0] = n
         /\ \A i \in Nat : Rest(n)[i] \in Nat /\ Rest(n)[i + 1] = Rest(n)[i] \div Base
  <1>1. \A i \in Nat : Rest(n)[i] = Shorter(n, Rest(n), i)
    BY RestUnfolded
  <1>2. Rest(n)[0] = n
    BY <1>1 DEF Shorter
  <1>3. \A i \in Nat : Rest(n)[i + 1] = Rest(n)[i] \div Base
    <2> TAKE i \in Nat
    <2>1. i + 1 \in Nat /\ i + 1 # 0 /\ (i + 1) - 1 = i
      OBVIOUS
    <2> QED
      BY <1>1, <2>1 DEF Shorter
  <1> DEFINE good == {i \in Nat : Rest(n)[i] \in Nat}
  <1>4. 0 \in good /\ \A i \in Nat : i \in good => i + 1 \in good
    BY <1>2, <1>3, DivIs
  <1>5. \A i \in Nat : i \in good
    <2> HIDE DEF good
    <2> QED
      BY <1>4, CountUp
  <1> QED
    BY <1>2, <1>3, <1>5

\* Nothing is left of nothing.
LEMMA RestOfZero == \A i \in Nat : Rest(0)[i] = 0
  <1> DEFINE good == {i \in Nat : Rest(0)[i] = 0}
  <1>1. 0 \div Base = 0
    BY BaseAssumption
  <1>2. 0 \in good /\ \A i \in Nat : i \in good => i + 1 \in good
    BY <1>1, RestIs
  <1>3. \A i \in Nat : i \in good
    <2> HIDE DEF good
    <2> QED
      BY <1>2, CountUp
  <1> QED
    BY <1>3

\* A number ends: each step takes a digit off.
LEMMA RestEnds ==
  ASSUME NEW n \in Nat
  PROVE  Rest(n)[n + 1] = 0
  <1> DEFINE r == Rest(n)
             good == {i \in Nat : r[i] = 0 \/ r[i] + i <= n}
  <1>1. r[0] = n /\ \A i \in Nat : r[i] \in Nat /\ r[i + 1] = r[i] \div Base
    BY RestIs
  <1> HIDE DEF r
  <1>2. 0 \in good
    BY <1>1
  <1>3. ASSUME NEW i \in Nat, i \in good
        PROVE  i + 1 \in good
    <2>1. r[i] \in Nat /\ r[i + 1] \in Nat /\ r[i + 1] = r[i] \div Base
      BY <1>1
    <2>2. CASE r[i] = 0
      <3>1. 0 \div Base <= 0
        BY BaseAssumption
      <3> QED
        BY <2>1, <2>2, <3>1
    <2>3. CASE r[i] # 0
      <3>1. r[i + 1] < r[i]
        BY <2>1, <2>3, DivShrinks
      <3> QED
        BY <1>3, <2>1, <2>3, <3>1
    <2> QED
      BY <2>2, <2>3
  <1>4. \A i \in Nat : i \in good
    <2> HIDE DEF good
    <2> QED
      BY <1>2, <1>3, CountUp
  <1>5. r[n + 1] = 0 \/ r[n + 1] + (n + 1) <= n
    BY <1>4
  <1> QED
    BY <1>1, <1>5 DEF r

\* What is left of a greater number is not smaller.
LEMMA RestKeepsOrder ==
  ASSUME NEW m \in Nat, NEW n \in Nat, m <= n
  PROVE  \A i \in Nat : Rest(m)[i] <= Rest(n)[i]
  <1> DEFINE r == Rest(m)
             s == Rest(n)
             good == {i \in Nat : r[i] <= s[i]}
  <1>1. /\ r[0] = m /\ \A i \in Nat : r[i] \in Nat /\ r[i + 1] = r[i] \div Base
        /\ s[0] = n /\ \A i \in Nat : s[i] \in Nat /\ s[i + 1] = s[i] \div Base
    BY RestIs
  <1> HIDE DEF r, s
  <1>2. 0 \in good
    BY <1>1
  <1>3. ASSUME NEW i \in Nat, i \in good
        PROVE  i + 1 \in good
    <2>1. r[i] \in Nat /\ s[i] \in Nat /\ r[i] <= s[i]
      BY <1>1, <1>3
    <2>2. r[i] \div Base <= s[i] \div Base
      BY <2>1, DivKeepsOrder
    <2> QED
      BY <1>1, <2>2
  <1>4. \A i \in Nat : i \in good
    <2> HIDE DEF good
    <2> QED
      BY <1>2, <1>3, CountUp
  <1> QED
    BY <1>4 DEF r, s

\* Where the rests of two numbers agree, they go on agreeing.
LEMMA RestStays ==
  ASSUME NEW m \in Nat, NEW n \in Nat, NEW k \in Nat, Rest(m)[k] = Rest(n)[k]
  PROVE  \A i \in Nat : k <= i => Rest(m)[i] = Rest(n)[i]
  <1> DEFINE r == Rest(m)
             s == Rest(n)
             good == {i \in Nat : k <= i => r[i] = s[i]}
  <1>1. /\ r[k] = s[k]
        /\ \A i \in Nat : r[i + 1] = r[i] \div Base /\ s[i + 1] = s[i] \div Base
    BY RestIs
  <1> HIDE DEF r, s
  <1>2. 0 \in good
    BY <1>1
  <1>3. ASSUME NEW i \in Nat, i \in good
        PROVE  i + 1 \in good
    <2>1. CASE k <= i
      BY <1>1, <1>3, <2>1
    <2>2. CASE ~(k <= i)
      <3>1. k <= i + 1 => k = i + 1
        BY <2>2
      <3> QED
        BY <1>1, <3>1
    <2> QED
      BY <2>1, <2>2
  <1>4. \A i \in Nat : i \in good
    <2> HIDE DEF good
    <2> QED
      BY <1>2, <1>3, CountUp
  <1> QED
    BY <1>4 DEF r, s

\* After as many digits as a number has, nothing is left.
LEMMA LengthIs ==
  ASSUME NEW n \in Nat
  PROVE  Length(n) \in 1..(n + 1) /\ Rest(n)[Length(n)] = 0
  <1> DEFINE S == {k \in 1..(n + 1) : Rest(n)[k] = 0}
  <1>1. n + 1 \in S
    BY RestEnds
  <1>2. S \in SUBSET (0..(n + 1)) /\ S # {} /\ n + 1 \in Nat
    BY <1>1
  <1>3. Length(n) = Min(S)
    BY DEF Length
  <1>4. Min(S) \in S
    <2> HIDE DEF S
    <2> QED
      BY <1>2, MinExists
  <1> QED
    BY <1>3, <1>4

\* What is enough for a number is enough for all below it.
LEMMA Fits ==
  ASSUME NEW n \in Nat, Length(n) <= Digits, NEW m \in 0..n
  PROVE  Rest(m)[Digits] = 0 /\ Padded(m) = Numeral(m, Digits)
  <1>1. /\ Digits \in Nat \ {0} /\ m \in Nat /\ m <= n
        /\ Length(n) \in 1..(n + 1) /\ Rest(n)[Length(n)] = 0
    BY DigitsAssumption, LengthIs
  <1> DEFINE r == Rest(m)
             l == Length(m)
             k == Length(n)
  <1>2. \A i \in Nat : r[i] \in Nat
    BY <1>1, RestIs
  <1>3. r[k] = 0
    <2>1. r[k] <= Rest(n)[k] /\ k \in Nat
      BY <1>1, RestKeepsOrder
    <2> HIDE DEF r, k
    <2> QED
      BY <1>1, <1>2, <2>1 DEF k
  <1>4. l \in 1..(m + 1) /\ l <= k
    <2> DEFINE S == {j \in 1..(m + 1) : r[j] = 0}
    <2>1. l \in 1..(m + 1)
      BY <1>1, LengthIs
    <2>2. CASE k \in 1..(m + 1)
      <3>1. k \in S /\ S \in SUBSET (0..(m + 1)) /\ S # {} /\ m + 1 \in Nat
        BY <1>1, <1>3, <2>2
      <3>2. l = Min(S)
        BY DEF Length
      <3> HIDE DEF S
      <3>3. Min(S) <= k
        BY <3>1, MinExists
      <3> QED
        BY <2>1, <3>2, <3>3
    <2>3. CASE k \notin 1..(m + 1)
      <3> HIDE DEF l
      <3>1. k \in Nat /\ k >= 1
        BY <1>1
      <3> HIDE DEF k
      <3> QED
        BY <1>1, <2>1, <2>3, <3>1
    <2> QED
      BY <2>2, <2>3
  <1>5. r[Digits] = 0
    <2>1. Rest(0)[k] = r[k] /\ k \in Nat /\ k <= Digits /\ Rest(0)[Digits] = 0
      BY <1>1, <1>3, RestOfZero
    <2> HIDE DEF k
    <2> QED
      BY <1>1, <2>1, RestStays
  <1>6. Max({l, Digits}) = Digits
    <2>1. l \in Int /\ l <= Digits
      BY <1>1, <1>4
    <2> HIDE DEF l
    <2>2. {l, Digits} \in SUBSET Int /\ Digits \in {l, Digits} /\ \A x \in {l, Digits} : x <= Digits
      BY <1>1, <2>1
    <2> QED
      BY <2>2, MaxIs
  <1> QED
    BY <1>5, <1>6 DEF Padded

(***************************************************************************)
(* Strings in the order of their numbers.                                  *)
(***************************************************************************)

\* The digits of a numeral are what each division leaves.
LEMMA NumeralIs ==
  ASSUME NEW n \in Nat, NEW d \in Nat
  PROVE  /\ Len(Numeral(n, d)) = d
         /\ \A i \in 1..d : /\ Numeral(n, d)[i] = (Rest(n)[d - i] % Base) + 1
                            /\ Numeral(n, d)[i] \in Nat \ {0}
  <1> DEFINE s == [i \in 1..d |-> Character(Rest(n)[d - i] % Base)]
  <1>1. \A i \in 1..d : s[i] = (Rest(n)[d - i] % Base) + 1
    BY DEF Character
  <1>2. ASSUME NEW i \in 1..d
        PROVE  Rest(n)[d - i] % Base \in Nat
    <2>1. d - i \in Nat
      OBVIOUS
    <2>2. Rest(n)[d - i] \in Nat
      BY <2>1, RestIs
    <2> HIDE DEF s
    <2> QED
      BY <2>2, DivIs, BaseAssumption
  <1>3. Numeral(n, d) = s
    BY DEF Numeral
  <1>4. Len(s) = d
    OBVIOUS
  <1> HIDE DEF s
  <1>5. \A i \in 1..d : s[i] \in Nat \ {0}
    BY <1>1, <1>2
  <1> QED
    BY <1>1, <1>3, <1>4, <1>5

\* The first place where two strings of a length differ orders them.
LEMMA BelowIs ==
  ASSUME NEW d \in Nat, NEW s, NEW t, Len(s) = d, Len(t) = d, NEW i \in 1..d,
         \A j \in 1..d : s[j] \in Int /\ t[j] \in Int,
         s[i] < t[i], \A j \in 1..(i - 1) : s[j] = t[j]
  PROVE  Below(s, t) /\ ~Below(t, s)
  <1>1. Min({d}) = d /\ {d, d} = {d}
    <2>1. {d} \in SUBSET Int /\ d \in {d} /\ \A x \in {d} : d <= x
      OBVIOUS
    <2> QED
      BY <2>1, MinIs
  <1>2. Below(s, t)
    BY <1>1 DEF Below
  <1>3. SUFFICES ASSUME Below(t, s) PROVE FALSE
    BY <1>2
  <1>4. PICK k \in 1..d : t[k] < s[k] /\ \A j \in 1..(k - 1) : t[j] = s[j]
    BY <1>1, <1>3 DEF Below
  <1>5. k < i \/ k = i \/ i < k
    OBVIOUS
  <1>6. CASE k < i
    <2>1. k \in 1..(i - 1)
      BY <1>6
    <2> QED
      BY <1>4, <2>1
  <1>7. CASE k = i
    BY <1>4, <1>7
  <1>8. CASE i < k
    <2>1. i \in 1..(k - 1)
      BY <1>8
    <2> QED
      BY <1>4, <2>1
  <1> QED
    BY <1>5, <1>6, <1>7, <1>8

\* Padded to the same length, the strings of two numbers are in their order.
LEMMA NumeralsInOrder ==
  ASSUME NEW d \in Nat \ {0}, NEW m \in Nat, NEW n \in Nat, m < n,
         Rest(m)[d] = 0, Rest(n)[d] = 0
  PROVE  /\ Below(Numeral(m, d), Numeral(n, d)) /\ ~Below(Numeral(n, d), Numeral(m, d))
         /\ Numeral(m, d) # Numeral(n, d)
  <1> DEFINE r == Rest(m)
             s == Rest(n)
             S == {i \in 0..d : r[i] # s[i]}
             k == Max(S)
             i == d - k
  <1>1. /\ r[0] = m /\ \A j \in Nat : r[j] \in Nat /\ r[j + 1] = r[j] \div Base
        /\ s[0] = n /\ \A j \in Nat : s[j] \in Nat /\ s[j + 1] = s[j] \div Base
        /\ \A j \in Nat : r[j] <= s[j]
        /\ r[d] = 0 /\ s[d] = 0
    BY RestIs, RestKeepsOrder
  <1> HIDE DEF r, s
  <1>2. S \in SUBSET (0..d) /\ 0 \in S
    BY <1>1
  <1>3. k \in S /\ \A j \in S : j <= k
    <2> HIDE DEF S
    <2> QED
      BY <1>2, MaxExists
  <1>4. k \in Nat /\ k < d /\ r[k] # s[k] /\ r[k + 1] = s[k + 1]
    <2> HIDE DEF k
    <2>1. k \in 0..d /\ r[k] # s[k] /\ k # d
      BY <1>1, <1>3
    <2>2. k + 1 \in 0..d /\ k + 1 \notin S
      BY <1>3, <2>1
    <2> QED
      BY <2>1, <2>2
  <1>5. \A j \in 0..d : k < j => r[j] = s[j]
    <2> HIDE DEF k
    <2> QED
      BY <1>3, <1>4
  <1> HIDE DEF S, k
  <1>6. r[k] % Base < s[k] % Base
    <2>1. r[k] \in Nat /\ s[k] \in Nat /\ r[k] <= s[k] /\ r[k] # s[k]
      BY <1>1, <1>4
    <2>2. r[k] \div Base = s[k] \div Base
      <3>1. r[k + 1] = r[k] \div Base /\ s[k + 1] = s[k] \div Base
        BY <1>1, <1>4
      <3> QED
        BY <1>4, <3>1
    <2>3. r[k] < s[k]
      BY <2>1
    <2> QED
      BY <2>1, <2>2, <2>3, DivKeepsOrder
  <1>7. i \in 1..d /\ d - i = k
    BY <1>4
  <1>8. /\ Len(Numeral(m, d)) = d /\ Len(Numeral(n, d)) = d
        /\ \A j \in 1..d : /\ Numeral(m, d)[j] = (r[d - j] % Base) + 1
                           /\ Numeral(n, d)[j] = (s[d - j] % Base) + 1
                           /\ Numeral(m, d)[j] \in Int /\ Numeral(n, d)[j] \in Int
    <2>1. /\ Len(Numeral(m, d)) = d
          /\ \A j \in 1..d : /\ Numeral(m, d)[j] = (r[d - j] % Base) + 1
                             /\ Numeral(m, d)[j] \in Nat \ {0}
      BY NumeralIs DEF r
    <2>2. /\ Len(Numeral(n, d)) = d
          /\ \A j \in 1..d : /\ Numeral(n, d)[j] = (s[d - j] % Base) + 1
                             /\ Numeral(n, d)[j] \in Nat \ {0}
      BY NumeralIs DEF s
    <2> QED
      BY <2>1, <2>2
  <1>9. r[k] % Base \in Int /\ s[k] % Base \in Int
    <2>1. r[k] \in Nat /\ s[k] \in Nat
      BY <1>1, <1>4
    <2> QED
      BY <2>1, DivIs, BaseAssumption
  <1>10. Numeral(m, d)[i] < Numeral(n, d)[i]
    <2>1. Numeral(m, d)[i] = (r[k] % Base) + 1 /\ Numeral(n, d)[i] = (s[k] % Base) + 1
      BY <1>7, <1>8
    <2> QED
      BY <1>6, <1>9, <2>1
  <1>11. \A j \in 1..(i - 1) : Numeral(m, d)[j] = Numeral(n, d)[j]
    <2> TAKE j \in 1..(i - 1)
    <2>1. j \in 1..d /\ d - j \in 0..d /\ k < d - j
      BY <1>4, <1>7
    <2> QED
      BY <1>5, <1>8, <2>1
  <1> HIDE DEF i
  <1> QED
    BY <1>7, <1>8, <1>10, <1>11, BelowIs

\* A minus sign, of a string that is longer, is before any digit.
LEMMA MinusIsFirst ==
  ASSUME NEW d \in Nat \ {0}, NEW s, NEW t, Len(s) = d + 1, Len(t) = d,
         s[1] \in Int, t[1] \in Int, s[1] < t[1]
  PROVE  Below(s, t) /\ ~Below(t, s)
  <1>1. Min({Len(s), Len(t)}) = d /\ 1 \in 1..d
    <2>1. /\ {Len(s), Len(t)} \in SUBSET Int /\ d \in {Len(s), Len(t)}
          /\ \A x \in {Len(s), Len(t)} : d <= x
      OBVIOUS
    <2>2. Min({Len(s), Len(t)}) = d
      BY <2>1, MinIs
    <2>3. 1 \in 1..d
      OBVIOUS
    <2> QED
      BY <2>2, <2>3
  <1>2. Below(s, t)
    <2>1. 1 \in 1..d /\ \A j \in 1..(1 - 1) : s[j] = t[j]
      OBVIOUS
    <2> QED
      BY <1>1, <2>1 DEF Below
  <1>3. ~(Len(t) < Len(s) /\ t = SubSeq(s, 1, Len(t)))
    <2>1. SUFFICES ASSUME t = SubSeq(s, 1, d) PROVE FALSE
      OBVIOUS
    <2>2. SubSeq(s, 1, d)[1] = s[1]
      OBVIOUS
    <2> QED
      BY <2>1, <2>2
  <1>4. ~\E i \in 1..d : t[i] < s[i] /\ \A j \in 1..(i - 1) : t[j] = s[j]
    <2>1. SUFFICES ASSUME NEW i \in 1..d, t[i] < s[i], \A j \in 1..(i - 1) : t[j] = s[j]
                   PROVE  FALSE
      OBVIOUS
    <2>2. CASE i = 1
      BY <2>1, <2>2
    <2>3. CASE i # 1
      <3>1. 1 \in 1..(i - 1)
        BY <2>3
      <3> QED
        BY <2>1, <3>1
    <2> QED
      BY <2>2, <2>3
  <1> QED
    BY <1>1, <1>2, <1>3, <1>4 DEF Below

\* No string is before itself.
LEMMA NotBelowItself ==
  ASSUME NEW d \in Nat, NEW s, Len(s) = d, \A i \in 1..d : s[i] \in Int
  PROVE  ~Below(s, s)
  <1>1. Min({Len(s), Len(s)}) = d
    <2>1. {d} \in SUBSET Int /\ d \in {d} /\ \A x \in {d} : d <= x
      OBVIOUS
    <2>2. Min({d}) = d
      BY <2>1, MinIs
    <2> QED
      BY <2>2
  <1> QED
    BY <1>1 DEF Below

\* Numbers that fit are stored with as many digits as there are.
LEMMA FormatIs ==
  ASSUME NEW top \in Nat, Length(top) <= Digits, NEW x \in 0..top
  PROVE  /\ FormatSortableInt(x) = Numeral(x, Digits)
         /\ Rest(x)[Digits] = 0
         /\ Len(FormatSortableInt(x)) = Digits
         /\ \A i \in 1..Digits : FormatSortableInt(x)[i] \in Nat \ {0}
  <1>1. FormatSortableInt(x) = Padded(x)
    BY DEF FormatSortableInt
  <1>2. Padded(x) = Numeral(x, Digits) /\ Rest(x)[Digits] = 0
    BY Fits
  <1> QED
    BY <1>1, <1>2, NumeralIs, DigitsAssumption

\* The stamp of compacted rows is stored with one character more.
LEMMA PermanentIs ==
  ASSUME NEW top \in Nat \ {0}, Length(top) <= Digits
  PROVE  /\ Len(FormatSortableInt(-1)) = Digits + 1
         /\ FormatSortableInt(-1)[1] = Minus
         /\ \A i \in 1..(Digits + 1) : FormatSortableInt(-1)[i] \in Int
  <1> DEFINE s == Numeral(1, Digits)
             f == FormatSortableInt(-1)
  <1>1. f = <<Minus>> \o s
    <2>1. Padded(1) = s
      BY Fits
    <2>2. -1 < 0
      OBVIOUS
    <2>3. -(-1) = 1
      <3>1. \A k \in Int : k + 1 = 0 => -k = 1
        OBVIOUS
      <3>2. -1 \in Int /\ -1 + 1 = 0
        OBVIOUS
      <3> QED
        BY <3>1, <3>2, Zenon
    <2>4. f = <<Minus>> \o Padded(-(-1))
      BY <2>2 DEF FormatSortableInt
    <2> QED
      BY <2>1, <2>3, <2>4
  <1>2. s \in Seq(Int) /\ Len(s) = Digits
    <2>1. Len(s) = Digits /\ \A i \in 1..Digits : s[i] \in Int
      BY NumeralIs, DigitsAssumption
    <2>2. s = [i \in 1..Digits |-> s[i]]
      BY DEF Numeral
    <2> HIDE DEF s
    <2> QED
      BY <2>1, <2>2, DigitsAssumption
  <1> HIDE DEF s, f
  <1>3. Minus \in Int
    BY DEF Minus
  <1>4. <<Minus>> \in Seq(Int) /\ Len(<<Minus>>) = 1 /\ <<Minus>>[1] = Minus
    BY <1>3
  <1>5. f \in Seq(Int) /\ Len(f) = Digits + 1 /\ f[1] = Minus
    BY <1>1, <1>2, <1>4, DigitsAssumption
  <1> QED
    BY <1>5 DEF f

\* The order of the strings is that of the numbers, -1 included.
LEMMA FormatsInOrder ==
  ASSUME NEW top \in Nat \ {0}, Length(top) <= Digits, NEW x \in -1..top, NEW y \in -1..top
  PROVE  /\ Below(FormatSortableInt(x), FormatSortableInt(y)) <=> x < y
         /\ FormatSortableInt(x) = FormatSortableInt(y) => x = y
  <1> DEFINE F(n) == FormatSortableInt(n)
  <1>1. \A n \in 0..top : /\ F(n) = Numeral(n, Digits) /\ Rest(n)[Digits] = 0
                          /\ Len(F(n)) = Digits /\ \A i \in 1..Digits : F(n)[i] \in Nat \ {0}
    BY FormatIs
  <1>2. /\ Len(F(-1)) = Digits + 1 /\ F(-1)[1] = Minus
        /\ \A i \in 1..(Digits + 1) : F(-1)[i] \in Int
    BY PermanentIs
  <1>3. Digits \in Nat \ {0} /\ 1 \in 1..Digits
    BY DigitsAssumption
  <1>4. ASSUME NEW m \in -1..top, NEW n \in -1..top, m < n
        PROVE  Below(F(m), F(n)) /\ ~Below(F(n), F(m)) /\ F(m) # F(n)
    <2>1. CASE m = -1
      <3>1. n \in 0..top
        BY <1>4, <2>1
      <3>2. Len(F(n)) = Digits /\ F(n)[1] \in Nat \ {0}
        BY <1>1, <1>3, <3>1
      <3>3. F(-1)[1] \in Int /\ F(-1)[1] < F(n)[1]
        BY <1>2, <3>2 DEF Minus
      <3>4. Below(F(-1), F(n)) /\ ~Below(F(n), F(-1))
        BY <1>2, <1>3, <3>2, <3>3, MinusIsFirst
      <3> QED
        BY <2>1, <3>2, <3>3, <3>4
    <2>2. CASE m # -1
      <3>1. m \in 0..top /\ n \in 0..top /\ m \in Nat /\ n \in Nat
        BY <1>4, <2>2
      <3>2. /\ F(m) = Numeral(m, Digits) /\ Rest(m)[Digits] = 0
            /\ F(n) = Numeral(n, Digits) /\ Rest(n)[Digits] = 0
        BY <1>1, <3>1
      <3> QED
        BY <1>3, <1>4, <3>1, <3>2, NumeralsInOrder
    <2> QED
      BY <2>1, <2>2
  <1>5. ASSUME NEW m \in -1..top
        PROVE  ~Below(F(m), F(m))
    <2>1. CASE m = -1
      <3>1. Digits + 1 \in Nat
        BY <1>3
      <3> QED
        BY <1>2, <2>1, <3>1, NotBelowItself
    <2>2. CASE m # -1
      <3>1. Len(F(m)) = Digits /\ \A i \in 1..Digits : F(m)[i] \in Int
        BY <1>1, <2>2
      <3> QED
        BY <1>3, <3>1, NotBelowItself
    <2> QED
      BY <2>1, <2>2
  <1> HIDE DEF F
  <1>6. x < y \/ x = y \/ y < x
    OBVIOUS
  <1>7. /\ Below(F(x), F(y)) <=> x < y
        /\ F(x) = F(y) => x = y
    <2>1. CASE x < y
      BY <1>4, <2>1
    <2>2. CASE x = y
      BY <1>5, <2>2
    <2>3. CASE y < x
      BY <1>4, <2>3
    <2> QED
      BY <1>6, <2>1, <2>2, <2>3
  <1> QED
    BY <1>7 DEF F

(***************************************************************************)
(* What was stored is read.                                                *)
(***************************************************************************)

\* Digit by digit, reading undoes what division did.
LEMMA ValueIs ==
  ASSUME NEW d \in Nat, NEW n \in Nat, Rest(n)[d] = 0
  PROVE  Value(Numeral(n, d)) = n
  <1> DEFINE s == Numeral(n, d)
             Turn(g, i) == IF i = 0 THEN 0 ELSE g[i - 1] * Base + (s[i] - Character(0))
             Reads(g) == g = [i \in 0..Len(s) |-> Turn(g, i)]
             read == [i \in 0..d |-> Rest(n)[d - i]]
  <1>1. Len(s) = d /\ \A i \in 1..d : s[i] = (Rest(n)[d - i] % Base) + 1
    BY NumeralIs
  <1>2. /\ Rest(n)[0] = n
        /\ \A i \in Nat : Rest(n)[i] \in Nat /\ Rest(n)[i + 1] = Rest(n)[i] \div Base
    BY RestIs
  <1>3. \A i \in 1..d : /\ Rest(n)[d - (i - 1)] \in Nat /\ Rest(n)[d - i] % Base \in Int
                        /\ Rest(n)[d - i] =
                             (Rest(n)[d - (i - 1)] * Base) + (Rest(n)[d - i] % Base)
    <2> TAKE i \in 1..d
    <2>1. d - i \in Nat /\ (d - i) + 1 = d - (i - 1)
      OBVIOUS
    <2> DEFINE a == Rest(n)[d - i]
               q == Rest(n)[d - (i - 1)]
    <2>2. a \in Nat /\ q \in Nat /\ q = a \div Base
      BY <1>2, <2>1
    <2> HIDE DEF a, q
    <2>3. a % Base \in 0..(Base - 1) /\ a = (Base * (a \div Base)) + (a % Base)
      BY <2>2, DivIs
    <2>4. Base * q = q * Base
      BY <2>2, BaseAssumption
    <2>5. q \in Nat /\ a % Base \in Int /\ a = (q * Base) + (a % Base)
      BY <2>2, <2>3, <2>4, BaseAssumption
    <2> QED
      BY <2>5 DEF a, q
  <1> HIDE DEF s
  <1>4. Reads(read)
    <2>1. ASSUME NEW i \in 0..d
          PROVE  read[i] = Turn(read, i)
      <3>1. CASE i = 0
        <4>1. d - 0 = d
          OBVIOUS
        <4> QED
          BY <3>1, <4>1
      <3>2. CASE i # 0
        <4>1. i \in 1..d /\ i - 1 \in 0..d
          BY <3>2
        <4>2. read[i] = Rest(n)[d - i] /\ read[i - 1] = Rest(n)[d - (i - 1)]
          BY <4>1
        <4>3. s[i] - Character(0) = Rest(n)[d - i] % Base
          BY <1>1, <1>3, <4>1 DEF Character
        <4> HIDE DEF read
        <4> QED
          BY <1>3, <3>2, <4>1, <4>2, <4>3
      <3> QED
        BY <3>1, <3>2
    <2>2. read = [i \in 0..d |-> read[i]]
      OBVIOUS
    <2> HIDE DEF read, Turn
    <2> QED
      BY <1>1, <2>1, <2>2
  <1>5. ASSUME NEW g, Reads(g)
        PROVE  g[d] = n
    <2>1. \A i \in 0..d : g[i] = Turn(g, i)
      BY <1>1, <1>5
    <2> DEFINE good == {i \in Nat : i <= d => g[i] = Rest(n)[d - i]}
    <2>2. 0 \in good
      <3>1. d - 0 = d /\ 0 \in 0..d
        OBVIOUS
      <3> QED
        BY <2>1, <3>1
    <2>3. ASSUME NEW i \in Nat, i \in good
          PROVE  i + 1 \in good
      <3>1. CASE i + 1 <= d
        <4> DEFINE j == i + 1
        <4>1. j \in 1..d /\ j \in 0..d /\ j # 0 /\ j - 1 = i /\ i <= d
          BY <3>1
        <4>2. g[i] = Rest(n)[d - i]
          BY <2>3, <4>1
        <4> HIDE DEF j
        <4>3. g[j] = g[i] * Base + (s[j] - Character(0))
          BY <2>1, <4>1
        <4>4. s[j] - Character(0) = Rest(n)[d - j] % Base
          BY <1>1, <1>3, <4>1 DEF Character
        <4>5. g[j] = Rest(n)[d - j]
          BY <1>3, <4>1, <4>2, <4>3, <4>4
        <4> QED
          BY <4>5 DEF j
      <3>2. CASE ~(i + 1 <= d)
        BY <3>2
      <3> QED
        BY <3>1, <3>2
    <2>4. \A i \in Nat : i \in good
      <3> HIDE DEF good
      <3> QED
        BY <2>2, <2>3, CountUp
    <2>5. g[d] = Rest(n)[d - d]
      BY <2>4
    <2>6. d - d = 0
      OBVIOUS
    <2> QED
      BY <1>2, <2>5, <2>6
  <1> DEFINE upTo == CHOOSE g : Reads(g)
  <1>6. Reads(upTo)
    <2> HIDE DEF Reads, read
    <2> QED
      BY <1>4
  <1>7. Value(s) = upTo[Len(s)]
    BY DEF Value
  <1>8. upTo[d] = n
    <2> HIDE DEF Reads, upTo
    <2> QED
      BY <1>5, <1>6
  <1> QED
    BY <1>1, <1>7, <1>8 DEF s

\* What was stored is read.
LEMMA ParseIs ==
  ASSUME NEW top \in Nat, Length(top) <= Digits, NEW x \in 0..top
  PROVE  ParseSortableInt(FormatSortableInt(x)) = x
  <1>1. /\ FormatSortableInt(x) = Numeral(x, Digits) /\ Rest(x)[Digits] = 0
        /\ FormatSortableInt(x)[1] \in Nat \ {0}
    BY FormatIs, DigitsAssumption
  <1>2. FormatSortableInt(x)[1] # Minus
    BY <1>1 DEF Minus
  <1>3. Value(Numeral(x, Digits)) = x
    BY <1>1, ValueIs, DigitsAssumption
  <1> QED
    BY <1>1, <1>2, <1>3 DEF ParseSortableInt

(***************************************************************************)
(* No height is above the bound.                                           *)
(***************************************************************************)

\* Neither of the node, of what is indexed or about to be, nor of a row.
HeightsBounded ==
  /\ Len(chain) <= MaxHeight
  /\ Len(Indexed) <= MaxHeight
  /\ \A s \in Syncers : \A h \in Answered(s) : h <= MaxHeight
  /\ \A k \in Keys : DOMAIN rows[k] \subseteq Permanent..MaxHeight

BoundedInv == IndexerInv /\ HeightsBounded

LEMMA InitBounded == ASSUME IndexerInit PROVE HeightsBounded
  <1>1. chain = Origin /\ Indexed = Origin
    BY DEF IndexerInit, NodeInit, StoreInit, Indexed
  <1>2. \A s \in Syncers : DOMAIN queries[s] = {}
    BY DEF IndexerInit, SyncInit, NoQueries
  <1>3. \A k \in Keys : DOMAIN rows[k] = {}
    BY DEF IndexerInit, StoreInit
  <1> QED
    BY <1>1, <1>2, <1>3, MaxHeightAssumption DEF HeightsBounded, Answered

\* A branch that wins ends not above the chain it replaces.
LEMMA NodeBounded == ASSUME BoundedInv, NodeStep PROVE Len(chain') <= MaxHeight
  <1>1. chain \in Seq(Payloads) /\ Len(chain) \in Nat /\ final \in Nat /\ MaxHeight \in Nat
    BY Heights, MaxHeightAssumption DEF BoundedInv
  <1>2. CASE Grow
    <2>1. PICK p \in Payloads : Adopt(Append(chain, p))
      BY <1>2 DEF Grow
    <2>2. Len(Append(chain, p)) = Len(chain) + 1 /\ Len(chain) < MaxHeight
      BY <1>1, <1>2, <2>1, AppendProperties DEF Grow
    <2> QED
      BY <1>1, <2>1, <2>2 DEF Adopt
  <1>3. CASE Reorg
    <2>1. PICK n \in final..(Len(chain) - 1), p \in Payloads : Adopt(Append(Prefix(chain, n), p))
      BY <1>3 DEF Reorg
    <2>2. n \in 0..Len(chain) /\ n + 1 <= Len(chain)
      BY <1>1
    <2>3. Prefix(chain, n) \in Seq(Payloads) /\ Len(Prefix(chain, n)) = n
      BY <1>1, <2>2, PrefixType
    <2>4. Len(Append(Prefix(chain, n), p)) = n + 1
      BY <2>3, AppendProperties
    <2> QED
      BY <1>1, <2>1, <2>2, <2>4 DEF Adopt, BoundedInv, HeightsBounded
  <1> QED
    BY <1>2, <1>3 DEF NodeStep, NodeNext

\* The node only answers up to the end of its chain.
LEMMA AnswersBounded ==
  ASSUME BoundedInv, NEW s \in Syncers, SyncStep(s) \/ Fail(s)
  PROVE  \A r \in Syncers : \A h \in Answered(r)' : h <= MaxHeight
  <1> USE DEF BoundedInv, IndexerInv, SyncInv, TypeOK
  <1>1. \A r \in Syncers : \A h \in Answered(r) : h <= MaxHeight
    BY DEF HeightsBounded
  <1>2. CASE Stop(s)
    BY <1>1, <1>2 DEF Stop, Answered, NoQueries
  <1>3. CASE GetTip(s)
    BY <1>1, <1>3 DEF GetTip, Answered
  <1>4. CASE \E y \in DOMAIN queries[s] : Fetch(s, y)
    <2>1. PICK y \in DOMAIN queries[s] : Fetch(s, y)
      BY <1>4
    <2>2. /\ \A r \in Syncers : DOMAIN queries'[r] = DOMAIN queries[r]
          /\ \A r \in Syncers : \A z \in DOMAIN queries[r] :
               queries'[r][z] = IF r = s /\ z = y THEN BlockAt(y, Missing) ELSE queries[r][z]
      BY <2>1 DEF Fetch
    <2>3. BlockAt(y, Missing) # Missing => y <= MaxHeight
      <3>1. Len(chain) \in Nat /\ Len(chain) <= MaxHeight /\ MaxHeight \in Nat
        BY Heights, MaxHeightAssumption DEF HeightsBounded
      <3> QED
        BY <3>1 DEF BlockAt
    <2> QED
      BY <1>1, <2>2, <2>3 DEF Answered
  <1>5. CASE queries' = queries
    BY <1>1, <1>5 DEF Answered
  <1> QED
    BY <1>2, <1>3, <1>4, <1>5
    DEF SyncStep, Fail, ReadPending, StreamEnd, TakeBlock, Rollback, RollbackFails,
        SaveBatch, SaveTxs, SaveCode, CommitBlock, CommitFails, syncVars

\* What is indexed next was answered; a rollback only takes away.
LEMMA IndexedBounded ==
  ASSUME BoundedInv, NEW s \in Syncers, SyncStep(s) \/ Fail(s)
  PROVE  /\ Len(Indexed') <= MaxHeight
         /\ \A k \in Keys : DOMAIN rows'[k] \subseteq Permanent..MaxHeight
  <1> USE DEF BoundedInv, IndexerInv, HeightsBounded
  <1>1. MaxHeight \in Nat /\ DOMAIN rows = Keys
    BY MaxHeightAssumption DEF SyncInv, TypeOK
  <1>2. CASE Rollback(s)
    <2>1. /\ Indexed \in Seq(Payloads) /\ Len(Indexed) \in Nat /\ Len(Indexed) > Start
          /\ Start \in Nat /\ Indexed' = Parent(Indexed)
      BY <1>2, UndoneBlock, Heights
    <2>2. Len(Indexed') = Len(Indexed) - 1
      BY <2>1, ParentType
    <2>3. \A k \in Keys : DOMAIN rows'[k] \subseteq DOMAIN rows[k]
      BY <1>2 DEF Rollback, DropFrom, Restrict
    <2> QED
      BY <1>1, <2>1, <2>2, <2>3
  <1>3. CASE CommitBlock(s)
    <2>1. /\ Indexed' = Current(s) /\ Len(Current(s)) = next[s] /\ next[s] \in Nat
          /\ next[s] \in Answered(s)
      BY <1>3, CommittedBlock DEF Answered, Current
    <2>2. next[s] \in Permanent..MaxHeight
      BY <1>1, <2>1 DEF Permanent
    <2>3. \A k \in Keys : DOMAIN rows'[k] \subseteq DOMAIN rows[k] \cup {next[s]}
      BY <1>3 DEF CommitBlock, Stamp
    <2> QED
      BY <1>1, <2>1, <2>2, <2>3
  <1>4. CASE ~Rollback(s) /\ ~CommitBlock(s)
    <2>1. Indexed' = Indexed /\ rows' = rows
      BY <1>4 DEF SyncStep, Fail, ReadPending, GetTip, Fetch, StreamEnd, TakeBlock, RollbackFails,
                  SaveBatch, SaveTxs, SaveCode, CommitFails, storeVars, statusVars, Indexed
    <2> QED
      BY <2>1
  <1> QED
    BY <1>2, <1>3, <1>4

\* Compacting moves a row to the lowest stamp.
LEMMA CompactBounded ==
  ASSUME BoundedInv, NEW c \in Clearers, ClearStep(c) \/ ClearFail(c)
  PROVE  \A k \in Keys : DOMAIN rows'[k] \subseteq Permanent..MaxHeight
  <1>1. /\ \A k \in Keys : DOMAIN rows[k] \subseteq Permanent..MaxHeight
        /\ DOMAIN rows = Keys /\ Permanent \in Permanent..MaxHeight
    BY MaxHeightAssumption DEF BoundedInv, HeightsBounded, IndexerInv, SyncInv, TypeOK, Permanent
  <1>2. CASE Compact(c)
    <2>1. \A history, row : DOMAIN Compacted(history, row) \subseteq DOMAIN history \cup {Permanent}
      BY DEF Compacted, Restrict
    <2>2. \A k \in Keys : rows'[k] = rows[k] \/ rows'[k] = Compacted(rows[k], picked[c])
      BY <1>1, <1>2 DEF Compact
    <2> QED
      BY <1>1, <2>1, <2>2
  <1>3. CASE ~Compact(c)
    <2>1. rows' = rows
      BY <1>3 DEF ClearStep, ClearFail, ClearStart, ReadSynced, NothingConfirmed, MarkSynced,
                  MarkFails, Pick, TableDone, ClearTxs, storeVars
    <2> QED
      BY <1>1, <2>1
  <1> QED
    BY <1>2, <1>3

LEMMA NextBounded == ASSUME BoundedInv, [IndexerNext]_indexerVars PROVE HeightsBounded'
  <1>1. CASE NodeSide
    <2>1. Len(chain') <= MaxHeight
      BY <1>1, NodeBounded DEF NodeSide
    <2>2. UNCHANGED <<queries, rows, pendingHash>>
      BY <1>1 DEF NodeSide, NodeStep, storeVars, syncVars
    <2> QED
      BY <2>1, <2>2 DEF BoundedInv, HeightsBounded, Answered, Indexed
  <1>2. CASE SyncSide
    <2>1. PICK s \in Syncers : SyncStep(s) \/ Fail(s)
      BY <1>2 DEF SyncSide
    <2>2. chain' = chain
      BY <2>1 DEF SyncStep, Fail, ReadPending, GetTip, Fetch, StreamEnd, TakeBlock, Rollback,
                  RollbackFails, SaveBatch, SaveTxs, SaveCode, CommitBlock, CommitFails, nodeVars
    <2> QED
      BY <2>1, <2>2, AnswersBounded, IndexedBounded DEF BoundedInv, HeightsBounded
  <1>3. CASE ClearSide
    <2>1. PICK c \in Clearers : (ClearStep(c) \/ ClearFail(c)) /\ UNCHANGED <<nodeVars, syncVars>>
      BY <1>3 DEF ClearSide
    <2>2. UNCHANGED <<chain, queries, pendingHash>>
      BY <2>1, ClearLeaves DEF nodeVars, syncVars
    <2> QED
      BY <2>1, <2>2, CompactBounded DEF BoundedInv, HeightsBounded, Answered, Indexed
  <1>4. CASE UNCHANGED indexerVars
    <2>1. UNCHANGED <<chain, queries, pendingHash, rows>>
      BY <1>4 DEF indexerVars, vars, nodeVars, storeVars, syncVars
    <2> QED
      BY <2>1 DEF BoundedInv, HeightsBounded, Answered, Indexed
  <1> QED
    BY <1>1, <1>2, <1>3, <1>4 DEF IndexerNext

\* However many loops run, no height they store is one that the strings do
\* not hold.
THEOREM BoundedCorrect == IndexerSpec => []BoundedInv
  <1>1. IndexerInit => BoundedInv
    BY InitBounded, IndexerInitInv DEF BoundedInv
  <1>2. BoundedInv /\ [IndexerNext]_indexerVars => BoundedInv'
    BY NextBounded, IndexerNextInv DEF BoundedInv
  <1> QED
    BY <1>1, <1>2, PTL DEF IndexerSpec

(***************************************************************************)
(* What the queries select.                                                *)
(***************************************************************************)

\* The strings of all heights there may be are in the order of the heights.
LEMMA StoredInOrder ==
  \A x, y \in Permanent..(MaxHeight + 1) :
    /\ Below(Stored[x], Stored[y]) <=> x < y
    /\ Stored[x] = Stored[y] <=> x = y
  <1> TAKE x, y \in Permanent..(MaxHeight + 1)
  <1>1. MaxHeight + 1 \in Nat \ {0} /\ x \in -1..(MaxHeight + 1) /\ y \in -1..(MaxHeight + 1)
    BY MaxHeightAssumption DEF Permanent
  <1>2. Stored[x] = FormatSortableInt(x) /\ Stored[y] = FormatSortableInt(y)
    BY DEF Stored
  <1>3. /\ Below(FormatSortableInt(x), FormatSortableInt(y)) <=> x < y
        /\ FormatSortableInt(x) = FormatSortableInt(y) => x = y
    BY <1>1, HeightsFit, FormatsInOrder
  <1> QED
    BY <1>2, <1>3

LEMMA SelectedIfBounded == ASSUME BoundedInv PROVE SelectedAsNumbers
  <1> SUFFICES ASSUME NEW k \in Keys, NEW h \in 0..MaxHeight
               PROVE  LET history == rows[k] IN
                      /\ DOMAIN DropFrom(history, h) = DOMAIN history \ FromHeight(history, h)
                      /\ UpToHeight(history, h) = DOMAIN history \cap (0..h)
                      /\ DOMAIN history # {} => NewestOf(DOMAIN history) = Max(DOMAIN history)
    BY DEF SelectedAsNumbers
  <1> DEFINE history == rows[k]
             D == DOMAIN history
             all == Permanent..(MaxHeight + 1)
  <1>1. /\ MaxHeight \in Nat /\ D \subseteq -1..MaxHeight /\ h \in Nat /\ h <= MaxHeight
        /\ D \subseteq all /\ h \in all /\ Permanent \in all /\ Permanent = -1
    BY MaxHeightAssumption DEF BoundedInv, HeightsBounded, Permanent
  <1>2. \A x, y \in all : Below(Stored[x], Stored[y]) <=> x < y
    BY StoredInOrder
  <1>3. D \subseteq Int
    BY <1>1
  <1> HIDE DEF all
  <1>4. \A x \in D : Below(Stored[x], Stored[h]) <=> x < h
    BY <1>1, <1>2
  <1>5. \A x \in D : Below(Stored[h], Stored[x]) <=> h < x
    BY <1>1, <1>2
  <1>6. \A x \in D : Below(Stored[Permanent], Stored[x]) <=> -1 < x
    BY <1>1, <1>2
  <1>7. \A x, y \in D : Below(Stored[x], Stored[y]) <=> x < y
    BY <1>1, <1>2
  <1>8. DOMAIN DropFrom(history, h) = D \ FromHeight(history, h)
    <2>1. DOMAIN DropFrom(history, h) = {x \in D : x < h}
      BY DEF DropFrom, Restrict
    <2>2. FromHeight(history, h) = {x \in D : ~Below(Stored[x], Stored[h])}
      BY DEF FromHeight
    <2> HIDE DEF D, history
    <2> QED
      BY <1>4, <2>1, <2>2
  <1>9. UpToHeight(history, h) = D \cap (0..h)
    <2>1. UpToHeight(history, h) =
            {x \in D : ~Below(Stored[h], Stored[x]) /\ Below(Stored[Permanent], Stored[x])}
      BY DEF UpToHeight
    <2> HIDE DEF D, history
    <2>2. \A x \in D : x \in Int /\ (x \in 0..h <=> ~(h < x) /\ -1 < x)
      BY <1>1, <1>3
    <2> QED
      BY <1>5, <1>6, <2>1, <2>2
  <1>10. ASSUME D # {} PROVE NewestOf(D) = Max(D)
    <2> HIDE DEF D, history
    <2>1. Max(D) \in D /\ \A x \in D : x <= Max(D)
      BY <1>1, <1>10, MaxOfRows
    <2> DEFINE m == Max(D)
               newest == NewestOf(D)
    <2>2. m \in D /\ \A x \in D : x <= m
      BY <2>1
    <2> HIDE DEF m
    <2>3. \A y \in D : ~Below(Stored[m], Stored[y])
      <3> TAKE y \in D
      <3>1. ~(m < y)
        BY <1>3, <2>2
      <3>2. Below(Stored[m], Stored[y]) <=> m < y
        BY <1>7, <2>2
      <3> QED
        BY <3>1, <3>2
    <2>4. newest \in D /\ \A y \in D : ~Below(Stored[newest], Stored[y])
      BY <2>2, <2>3, Zenon DEF NewestOf
    <2> HIDE DEF newest
    <2>5. Below(Stored[newest], Stored[m]) <=> newest < m
      BY <1>7, <2>2, <2>4
    <2>6. newest = m
      BY <1>3, <2>2, <2>4, <2>5
    <2> QED
      BY <2>6 DEF m, newest
  <1> QED
    BY <1>8, <1>9, <1>10

\* A rollback deletes the rows from its height on, clear() takes up those up
\* to its height and never a compacted one, and the newest row is found,
\* although the database compares strings.
THEOREM SelectedCorrect == IndexerSpec => []SelectedAsNumbers
  BY SelectedIfBounded, BoundedCorrect, PTL

(***************************************************************************)
(* What the block API serves.                                              *)
(***************************************************************************)

\* The block table by height.
LEMMA IndexedBlocks ==
  ASSUME BoundedInv
  PROVE  /\ Indexed \in Seq(Payloads) /\ Len(Indexed) \in Nat /\ Start \in Nat
         /\ Len(Indexed) <= MaxHeight
         /\ blocks = {Prefix(Indexed, n) : n \in (Start + 1)..Len(Indexed)}
         /\ \A n \in (Start + 1)..Len(Indexed) : Len(Prefix(Indexed, n)) = n
         /\ \A b \in blocks : /\ Len(b) \in (Start + 1)..Len(Indexed)
                              /\ b = Prefix(Indexed, Len(b)) /\ b # None
  <1>1. /\ Indexed \in Seq(Payloads) /\ Len(Indexed) \in Nat /\ Start \in Nat
        /\ Len(Indexed) <= MaxHeight
        /\ blocks = {Prefix(Indexed, n) : n \in (Start + 1)..Len(Indexed)}
    BY Heights DEF BoundedInv, HeightsBounded, IndexerInv, SyncInv, OneChain
  <1>2. \A n \in (Start + 1)..Len(Indexed) :
          Len(Prefix(Indexed, n)) = n /\ Prefix(Indexed, n) \in Seq(Payloads)
    <2> TAKE n \in (Start + 1)..Len(Indexed)
    <2>1. n \in 0..Len(Indexed)
      BY <1>1
    <2> QED
      BY <1>1, <2>1, PrefixType
  <1>3. None \notin Seq(Payloads)
    BY MarkersAssumption
  <1> QED
    BY <1>1, <1>2, <1>3

\* The row with the greatest string is the newest block.
LEMMA TipServed == ASSUME BoundedInv, blocks # {} PROVE GetTipBlock = Indexed
  <1>1. /\ Len(Indexed) \in Nat /\ Start \in Nat /\ MaxHeight \in Nat /\ Len(Indexed) <= MaxHeight
        /\ Indexed \in Seq(Payloads)
        /\ \A b \in blocks : Len(b) \in (Start + 1)..Len(Indexed) /\ b = Prefix(Indexed, Len(b))
    BY IndexedBlocks, MaxHeightAssumption
  <1>2. Indexed \in blocks
    <2>1. Len(Indexed) \in (Start + 1)..Len(Indexed)
      BY <1>1
    <2>2. Prefix(Indexed, Len(Indexed)) \in blocks
      BY <2>1, IndexedBlocks
    <2> QED
      BY <1>1, <2>2, PrefixFull
  <1>3. \A b \in blocks : Len(b) \in Permanent..(MaxHeight + 1)
    BY <1>1 DEF Permanent
  <1>4. \A b, c \in blocks : Below(HeightOf(b), HeightOf(c)) <=> Len(b) < Len(c)
    BY <1>3, StoredInOrder DEF HeightOf
  <1>5. \A other \in blocks : ~Below(HeightOf(Indexed), HeightOf(other))
    BY <1>1, <1>2, <1>4
  <1>6. GetTipBlock \in blocks /\ \A other \in blocks : ~Below(HeightOf(GetTipBlock), HeightOf(other))
    BY <1>2, <1>5, Zenon DEF GetTipBlock
  <1>7. ~(Len(GetTipBlock) < Len(Indexed))
    BY <1>2, <1>4, <1>6
  <1>8. Len(GetTipBlock) = Len(Indexed)
    BY <1>1, <1>6, <1>7
  <1> QED
    BY <1>1, <1>6, <1>8, PrefixFull

\* At most one row has a height.
LEMMA NumberServed ==
  ASSUME BoundedInv, NEW n \in 1..(MaxHeight + 1)
  PROVE  GetBlockByNumber(n) =
           IF n \in (Start + 1)..Len(Indexed) THEN Prefix(Indexed, n) ELSE None
  <1>1. /\ Len(Indexed) \in Nat /\ Start \in Nat /\ MaxHeight \in Nat /\ Len(Indexed) <= MaxHeight
        /\ \A b \in blocks : Len(b) \in (Start + 1)..Len(Indexed) /\ b = Prefix(Indexed, Len(b))
    BY IndexedBlocks, MaxHeightAssumption
  <1>2. \A b \in blocks : HeightOf(b) = Stored[n] <=> Len(b) = n
    <2>1. n \in Permanent..(MaxHeight + 1)
      BY <1>1 DEF Permanent
    <2>2. \A b \in blocks : Len(b) \in Permanent..(MaxHeight + 1)
      BY <1>1 DEF Permanent
    <2> QED
      BY <2>1, <2>2, StoredInOrder DEF HeightOf
  <1>3. CASE n \in (Start + 1)..Len(Indexed)
    <2>1. Prefix(Indexed, n) \in blocks /\ Len(Prefix(Indexed, n)) = n
      BY <1>3, IndexedBlocks
    <2>2. \E b \in blocks : HeightOf(b) = Stored[n]
      BY <1>2, <2>1
    <2>3. GetBlockByNumber(n) \in blocks /\ HeightOf(GetBlockByNumber(n)) = Stored[n]
      BY <2>2, Zenon DEF GetBlockByNumber
    <2>4. Len(GetBlockByNumber(n)) = n
      BY <1>2, <2>3
    <2> QED
      BY <1>1, <1>3, <2>3, <2>4
  <1>4. CASE n \notin (Start + 1)..Len(Indexed)
    <2>1. ~\E b \in blocks : HeightOf(b) = Stored[n]
      BY <1>1, <1>2, <1>4
    <2> QED
      BY <1>4, <2>1 DEF GetBlockByNumber
  <1> QED
    BY <1>3, <1>4

LEMMA ServedIfBounded == ASSUME BoundedInv PROVE ServedBlocks
  <1>1. ASSUME blocks # {}
        PROVE  /\ GetBlockHeader(0, TRUE) = Indexed
               /\ GetTipBlockNumber = pending
               /\ TrackerInfo.trackerBlockHeight = pending
    <2>1. GetTipBlock = Indexed /\ Indexed # None
      <3>1. None \notin Seq(Payloads) /\ Indexed \in Seq(Payloads)
        BY MarkersAssumption, IndexedBlocks
      <3> QED
        BY <1>1, <3>1, TipServed
    <2>2. GetBlockHeader(0, TRUE) = Indexed
      BY <2>1 DEF GetBlockHeader
    <2>3. Len(Indexed) \in 0..(MaxHeight + 1) /\ Len(Indexed) > Start
      <3>1. Len(Indexed) \in Nat /\ Start \in Nat /\ Len(Indexed) <= MaxHeight /\ MaxHeight \in Nat
        BY IndexedBlocks, MaxHeightAssumption
      <3>2. PICK b \in blocks : TRUE
        BY <1>1
      <3>3. Len(b) \in (Start + 1)..Len(Indexed)
        BY IndexedBlocks
      <3> QED
        BY <3>1, <3>3
    <2>4. pending = Len(Indexed)
      <3>1. pendingHash # None
        BY <2>3, IndexedBlocks DEF Indexed, Start
      <3> QED
        BY <3>1 DEF BoundedInv, IndexerInv, SyncInv, OneChain, Rooted
    <2>5. ParseSortableInt(HeightOf(Indexed)) = Len(Indexed)
      <3>1. MaxHeight + 1 \in Nat
        BY MaxHeightAssumption
      <3>2. HeightOf(Indexed) = FormatSortableInt(Len(Indexed))
        <4>1. Len(Indexed) \in Permanent..(MaxHeight + 1)
          BY <2>3, <3>1 DEF Permanent
        <4> QED
          BY <4>1 DEF HeightOf, Stored
      <3> QED
        BY <2>3, <3>1, <3>2, HeightsFit, ParseIs
    <2>6. GetTipBlockNumber = pending
      BY <2>1, <2>4, <2>5 DEF GetTipBlockNumber
    <2>7. TrackerInfo.trackerBlockHeight = pending
      BY <2>1, <2>2, <2>4, <2>5 DEF TrackerInfo
    <2> QED
      BY <2>2, <2>6, <2>7
  <1>2. ASSUME NEW n \in 1..(MaxHeight + 1)
        PROVE  GetBlockHeader(n, TRUE) =
                 IF n \in (Start + 1)..Len(Indexed) THEN Prefix(Indexed, n) ELSE None
    <2>1. n # 0
      BY MaxHeightAssumption
    <2>2. GetBlockHeader(n, TRUE) = GetBlockByNumber(n)
      BY <2>1 DEF GetBlockHeader
    <2> QED
      BY <2>2, NumberServed
  <1> QED
    BY <1>1, <1>2 DEF ServedBlocks

\* The block API serves the newest indexed block as the tip, with the height
\* sync() has got to, and each indexed block by its number, whatever loops
\* commit, roll back and compact meanwhile.
THEOREM ServedCorrect == IndexerSpec => []ServedBlocks
  BY ServedIfBounded, BoundedCorrect, PTL

=============================================================================
