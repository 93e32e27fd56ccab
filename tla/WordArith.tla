----------------------------- MODULE WordArith -----------------------------
(***************************************************************************)
(* Lemmas about numbers that count modulo a word, for the proofs about the *)
(* clocks and the generator of random numbers.                             *)
(***************************************************************************)
EXTENDS Integers, TLAPS

\* The only multiple of the word that is smaller than it is zero.
LEMMA MultipleWithinWord ==
    ASSUME NEW m \in Nat \ {0}, NEW d \in Int, NEW k \in Int,
           d = m * k, -m < d, d < m
    PROVE  d = 0
<1>1. CASE k >= 1
  <2>1. m * k >= m
    BY <1>1
  <2> QED BY <2>1
<1>2. CASE k <= -1
  <2>1. m * k <= -m
    BY <1>2
  <2> QED BY <2>1
<1>3. CASE k = 0
  BY <1>3
<1> QED BY <1>1, <1>2, <1>3

\* Quotient and remainder.
LEMMA Division ==
    ASSUME NEW m \in Nat \ {0}, NEW x \in Int
    PROVE  x = m * (x \div m) + (x % m) /\ x \div m \in Int /\ x % m \in 0..(m - 1)
OBVIOUS

\* Adding the same number modulo the word loses nothing.
LEMMA AddIsOneToOne ==
    ASSUME NEW m \in Nat \ {0}, NEW a \in 0..(m - 1), NEW b \in 0..(m - 1),
           NEW k \in Int, (a + k) % m = (b + k) % m
    PROVE  a = b
<1> DEFINE p == (a + k) \div m
           q == (b + k) \div m
           r == (a + k) % m
<1>1. a + k = m * p + r /\ p \in Int /\ r \in Int
  <2>1. a + k \in Int
    OBVIOUS
  <2> QED BY <2>1, Division
<1>2. b + k = m * q + r /\ q \in Int
  <2>1. b + k \in Int
    OBVIOUS
  <2> QED BY <2>1, Division
<1> HIDE DEF p, q, r
<1>3. a - b = m * p - m * q
  <2>1. m * p \in Int /\ m * q \in Int
    BY <1>1, <1>2
  <2> QED BY <1>1, <1>2, <2>1
<1>4. a - b = m * (p - q)
  BY <1>1, <1>2, <1>3
<1>5. a - b = 0
  BY <1>1, <1>2, <1>4, MultipleWithinWord
<1> QED BY <1>5

\* The remainder is the only number of the word that differs by a multiple of it.
LEMMA ModUnique ==
    ASSUME NEW m \in Nat \ {0}, NEW x \in Int, NEW k \in Int, NEW r \in 0..(m - 1),
           x = m * k + r
    PROVE  x % m = r
<1> DEFINE q == x \div m
           s == x % m
<1>1. x = m * q + s /\ q \in Int /\ s \in 0..(m - 1)
  BY Division
<1> HIDE DEF q, s
<1>2. r - s = m * q - m * k
  <2>1. m * q \in Int /\ m * k \in Int
    BY <1>1
  <2> QED BY <1>1, <2>1
<1>3. r - s = m * (q - k)
  BY <1>1, <1>2
<1>4. r - s = 0
  BY <1>1, <1>3, MultipleWithinWord
<1>5. s = r
  BY <1>1, <1>4
<1> QED BY <1>5 DEF s

\* A number of the word is its own remainder.
LEMMA ModSmall ==
    ASSUME NEW m \in Nat \ {0}, NEW x \in 0..(m - 1)
    PROVE  x % m = x
<1>1. x = m * 0 + x
  OBVIOUS
<1> QED BY <1>1, ModUnique

\* Wrapping before an addition makes no difference after it.
LEMMA ModAdd ==
    ASSUME NEW m \in Nat \ {0}, NEW x \in Int, NEW y \in Int
    PROVE  ((x % m) + y) % m = (x + y) % m
<1> DEFINE p == x \div m
           r == x % m
           q == (r + y) \div m
           s == (r + y) % m
<1>1. x = m * p + r /\ p \in Int /\ r \in 0..(m - 1)
  BY Division
<1>2. r + y = m * q + s /\ q \in Int /\ s \in 0..(m - 1)
  <2>1. r + y \in Int
    BY <1>1
  <2> QED BY <2>1, Division
<1> HIDE DEF p, q, r, s
<1>3. x + y = m * (p + q) + s
  <2>1. m * (p + q) = m * p + m * q
    BY <1>1, <1>2
  <2>2. m * p \in Int /\ m * q \in Int
    BY <1>1, <1>2
  <2> QED BY <1>1, <1>2, <2>1, <2>2
<1>4. (x + y) % m = s
  <2> DEFINE z == x + y
             k == p + q
  <2>1. z \in Int /\ k \in Int /\ z = m * k + s
    BY <1>1, <1>2, <1>3
  <2> HIDE DEF z, k
  <2>2. z % m = s
    BY <1>2, <2>1, ModUnique
  <2> QED BY <2>2 DEF z
<1> QED BY <1>4 DEF r, s

\* Nor before a subtraction.
LEMMA ModSub ==
    ASSUME NEW m \in Nat \ {0}, NEW x \in Int, NEW y \in Int
    PROVE  (y - (x % m)) % m = (y - x) % m
<1> DEFINE p == x \div m
           r == x % m
           q == (y - r) \div m
           s == (y - r) % m
<1>1. x = m * p + r /\ p \in Int /\ r \in 0..(m - 1)
  BY Division
<1>2. y - r = m * q + s /\ q \in Int /\ s \in 0..(m - 1)
  <2>1. y - r \in Int
    BY <1>1
  <2> QED BY <2>1, Division
<1> HIDE DEF p, q, r, s
<1>3. y - x = m * (q - p) + s
  <2>1. m * (q - p) = m * q - m * p
    BY <1>1, <1>2
  <2>2. m * p \in Int /\ m * q \in Int
    BY <1>1, <1>2
  <2> QED BY <1>1, <1>2, <2>1, <2>2
<1>4. (y - x) % m = s
  <2> DEFINE z == y - x
             k == q - p
  <2>1. z \in Int /\ k \in Int /\ z = m * k + s
    BY <1>1, <1>2, <1>3
  <2> HIDE DEF z, k
  <2>2. z % m = s
    BY <1>2, <2>1, ModUnique
  <2> QED BY <2>2 DEF z
<1> QED BY <1>4 DEF r, s

\* The ticks of a clock that counts them modulo the word and multiplies: one more
\* tick is one more step of the clock, over the wrap of the count too.
LEMMA NextTick ==
    ASSUME NEW m \in Nat \ {0}, NEW n \in 0..(m - 1), NEW step \in Nat
    PROVE  (((n + 1) % m) * step) % m = (((n * step) % m) + step) % m
<1>1. n * step \in Int /\ m * step \in Int
  OBVIOUS
<1>2. (((n * step) % m) + step) % m = (n * step + step) % m
  <2> DEFINE x == n * step
  <2>1. x \in Int /\ step \in Int
    OBVIOUS
  <2> HIDE DEF x
  <2>2. ((x % m) + step) % m = (x + step) % m
    BY <2>1, ModAdd
  <2> QED BY <2>2 DEF x
<1>3. CASE n + 1 < m
  <2>1. (n + 1) % m = n + 1
    BY <1>3, ModSmall
  <2>2. (n + 1) * step = n * step + step
    OBVIOUS
  <2> QED BY <1>2, <2>1, <2>2
<1>4. CASE n + 1 = m
  <2>1. (n + 1) % m = 0
    <3>1. n + 1 = m * 1 + 0
      BY <1>4
    <3> QED BY <3>1, ModUnique
  <2>2. (0 * step) % m = 0
    BY ModSmall
  <2>3. n * step + step = m * step + 0
    BY <1>4
  <2>4. (n * step + step) % m = 0
    <3> DEFINE x == n * step + step
    <3>1. x \in Int /\ x = m * step + 0
      BY <1>1, <2>3
    <3> HIDE DEF x
    <3>2. x % m = 0
      BY <3>1, ModUnique
    <3> QED BY <3>2 DEF x
  <2> QED BY <1>2, <2>1, <2>2, <2>4
<1> QED BY <1>3, <1>4

\* Multiples of the same number come at least that number apart.
LEMMA NextMultiple ==
    ASSUME NEW step \in Nat \ {0}, NEW k \in Int, NEW n \in Int, k * step < n * step
    PROVE  (k + 1) * step <= n * step /\ k < n
<1>1. k < n
  <2> SUFFICES ASSUME k >= n PROVE FALSE
    OBVIOUS
  <2>1. k * step >= n * step
    <3> DEFINE e == k - n
    <3>1. e \in Nat /\ k = n + e
      OBVIOUS
    <3> HIDE DEF e
    <3>2. k * step = n * step + e * step /\ e * step \in Nat /\ n * step \in Int
      BY <3>1
    <3> QED BY <3>2
  <2>2. k * step \in Int /\ n * step \in Int
    OBVIOUS
  <2> QED BY <2>1, <2>2
<1>2. n * step >= (k + 1) * step
  <2> DEFINE e == n - (k + 1)
  <2>1. e \in Nat /\ n = (k + 1) + e
    BY <1>1
  <2> HIDE DEF e
  <2>2. n * step = (k + 1) * step + e * step /\ e * step \in Nat /\ (k + 1) * step \in Int
    BY <2>1
  <2> QED BY <2>2
<1> QED BY <1>1, <1>2
=============================================================================
