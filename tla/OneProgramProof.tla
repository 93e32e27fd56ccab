-------------------------- MODULE OneProgramProof --------------------------
(***************************************************************************)
(* The kernels of lab2 and lab3 under any program that they can run, for   *)
(* every tick, every duration and every buffer: they leave the machine as  *)
(* they found it, and lab3's clock and sleep keep time.  The theorems are  *)
(* about the three kinds of behaviour of MCOneProgram at once.             *)
(***************************************************************************)
EXTENDS MCOneProgram, WordArith, FiniteSetTheorems, WellFoundedInduction, TLAPS

-----------------------------------------------------------------------------
(* The line editor, a key at a time.                                       *)

Screen == {s \in [col : Nat, row : Seq(Nat)] : s.col <= Len(s.row)}

\* A line that is read into a buffer of n characters.
Line(n) == [buf : [0..(n - 1) -> Nat], length : 0..n, screen : Screen, ended : BOOLEAN]

\* The screen shows the first m characters of the buffer b.
InStep(s, b, m) ==
    /\ s.col = m
    /\ \A i \in 1..m : s.row[i] = b[i - 1]
    /\ \A i \in (m + 1)..Len(s.row) : s.row[i] = 32

\* r is the screen s with c where the cursor was.
Shown(s, c, r) ==
    /\ r \in Screen /\ r.col = s.col + 1
    /\ Len(r.row) = IF s.col < Len(s.row) THEN Len(s.row) ELSE s.col + 1
    /\ \A i \in 1..Len(r.row) : r.row[i] = IF i = s.col + 1 THEN c ELSE s.row[i]

\* A character goes to the cursor and moves it on.
LEMMA ShownCharacter ==
    ASSUME NEW s \in Screen, NEW c \in Nat, Regular(c)
    PROVE  Shown(s, c, Arrives(s, c))
<1> DEFINE r == Arrives(s, c)
<1>1. s.col \in Nat /\ s.row \in Seq(Nat) /\ Len(s.row) \in Nat /\ s.col <= Len(s.row)
  BY DEF Screen
<1>2. c # 8 /\ ~EndsLine(c)
  BY DEF Regular, EndsLine
<1> DEFINE q == IF s.col < Len(s.row) THEN [s.row EXCEPT ![s.col + 1] = c] ELSE Append(s.row, c)
<1>3. r = [col |-> s.col + 1, row |-> q]
  BY <1>2 DEF Arrives
<1> HIDE DEF r
<1>4. /\ q \in Seq(Nat)
      /\ Len(q) = IF s.col < Len(s.row) THEN Len(s.row) ELSE s.col + 1
      /\ \A i \in 1..Len(q) : q[i] = IF i = s.col + 1 THEN c ELSE s.row[i]
  <2>1. CASE s.col < Len(s.row)
    <3>1. s.col + 1 \in 1..Len(s.row) /\ q = [s.row EXCEPT ![s.col + 1] = c]
      BY <1>1, <2>1
    <3>2. q \in Seq(Nat) /\ Len(q) = Len(s.row)
      BY <1>1, <3>1
    <3>3. \A i \in 1..Len(s.row) : q[i] = IF i = s.col + 1 THEN c ELSE s.row[i]
      BY <1>1, <3>1
    <3> QED BY <2>1, <3>2, <3>3
  <2>2. CASE ~(s.col < Len(s.row))
    <3>1. Len(s.row) = s.col /\ q = Append(s.row, c)
      BY <1>1, <2>2
    <3> QED BY <1>1, <2>2, <3>1
  <2> QED BY <2>1, <2>2
<1> HIDE DEF q
<1>5. Shown(s, c, r)
  BY <1>1, <1>3, <1>4 DEF Screen, Shown
<1> QED BY <1>5 DEF r

\* Backspace, blank and backspace clear the cell before the cursor and go there.
LEMMA ErasedCharacter ==
    ASSUME NEW s \in Screen, s.col > 0, NEW r, r = ERASE(s)
    PROVE  /\ r \in Screen /\ r.col = s.col - 1 /\ Len(r.row) = Len(s.row)
           /\ \A i \in 1..Len(r.row) : r.row[i] = IF i = s.col THEN 32 ELSE s.row[i]
<1>1. s.col \in Nat /\ s.row \in Seq(Nat) /\ Len(s.row) \in Nat /\ s.col <= Len(s.row)
  BY DEF Screen
<1> DEFINE a == Arrives(s, 8)
           b == Arrives(a, 32)
<1>0. \A q \in Screen : q.col > 0 => Arrives(q, 8) = [col |-> q.col - 1, row |-> q.row]
  <2> SUFFICES ASSUME NEW q \in Screen, q.col > 0
               PROVE  Arrives(q, 8) = [col |-> q.col - 1, row |-> q.row]
    OBVIOUS
  <2>1. ~EndsLine(8) /\ ~Regular(8)
    BY DEF EndsLine, Regular
  <2>2. Arrives(q, 8) = [q EXCEPT !.col = IF q.col > 0 THEN q.col - 1 ELSE 0]
    BY <2>1 DEF Arrives
  <2>3. q = [col |-> q.col, row |-> q.row]
    BY DEF Screen
  <2> QED BY <2>2, <2>3
<1>2. a = [col |-> s.col - 1, row |-> s.row]
  BY <1>0
<1>3. a \in Screen /\ a.col = s.col - 1 /\ a.row = s.row
  BY <1>1, <1>2 DEF Screen
<1> HIDE DEF a
<1>4. Regular(32) /\ 32 \in Nat
  BY DEF Regular
<1>5. /\ b \in Screen /\ b.col = a.col + 1
      /\ Len(b.row) = IF a.col < Len(a.row) THEN Len(a.row) ELSE a.col + 1
      /\ \A i \in 1..Len(b.row) : b.row[i] = IF i = a.col + 1 THEN 32 ELSE a.row[i]
  <2>1. Shown(a, 32, b)
    BY <1>3, <1>4, ShownCharacter, Zenon DEF b
  <2> HIDE DEF b
  <2> QED BY <2>1, Zenon DEF Shown
<1> HIDE DEF b
<1>6. r = [col |-> b.col - 1, row |-> b.row]
  <2>1. r = Arrives(b, 8)
    BY DEF ERASE, a, b
  <2>2. b.col > 0
    BY <1>1, <1>3, <1>5
  <2> QED BY <1>0, <1>5, <2>1, <2>2
<1> QED BY <1>1, <1>3, <1>5, <1>6 DEF Screen

LEMMA StoredInStep ==
    ASSUME NEW n \in Nat, NEW m \in Nat, m < n, NEW s \in Screen, NEW b \in [0..(n - 1) -> Nat],
           InStep(s, b, m), NEW c \in Nat, Regular(c)
    PROVE  InStep(Arrives(s, c), [b EXCEPT ![m] = c], m + 1)
<1> DEFINE r == Arrives(s, c)
           d == [b EXCEPT ![m] = c]
<1>1. s.col = m /\ Len(s.row) \in Nat /\ s.col <= Len(s.row)
  BY DEF InStep, Screen
<1>2. /\ r.col = m + 1
      /\ Len(r.row) = IF m < Len(s.row) THEN Len(s.row) ELSE m + 1
      /\ \A i \in 1..Len(r.row) : r.row[i] = IF i = m + 1 THEN c ELSE s.row[i]
  <2>1. Shown(s, c, r)
    BY ShownCharacter, Zenon
  <2> HIDE DEF r
  <2> QED BY <1>1, <2>1, Zenon DEF Shown
<1> HIDE DEF r
<1>3. /\ \A i \in 1..m : s.row[i] = b[i - 1]
      /\ \A i \in (m + 1)..Len(s.row) : s.row[i] = 32
  BY DEF InStep
<1>4. \A i \in 0..(n - 1) : d[i] = IF i = m THEN c ELSE b[i]
  OBVIOUS
<1> HIDE DEF d
<1> DEFINE len == Len(r.row)
           w == Len(s.row)
<1>5. \A i \in 1..(m + 1) : r.row[i] = d[i - 1]
  <2> SUFFICES ASSUME NEW i \in 1..(m + 1) PROVE r.row[i] = d[i - 1]
    OBVIOUS
  <2>1. i \in 1..Len(r.row) /\ i - 1 \in 0..(n - 1)
    BY <1>1, <1>2
  <2>2. CASE i = m + 1
    <3>1. r.row[i] = c
      BY <1>2, <2>1, <2>2
    <3>2. i - 1 = m
      BY <2>2
    <3>3. d[i - 1] = c
      BY <1>4, <2>1, <3>2
    <3> QED BY <3>1, <3>3
  <2>3. CASE i # m + 1
    <3>1. i \in 1..m /\ i - 1 # m
      BY <2>3
    <3>2. r.row[i] = s.row[i]
      BY <1>2, <2>1, <2>3
    <3>3. d[i - 1] = b[i - 1]
      BY <1>4, <2>1, <3>1
    <3> QED BY <1>3, <3>1, <3>2, <3>3
  <2> QED BY <2>2, <2>3
<1>6. \A i \in ((m + 1) + 1)..Len(r.row) : r.row[i] = 32
  <2> SUFFICES ASSUME NEW i \in ((m + 1) + 1)..Len(r.row) PROVE r.row[i] = 32
    OBVIOUS
  <2>1. Len(r.row) \in Nat
    BY <1>1, <1>2
  <2>2. i \in 1..Len(r.row) /\ i # m + 1 /\ i \in (m + 1)..Len(s.row)
    BY <1>1, <1>2, <2>1
  <2> QED BY <1>2, <1>3, <2>2
<1>7. InStep(r, d, m + 1)
  BY <1>2, <1>5, <1>6 DEF InStep
<1> QED BY <1>7 DEF r, d

LEMMA ErasedInStep ==
    ASSUME NEW n \in Nat, NEW m \in 1..n, NEW s \in Screen, NEW b \in [0..(n - 1) -> Nat],
           InStep(s, b, m)
    PROVE  InStep(ERASE(s), [b EXCEPT ![m - 1] = 0], m - 1)
<1> DEFINE r == ERASE(s)
           d == [b EXCEPT ![m - 1] = 0]
<1>1. s.col = m /\ Len(s.row) \in Nat /\ s.col <= Len(s.row)
  BY DEF InStep, Screen
<1>2. /\ r.col = m - 1 /\ Len(r.row) = Len(s.row)
      /\ \A i \in 1..Len(r.row) : r.row[i] = IF i = m THEN 32 ELSE s.row[i]
  BY <1>1, ErasedCharacter
<1> HIDE DEF r
<1>3. /\ \A i \in 1..m : s.row[i] = b[i - 1]
      /\ \A i \in (m + 1)..Len(s.row) : s.row[i] = 32
  BY DEF InStep
<1>4. \A i \in 0..(n - 1) : i # m - 1 => d[i] = b[i]
  OBVIOUS
<1> HIDE DEF d
<1>5. \A i \in 1..(m - 1) : r.row[i] = d[i - 1]
  <2> SUFFICES ASSUME NEW i \in 1..(m - 1) PROVE r.row[i] = d[i - 1]
    OBVIOUS
  <2>1. i \in 1..Len(r.row) /\ i # m /\ i \in 1..m /\ i - 1 \in 0..(n - 1) /\ i - 1 # m - 1
    BY <1>1, <1>2
  <2> QED BY <1>2, <1>3, <1>4, <2>1
<1>6. \A i \in ((m - 1) + 1)..Len(r.row) : r.row[i] = 32
  <2> SUFFICES ASSUME NEW i \in ((m - 1) + 1)..Len(r.row) PROVE r.row[i] = 32
    OBVIOUS
  <2>1. i \in 1..Len(r.row) /\ (i = m \/ i \in (m + 1)..Len(s.row))
    BY <1>1, <1>2
  <2>2. CASE i = m
    BY <1>2, <2>1, <2>2
  <2>3. CASE i # m
    BY <1>2, <1>3, <2>1, <2>3
  <2> QED BY <2>2, <2>3
<1>7. InStep(r, d, m - 1)
  BY <1>2, <1>5, <1>6 DEF InStep
<1> QED BY <1>7 DEF r, d

\* A line's record, by its fields.
LEMMA LineFields ==
    ASSUME NEW n \in Nat, NEW ln \in Line(n)
    PROVE  /\ ln = [buf |-> ln.buf, length |-> ln.length, screen |-> ln.screen, ended |-> ln.ended]
           /\ ln.buf \in [0..(n - 1) -> Nat] /\ ln.length \in 0..n /\ ln.length \in Nat
           /\ ln.screen \in Screen /\ ln.ended \in BOOLEAN
BY DEF Line

LEMMA StoredLine ==
    ASSUME NEW n \in Nat, NEW ln \in Line(n), NEW c \in Nat, ln.length < n, Types(c)
    PROVE  /\ Stored(ln, c) \in Line(n)
           /\ Stored(ln, c).length = ln.length + 1 /\ Stored(ln, c).ended = ln.ended
           /\ Stored(ln, c).buf = [ln.buf EXCEPT ![ln.length] = c]
           /\ Stored(ln, c).screen = Arrives(ln.screen, c)
<1>2. /\ Stored(ln, c).length = ln.length + 1 /\ Stored(ln, c).ended = ln.ended
      /\ Stored(ln, c).buf = [ln.buf EXCEPT ![ln.length] = c]
      /\ Stored(ln, c).screen = Arrives(ln.screen, c)
  BY DEF Stored, Line
<1>3. [ln.buf EXCEPT ![ln.length] = c] \in [0..(n - 1) -> Nat] /\ ln.length + 1 \in 0..n
  BY LineFields
<1>4. Arrives(ln.screen, c) \in Screen
  <2>1. CASE Regular(c)
    BY <2>1, ShownCharacter, LineFields DEF Shown
  <2>2. CASE EndsLine(c)
    <3>1. c # 8 /\ ~Regular(c)
      BY <2>2 DEF EndsLine, Regular
    <3>2. Arrives(ln.screen, c) = [col |-> 0, row |-> <<>>]
      BY <2>2, <3>1, Zenon DEF Arrives
    <3> QED BY <3>2 DEF Screen
  <2> QED BY <2>1, <2>2 DEF Types
<1>5. Stored(ln, c) \in Line(n)
  BY <1>3, <1>4 DEF Line, Stored
<1> QED BY <1>2, <1>5

LEMMA ErasedLine ==
    ASSUME NEW n \in Nat, NEW ln \in Line(n), ln.length # 0, ln.screen.col > 0
    PROVE  /\ Erased(ln) \in Line(n)
           /\ Erased(ln).length = ln.length - 1 /\ Erased(ln).ended = ln.ended
           /\ Erased(ln).buf = [ln.buf EXCEPT ![ln.length - 1] = 0]
           /\ Erased(ln).screen = ERASE(ln.screen)
<1>1. ln = [buf |-> ln.buf, length |-> ln.length, screen |-> ln.screen, ended |-> ln.ended]
  BY LineFields
<1>2. Erased(ln) = [buf |-> [ln.buf EXCEPT ![ln.length - 1] = 0], length |-> ln.length - 1,
                    screen |-> ERASE(ln.screen), ended |-> ln.ended]
  BY <1>1, Zenon DEF Erased
<1>3. [ln.buf EXCEPT ![ln.length - 1] = 0] \in [0..(n - 1) -> Nat] /\ ln.length - 1 \in 0..n
  BY LineFields
<1>4. ERASE(ln.screen) \in Screen
  BY LineFields, ErasedCharacter
<1>5. ln.ended \in BOOLEAN
  BY LineFields
<1> QED BY <1>2, <1>3, <1>4, <1>5 DEF Line

\* What a key does to a line that is open: the screen keeps in step with the buffer.
LEMMA KeyedLine ==
    ASSUME NEW n \in Nat, NEW ln \in Line(n), NEW c \in Nat, ln.length < n, ~ln.ended,
           InStep(ln.screen, ln.buf, ln.length)
    PROVE  /\ Keyed(ln, c) \in Line(n)
           /\ ~Keyed(ln, c).ended =>
                 InStep(Keyed(ln, c).screen, Keyed(ln, c).buf, Keyed(ln, c).length)
           /\ \/ /\ Types(c) /\ Keyed(ln, c).length = ln.length + 1
                 /\ Keyed(ln, c).buf = [ln.buf EXCEPT ![ln.length] = c]
              \/ /\ Erases(c) /\ ~Types(c) /\ ln.length # 0
                 /\ Keyed(ln, c).length = ln.length - 1
                 /\ Keyed(ln, c).buf = [ln.buf EXCEPT ![ln.length - 1] = 0]
              \/ /\ ~Types(c) /\ (Erases(c) => ln.length = 0)
                 /\ Keyed(ln, c).length = ln.length /\ Keyed(ln, c).buf = ln.buf
<1> DEFINE k == Keyed(ln, c)
<1>1. ln.length \in Nat /\ ln.length \in 0..n /\ ln.screen \in Screen
      /\ ln.buf \in [0..(n - 1) -> Nat] /\ ln.screen.col = ln.length
  BY LineFields DEF InStep
<1>2. CASE c = EOT_CHAR
  <2>1. k = [ln EXCEPT !.ended = TRUE] /\ ~Types(c) /\ ~Erases(c)
    BY <1>2 DEF Keyed, EOT_CHAR, Types, Erases, Regular, EndsLine, DEL_CHAR
  <2>2. k \in Line(n) /\ k.ended = TRUE /\ k.length = ln.length /\ k.buf = ln.buf
    BY <2>1 DEF Line
  <2> QED BY <2>1, <2>2
<1>3. CASE Erases(c)
  <2>1. k = Erased(ln) /\ ~Types(c)
    BY <1>3 DEF Keyed, EOT_CHAR, Types, Erases, Regular, EndsLine, DEL_CHAR
  <2>2. CASE ln.length = 0
    <3>1. k = ln
      BY <2>1, <2>2 DEF Erased
    <3> QED BY <2>1, <2>2, <3>1
  <2>3. CASE ln.length # 0
    <3>1. /\ k \in Line(n) /\ k.length = ln.length - 1
          /\ k.buf = [ln.buf EXCEPT ![ln.length - 1] = 0] /\ k.screen = ERASE(ln.screen)
      BY <1>1, <2>1, <2>3, ErasedLine
    <3>2. InStep(ERASE(ln.screen), [ln.buf EXCEPT ![ln.length - 1] = 0], ln.length - 1)
      <4>1. ln.length \in 1..n
        BY <1>1, <2>3
      <4> QED BY <1>1, <4>1, ErasedInStep
    <3>3. InStep(k.screen, k.buf, k.length)
      BY <3>1, <3>2, Zenon
    <3> QED BY <1>3, <2>1, <2>3, <3>1, <3>3
  <2> QED BY <2>2, <2>3
<1>4. CASE EndsLine(c)
  <2>1. k = [Stored(ln, c) EXCEPT !.ended = TRUE] /\ Types(c)
    BY <1>4 DEF Keyed, EOT_CHAR, Types, Erases, Regular, EndsLine, DEL_CHAR
  <2>2. /\ Stored(ln, c) \in Line(n) /\ Stored(ln, c).length = ln.length + 1
        /\ Stored(ln, c).buf = [ln.buf EXCEPT ![ln.length] = c]
    BY <2>1, StoredLine
  <2>3. /\ k \in Line(n) /\ k.ended = TRUE
        /\ k.length = Stored(ln, c).length /\ k.buf = Stored(ln, c).buf
    BY <2>1, <2>2 DEF Line
  <2> QED BY <2>1, <2>2, <2>3
<1>5. CASE Regular(c)
  <2>1. k = Stored(ln, c) /\ Types(c)
    <3>1. c # EOT_CHAR /\ ~Erases(c) /\ ~EndsLine(c)
      BY <1>5 DEF EOT_CHAR, Erases, Regular, EndsLine, DEL_CHAR
    <3> QED BY <1>5, <3>1, Zenon DEF Keyed, Types
  <2>2. /\ k \in Line(n) /\ k.length = ln.length + 1
        /\ k.buf = [ln.buf EXCEPT ![ln.length] = c] /\ k.screen = Arrives(ln.screen, c)
    BY <2>1, StoredLine
  <2>3. InStep(Arrives(ln.screen, c), [ln.buf EXCEPT ![ln.length] = c], ln.length + 1)
    BY <1>1, <1>5, StoredInStep
  <2>4. InStep(k.screen, k.buf, k.length)
    BY <2>2, <2>3, Zenon
  <2> QED BY <2>1, <2>2, <2>4
<1>6. CASE c # EOT_CHAR /\ ~Erases(c) /\ ~EndsLine(c) /\ ~Regular(c)
  <2>1. k = ln /\ ~Types(c)
    BY <1>6, Zenon DEF Keyed, Types
  <2> QED BY <1>6, <2>1
<1> QED BY <1>2, <1>3, <1>4, <1>5, <1>6

-----------------------------------------------------------------------------
(* What stays of the keys.                                                 *)

-----------------------------------------------------------------------------
(* What stays of the keys.                                                 *)

\* The first j keys of both count the same.
SameCounts(q, keys, i, j) ==
    Typings(q, i, j) = Typings(keys, i, j) /\ Erasures(q, i, j) = Erasures(keys, i, j)

\* q has the key c after the first j keys.
OneCounted(q, keys, c, i, j) ==
    /\ Typings(q, i, j + 1)  = IF Types(c) THEN Typings(keys, i, j) + 1 ELSE Typings(keys, i, j)
    /\ Erasures(q, i, j + 1) = IF Erases(c) THEN Erasures(keys, i, j) + 1 ELSE Erasures(keys, i, j)

\* Counting up to one key more.
LEMMA OneMore ==
    ASSUME NEW keys \in Seq(Nat), NEW c \in Nat, NEW i \in Nat, NEW j \in Nat,
           i <= j, j <= Len(keys)
    PROVE  /\ Typings(keys, i, j) \in Nat /\ Erasures(keys, i, j) \in Nat
           /\ SameCounts(Append(keys, c), keys, i, j)
           /\ j = Len(keys) => OneCounted(Append(keys, c), keys, c, i, j)
<1> DEFINE q == Append(keys, c)
           T == {k \in (i + 1)..j : Types(keys[k])}
           E == {k \in (i + 1)..j : Erases(keys[k])}
<1>1. /\ Len(keys) \in Nat /\ \A k \in 1..Len(keys) : q[k] = keys[k]
      /\ q[Len(keys) + 1] = c
  OBVIOUS
<1> HIDE DEF q
<1>2. IsFiniteSet(T) /\ IsFiniteSet(E) /\ Cardinality(T) \in Nat /\ Cardinality(E) \in Nat
  <2>1. IsFiniteSet((i + 1)..j)
    BY FS_Interval
  <2>2. T \in SUBSET ((i + 1)..j) /\ E \in SUBSET ((i + 1)..j)
    OBVIOUS
  <2> QED BY <2>1, <2>2, FS_Subset, FS_CardinalityType
<1>3. \A k \in (i + 1)..j : q[k] = keys[k]
  BY <1>1
<1>4. {k \in (i + 1)..j : Types(q[k])} = T /\ {k \in (i + 1)..j : Erases(q[k])} = E
  BY <1>3
<1>5. ASSUME j = Len(keys)
      PROVE  /\ {k \in (i + 1)..(j + 1) : Types(q[k])} = IF Types(c) THEN T \cup {j + 1} ELSE T
             /\ {k \in (i + 1)..(j + 1) : Erases(q[k])} = IF Erases(c) THEN E \cup {j + 1} ELSE E
  <2>1. (i + 1)..(j + 1) = (i + 1)..j \cup {j + 1} /\ q[j + 1] = c
    BY <1>1, <1>5
  <2> QED BY <1>3, <2>1
<1>6. j + 1 \notin T /\ j + 1 \notin E
  OBVIOUS
<1>7. Cardinality(T \cup {j + 1}) = Cardinality(T) + 1 /\ Cardinality(E \cup {j + 1}) = Cardinality(E) + 1
  BY <1>2, <1>6, FS_AddElement
<1> HIDE DEF T, E
<1>8. Typings(keys, i, j) = Cardinality(T) /\ Erasures(keys, i, j) = Cardinality(E)
  BY DEF Typings, Erasures, T, E
<1>9. Typings(q, i, j) = Cardinality(T) /\ Erasures(q, i, j) = Cardinality(E)
  BY <1>4 DEF Typings, Erasures
<1>10. ASSUME j = Len(keys)
       PROVE  /\ Typings(q, i, j + 1) = IF Types(c) THEN Cardinality(T) + 1 ELSE Cardinality(T)
              /\ Erasures(q, i, j + 1) = IF Erases(c) THEN Cardinality(E) + 1 ELSE Cardinality(E)
  BY <1>5, <1>7, <1>10 DEF Typings, Erasures
<1> QED BY <1>2, <1>8, <1>9, <1>10 DEF q, SameCounts, OneCounted

LEMMA LastKey ==
    ASSUME NEW keys \in Seq(Nat), NEW c \in Nat, NEW i \in 0..Len(keys)
    PROVE  /\ Typings(keys, i, Len(keys)) \in Nat /\ Erasures(keys, i, Len(keys)) \in Nat
           /\ Typings(Append(keys, c), i, Len(keys) + 1)
                 = IF Types(c) THEN Typings(keys, i, Len(keys)) + 1 ELSE Typings(keys, i, Len(keys))
           /\ Erasures(Append(keys, c), i, Len(keys) + 1)
                 = IF Erases(c) THEN Erasures(keys, i, Len(keys)) + 1
                   ELSE Erasures(keys, i, Len(keys))
<1>1. i \in Nat /\ Len(keys) \in Nat /\ i <= Len(keys) /\ Len(keys) <= Len(keys)
  OBVIOUS
<1> DEFINE len == Len(keys)
           q == Append(keys, c)
<1>2. len \in Nat /\ i \in Nat /\ i <= len /\ len <= Len(keys)
  BY <1>1
<1> HIDE DEF len
<1>3. /\ Typings(keys, i, len) \in Nat /\ Erasures(keys, i, len) \in Nat
      /\ len = Len(keys) => OneCounted(q, keys, c, i, len)
  BY <1>2, OneMore, Zenon
<1> QED BY <1>3, Zenon DEF len, OneCounted

\* Of the keys typed before, one more leaves those it does not erase.
LEMMA StayingAppend ==
    ASSUME NEW keys \in Seq(Nat), NEW c \in Nat, NEW i \in 1..(Len(keys) + 1)
    PROVE  i \in Staying(Append(keys, c)) <=>
              IF i = Len(keys) + 1 THEN Types(c)
              ELSE /\ i \in Staying(keys)
                   /\ Erases(c) => Erasures(keys, i, Len(keys)) < Typings(keys, i, Len(keys))
<1> DEFINE n == Len(keys)
           q == Append(keys, c)
<1>1. n \in Nat /\ Len(q) = n + 1 /\ q[n + 1] = c /\ \A k \in 1..n : q[k] = keys[k]
  OBVIOUS
<1>2. CASE i = n + 1
  <2>1. (i + 1)..(n + 1) = {} /\ i \in 1..Len(q)
    BY <1>1, <1>2
  <2> QED BY <1>1, <1>2, <2>1 DEF Staying
<1>3. CASE i # n + 1
  <2>1. i \in 1..n /\ i \in Nat /\ i \in 1..Len(q) /\ q[i] = keys[i] /\ i <= n
    BY <1>1, <1>3
  <2>2. \A j \in (i + 1)..n : /\ Typings(q, i, j) = Typings(keys, i, j)
                              /\ Erasures(q, i, j) = Erasures(keys, i, j)
    <3> SUFFICES ASSUME NEW j \in (i + 1)..n
                 PROVE  /\ Typings(q, i, j) = Typings(keys, i, j)
                        /\ Erasures(q, i, j) = Erasures(keys, i, j)
      OBVIOUS
    <3>1. j \in Nat /\ i <= j /\ j <= Len(keys)
      BY <1>1, <2>1
    <3>2. SameCounts(q, keys, i, j)
      BY <2>1, <3>1, OneMore, Zenon
    <3> HIDE DEF n, q
    <3> QED BY <3>2, Zenon DEF SameCounts
  <2>3. /\ Typings(keys, i, n) \in Nat /\ Erasures(keys, i, n) \in Nat
        /\ Typings(q, i, n + 1)
              = IF Types(c) THEN Typings(keys, i, n) + 1 ELSE Typings(keys, i, n)
        /\ Erasures(q, i, n + 1)
              = IF Erases(c) THEN Erasures(keys, i, n) + 1 ELSE Erasures(keys, i, n)
    <3>1. i \in 0..Len(keys)
      BY <1>1, <2>1
    <3> QED BY <3>1, LastKey, Zenon
  <2> HIDE DEF n, q
  <2>4. (i + 1)..(n + 1) = (i + 1)..n \cup {n + 1}
    <3>1. n \in Int /\ i \in Int /\ i <= n
      BY <1>1, <2>1
    <3> QED BY <3>1
  <2>5. i \in Staying(q) <=>
          /\ Types(keys[i])
          /\ \A j \in (i + 1)..n : Erasures(keys, i, j) <= Typings(keys, i, j)
          /\ Erasures(q, i, n + 1) <= Typings(q, i, n + 1)
    BY <1>1, <2>1, <2>2, <2>4 DEF Staying
  <2>6. i \in Staying(keys) <=>
          /\ Types(keys[i])
          /\ \A j \in (i + 1)..n : Erasures(keys, i, j) <= Typings(keys, i, j)
    BY <2>1 DEF Staying, n
  <2>7. i \in Staying(keys) => Erasures(keys, i, n) <= Typings(keys, i, n)
    <3>1. CASE i = n
      <4>1. {k \in (i + 1)..n : Erases(keys[k])} = {} /\ {k \in (i + 1)..n : Types(keys[k])} = {}
        BY <1>1, <3>1
      <4>2. Erasures(keys, i, n) = 0 /\ Typings(keys, i, n) = 0
        BY <4>1, FS_EmptySet DEF Erasures, Typings
      <4> QED BY <4>2
    <3>2. CASE i # n
      <4>1. n \in (i + 1)..n
        BY <1>1, <2>1, <3>2
      <4> QED BY <2>6, <4>1
    <3> QED BY <3>1, <3>2
  <2>8. Erases(c) => ~Types(c)
    BY DEF Erases, Types, Regular, EndsLine, DEL_CHAR
  <2>9. Erasures(q, i, n + 1) <= Typings(q, i, n + 1) <=>
           (IF Erases(c) THEN Erasures(keys, i, n) < Typings(keys, i, n)
            ELSE IF Types(c) THEN Erasures(keys, i, n) <= Typings(keys, i, n) + 1
                 ELSE Erasures(keys, i, n) <= Typings(keys, i, n))
    <3>1. CASE Erases(c)
      BY <2>3, <2>8, <3>1
    <3>2. CASE ~Erases(c)
      BY <2>3, <3>2
    <3> QED BY <3>1, <3>2
  <2>10. i \in Staying(q) <=> i \in Staying(keys)
            /\ (Erases(c) => Erasures(keys, i, n) < Typings(keys, i, n))
    BY <2>3, <2>5, <2>6, <2>7, <2>9
  <2> QED BY <1>3, <2>10 DEF n, q
<1> QED BY <1>2, <1>3
\* The m characters of the buffer are those at the places pos of the keys: of what
\* was typed after the k-th, m - k characters are left.
Placed(pos, b, m, keys) ==
    /\ pos \in [1..m -> 1..Len(keys)]
    /\ \A k, l \in 1..m : k < l => pos[k] < pos[l]
    /\ \A i \in 1..Len(keys) : i \in Staying(keys) <=> \E k \in 1..m : i = pos[k]
    /\ \A k \in 1..m : b[k - 1] = keys[pos[k]]
    /\ \A k \in 1..m :
          Typings(keys, pos[k], Len(keys)) = Erasures(keys, pos[k], Len(keys)) + (m - k)

AsTyped(b, m, keys) == \E pos : Placed(pos, b, m, keys)

LEMMA NothingTyped == ASSUME NEW b PROVE AsTyped(b, 0, <<>>)
<1> DEFINE pos == [k \in 1..0 |-> 0]
<1>1. 1..0 = {} /\ 1..Len(<<>>) = {}
  OBVIOUS
<1>2. Placed(pos, b, 0, <<>>)
  BY <1>1 DEF Placed
<1> QED BY <1>2 DEF AsTyped

\* A key that types goes behind the places.
LEMMA TypedOne ==
    ASSUME NEW n \in Nat, NEW b \in [0..(n - 1) -> Nat], NEW m \in Nat, m < n,
           NEW keys \in Seq(Nat), AsTyped(b, m, keys), NEW c \in Nat, Types(c)
    PROVE  AsTyped([b EXCEPT ![m] = c], m + 1, Append(keys, c))
<1> DEFINE len == Len(keys)
           q == Append(keys, c)
           d == [b EXCEPT ![m] = c]
<1>1. PICK pos : Placed(pos, b, m, keys)
  BY DEF AsTyped
<1> DEFINE pos2 == [k \in 1..(m + 1) |-> IF k <= m THEN pos[k] ELSE len + 1]
<1>2. /\ len \in Nat /\ Len(q) = len + 1 /\ q[len + 1] = c /\ \A k \in 1..len : q[k] = keys[k]
      /\ ~Erases(c) /\ q \in Seq(Nat)
  BY DEF Erases, Types, Regular, EndsLine, DEL_CHAR
<1>3. \A i \in 0..(n - 1) : d[i] = IF i = m THEN c ELSE b[i]
  OBVIOUS
<1>4. \A k \in 1..m : pos[k] \in 1..len /\ pos[k] \in Nat /\ pos[k] <= len
  <2>1. pos \in [1..m -> 1..len] /\ len \in Nat
    BY <1>1, <1>2, Zenon DEF Placed
  <2> HIDE DEF len
  <2> QED BY <2>1
<1>5. /\ \A k \in 1..m : pos2[k] = pos[k]
      /\ pos2[m + 1] = len + 1
      /\ pos2 \in [1..(m + 1) -> 1..Len(q)]
  <2> HIDE DEF q, len, d
  <2>1. \A k \in 1..m : pos2[k] = pos[k]
    OBVIOUS
  <2>2. pos2[m + 1] = len + 1
    OBVIOUS
  <2>3. \A k \in 1..(m + 1) : pos2[k] \in 1..Len(q)
    BY <1>2, <1>4
  <2> QED BY <2>1, <2>2, <2>3
<1>6. \A k \in 1..m : /\ Typings(q, pos[k], len + 1) = Typings(keys, pos[k], len) + 1
                      /\ Erasures(q, pos[k], len + 1) = Erasures(keys, pos[k], len)
                      /\ Typings(keys, pos[k], len) \in Nat /\ Erasures(keys, pos[k], len) \in Nat
  <2> SUFFICES ASSUME NEW k \in 1..m
               PROVE  /\ Typings(q, pos[k], len + 1) = Typings(keys, pos[k], len) + 1
                      /\ Erasures(q, pos[k], len + 1) = Erasures(keys, pos[k], len)
                      /\ Typings(keys, pos[k], len) \in Nat /\ Erasures(keys, pos[k], len) \in Nat
    OBVIOUS
  <2>1. pos[k] \in 0..Len(keys)
    BY <1>2, <1>4
  <2>2. /\ Typings(keys, pos[k], len) \in Nat /\ Erasures(keys, pos[k], len) \in Nat
        /\ Typings(q, pos[k], len + 1)
              = IF Types(c) THEN Typings(keys, pos[k], len) + 1 ELSE Typings(keys, pos[k], len)
        /\ Erasures(q, pos[k], len + 1)
              = IF Erases(c) THEN Erasures(keys, pos[k], len) + 1 ELSE Erasures(keys, pos[k], len)
    BY <2>1, LastKey, Zenon
  <2> QED BY <1>2, <2>2, Zenon
<1>7. Typings(q, len + 1, len + 1) = 0 /\ Erasures(q, len + 1, len + 1) = 0
  <2>1. ((len + 1) + 1)..(len + 1) = {}
    BY <1>2
  <2>2. /\ {k \in ((len + 1) + 1)..(len + 1) : Types(q[k])} = {}
        /\ {k \in ((len + 1) + 1)..(len + 1) : Erases(q[k])} = {}
    BY <2>1
  <2> QED BY <2>2, FS_EmptySet DEF Typings, Erasures
<1>8. \A i \in 1..(len + 1) : i \in Staying(q) <=> i = len + 1 \/ i \in Staying(keys)
  <2> SUFFICES ASSUME NEW i \in 1..(len + 1)
               PROVE  i \in Staying(q) <=> i = len + 1 \/ i \in Staying(keys)
    OBVIOUS
  <2>1. i \in Staying(q) <=> IF i = len + 1 THEN Types(c) ELSE i \in Staying(keys)
    BY <1>2, StayingAppend
  <2> QED BY <2>1
<1> HIDE DEF pos2, q, d, len
<1>9. \A k, l \in 1..(m + 1) : k < l => pos2[k] < pos2[l]
  <2> SUFFICES ASSUME NEW k \in 1..(m + 1), NEW l \in 1..(m + 1), k < l PROVE pos2[k] < pos2[l]
    OBVIOUS
  <2>1. k \in 1..m /\ pos2[k] = pos[k] /\ pos[k] <= len /\ pos[k] \in Nat
    BY <1>4, <1>5
  <2>2. CASE l = m + 1
    BY <1>2, <1>5, <2>1, <2>2
  <2>3. CASE l # m + 1
    <3>1. l \in 1..m /\ pos2[l] = pos[l]
      BY <1>5, <2>3
    <3> QED BY <1>1, <2>1, <3>1 DEF Placed
  <2> QED BY <2>2, <2>3
<1>10. \A i \in 1..Len(q) : i \in Staying(q) <=> \E k \in 1..(m + 1) : i = pos2[k]
  <2> SUFFICES ASSUME NEW i \in 1..(len + 1)
               PROVE  i \in Staying(q) <=> \E k \in 1..(m + 1) : i = pos2[k]
    BY <1>2
  <2>1. CASE i = len + 1
    <3>1. m + 1 \in 1..(m + 1) /\ i = pos2[m + 1]
      BY <1>5, <2>1
    <3> QED BY <1>8, <2>1, <3>1
  <2>2. CASE i # len + 1
    <3>1. i \in 1..Len(keys)
      BY <1>2, <2>2 DEF len
    <3>2. i \in Staying(q) <=> \E k \in 1..m : i = pos[k]
      BY <1>1, <1>8, <2>2, <3>1 DEF Placed
    <3>3. (\E k \in 1..m : i = pos[k]) <=> (\E k \in 1..(m + 1) : i = pos2[k])
      <4>1. ASSUME NEW k \in 1..m, i = pos[k] PROVE \E kk \in 1..(m + 1) : i = pos2[kk]
        BY <1>5, <4>1
      <4>2. ASSUME NEW k \in 1..(m + 1), i = pos2[k] PROVE \E kk \in 1..m : i = pos[kk]
        <5>1. k # m + 1
          BY <1>5, <2>2, <4>2
        <5>2. k \in 1..m
          BY <5>1
        <5> QED BY <1>5, <4>2, <5>2
      <4> QED BY <4>1, <4>2
    <3> QED BY <3>2, <3>3
  <2> QED BY <2>1, <2>2
<1>11. \A k \in 1..(m + 1) : d[k - 1] = q[pos2[k]]
  <2> SUFFICES ASSUME NEW k \in 1..(m + 1) PROVE d[k - 1] = q[pos2[k]]
    OBVIOUS
  <2>1. k - 1 \in 0..(n - 1)
    OBVIOUS
  <2>2. CASE k = m + 1
    BY <1>2, <1>3, <1>5, <2>1, <2>2
  <2>3. CASE k # m + 1
    <3>1. k \in 1..m /\ k - 1 # m
      BY <2>3
    <3>2. b[k - 1] = keys[pos[k]]
      BY <1>1, <3>1 DEF Placed
    <3> QED BY <1>2, <1>3, <1>4, <1>5, <2>1, <3>1, <3>2
  <2> QED BY <2>2, <2>3
<1>12. \A k \in 1..(m + 1) :
          Typings(q, pos2[k], Len(q)) = Erasures(q, pos2[k], Len(q)) + ((m + 1) - k)
  <2> SUFFICES ASSUME NEW k \in 1..(m + 1)
               PROVE  Typings(q, pos2[k], len + 1) = Erasures(q, pos2[k], len + 1) + ((m + 1) - k)
    BY <1>2
  <2>1. CASE k = m + 1
    BY <1>5, <1>7, <2>1
  <2>2. CASE k # m + 1
    <3>1. k \in 1..m /\ pos2[k] = pos[k]
      BY <1>5, <2>2
    <3>2. Typings(keys, pos[k], len) = Erasures(keys, pos[k], len) + (m - k)
      BY <1>1, <3>1 DEF Placed, len
    <3> QED BY <1>6, <3>1, <3>2
  <2> QED BY <2>1, <2>2
<1>13. Placed(pos2, d, m + 1, q)
  BY <1>5, <1>9, <1>10, <1>11, <1>12 DEF Placed
<1> QED BY <1>13 DEF AsTyped, q, d

\* A key that erases takes the last of the places away.
LEMMA ErasedOne ==
    ASSUME NEW n \in Nat, NEW b \in [0..(n - 1) -> Nat], NEW m \in 1..n,
           NEW keys \in Seq(Nat), AsTyped(b, m, keys), NEW c \in Nat, Erases(c), ~Types(c)
    PROVE  AsTyped([b EXCEPT ![m - 1] = 0], m - 1, Append(keys, c))
<1> DEFINE len == Len(keys)
           q == Append(keys, c)
           d == [b EXCEPT ![m - 1] = 0]
<1>1. PICK pos : Placed(pos, b, m, keys)
  BY DEF AsTyped
<1> DEFINE pos2 == [k \in 1..(m - 1) |-> pos[k]]
<1>2. /\ len \in Nat /\ Len(q) = len + 1 /\ q[len + 1] = c /\ \A k \in 1..len : q[k] = keys[k]
      /\ q \in Seq(Nat)
  OBVIOUS
<1>3. \A i \in 0..(n - 1) : i # m - 1 => d[i] = b[i]
  OBVIOUS
<1>4. \A k \in 1..m : pos[k] \in 1..len /\ pos[k] \in Nat /\ pos[k] <= len
  <2>1. pos \in [1..m -> 1..len] /\ len \in Nat
    BY <1>1, <1>2, Zenon DEF Placed
  <2> HIDE DEF len
  <2> QED BY <2>1
<1>5. /\ \A k \in 1..(m - 1) : pos2[k] = pos[k] /\ k \in 1..m
      /\ pos2 \in [1..(m - 1) -> 1..Len(q)]
  <2>1. \A k \in 1..(m - 1) : k \in 1..m
    OBVIOUS
  <2>2. 1..len \subseteq 1..(len + 1)
    <3> HIDE DEF len, q, d, pos2
    <3> QED BY <1>2
  <2>3. \A k \in 1..(m - 1) : pos[k] \in 1..(len + 1)
    BY <1>4, <2>1, <2>2, Zenon
  <2>4. pos2 \in [1..(m - 1) -> 1..(len + 1)]
    BY <2>3, Zenon
  <2> QED BY <1>2, <2>1, <2>4, Zenon
<1>6. \A k \in 1..m : /\ Typings(q, pos[k], len + 1) = Typings(keys, pos[k], len)
                      /\ Erasures(q, pos[k], len + 1) = Erasures(keys, pos[k], len) + 1
                      /\ Typings(keys, pos[k], len) \in Nat /\ Erasures(keys, pos[k], len) \in Nat
  <2> SUFFICES ASSUME NEW k \in 1..m
               PROVE  /\ Typings(q, pos[k], len + 1) = Typings(keys, pos[k], len)
                      /\ Erasures(q, pos[k], len + 1) = Erasures(keys, pos[k], len) + 1
                      /\ Typings(keys, pos[k], len) \in Nat /\ Erasures(keys, pos[k], len) \in Nat
    OBVIOUS
  <2>1. pos[k] \in 0..Len(keys)
    BY <1>2, <1>4
  <2>2. /\ Typings(keys, pos[k], len) \in Nat /\ Erasures(keys, pos[k], len) \in Nat
        /\ Typings(q, pos[k], len + 1)
              = IF Types(c) THEN Typings(keys, pos[k], len) + 1 ELSE Typings(keys, pos[k], len)
        /\ Erasures(q, pos[k], len + 1)
              = IF Erases(c) THEN Erasures(keys, pos[k], len) + 1 ELSE Erasures(keys, pos[k], len)
    BY <2>1, LastKey, Zenon
  <2> QED BY <2>2, Zenon
<1>7. \A k \in 1..m :
         Typings(keys, pos[k], len) = Erasures(keys, pos[k], len) + (m - k)
  BY <1>1 DEF Placed
<1>8. \A i \in 1..(len + 1) : i \in Staying(q) <=>
         /\ i # len + 1 /\ i \in Staying(keys)
         /\ Erasures(keys, i, len) < Typings(keys, i, len)
  <2> SUFFICES ASSUME NEW i \in 1..(len + 1)
               PROVE  i \in Staying(q) <=>
                         /\ i # len + 1 /\ i \in Staying(keys)
                         /\ Erasures(keys, i, len) < Typings(keys, i, len)
    OBVIOUS
  <2>1. i \in Staying(q) <=>
           IF i = len + 1 THEN Types(c)
           ELSE /\ i \in Staying(keys)
                /\ Erases(c) => Erasures(keys, i, len) < Typings(keys, i, len)
    BY StayingAppend
  <2> QED BY <2>1, Zenon
<1>9. \A i \in 1..len : i \in Staying(keys) <=> \E k \in 1..m : i = pos[k]
  BY <1>1 DEF Placed
<1> HIDE DEF pos2, q, d, len
<1>10. \A k, l \in 1..(m - 1) : k < l => pos2[k] < pos2[l]
  BY <1>1, <1>5 DEF Placed
<1>11. \A i \in 1..Len(q) : i \in Staying(q) <=> \E k \in 1..(m - 1) : i = pos2[k]
  <2> SUFFICES ASSUME NEW i \in 1..(len + 1)
               PROVE  i \in Staying(q) <=> \E k \in 1..(m - 1) : i = pos2[k]
    BY <1>2
  <2>1. ASSUME i \in Staying(q) PROVE \E k \in 1..(m - 1) : i = pos2[k]
    <3>1. i \in 1..len /\ i \in Staying(keys) /\ Erasures(keys, i, len) < Typings(keys, i, len)
      BY <1>2, <1>8, <2>1
    <3>2. PICK k \in 1..m : i = pos[k]
      BY <1>9, <3>1
    <3>3. Typings(keys, pos[k], len) = Erasures(keys, pos[k], len) + (m - k)
      BY <1>7
    <3>4. k # m
      BY <1>6, <3>1, <3>2, <3>3
    <3>5. k \in 1..(m - 1)
      BY <3>4
    <3> QED BY <1>5, <3>2, <3>5
  <2>2. ASSUME NEW k \in 1..(m - 1), i = pos2[k] PROVE i \in Staying(q)
    <3>1. k \in 1..m /\ i = pos[k]
      BY <1>5, <2>2
    <3>2. i \in 1..len /\ i # len + 1
      BY <1>2, <1>4, <3>1
    <3>3. i \in Staying(keys)
      BY <1>9, <3>1, <3>2
    <3>4. Erasures(keys, i, len) < Typings(keys, i, len)
      BY <1>6, <1>7, <3>1
    <3> QED BY <1>8, <3>2, <3>3, <3>4
  <2> QED BY <2>1, <2>2
<1>12. \A k \in 1..(m - 1) : d[k - 1] = q[pos2[k]]
  <2> SUFFICES ASSUME NEW k \in 1..(m - 1) PROVE d[k - 1] = q[pos2[k]]
    OBVIOUS
  <2>1. k - 1 \in 0..(n - 1) /\ k - 1 # m - 1 /\ k \in 1..m
    OBVIOUS
  <2>2. b[k - 1] = keys[pos[k]]
    BY <1>1, <2>1 DEF Placed
  <2> QED BY <1>2, <1>3, <1>4, <1>5, <2>1, <2>2
<1>13. \A k \in 1..(m - 1) :
          Typings(q, pos2[k], Len(q)) = Erasures(q, pos2[k], Len(q)) + ((m - 1) - k)
  <2> SUFFICES ASSUME NEW k \in 1..(m - 1)
               PROVE  Typings(q, pos2[k], len + 1) = Erasures(q, pos2[k], len + 1) + ((m - 1) - k)
    BY <1>2
  <2>1. k \in 1..m /\ pos2[k] = pos[k]
    BY <1>5
  <2> QED BY <1>6, <1>7, <2>1
<1>14. Placed(pos2, d, m - 1, q)
  BY <1>5, <1>10, <1>11, <1>12, <1>13 DEF Placed
<1> QED BY <1>14 DEF AsTyped, q, d

\* A key that neither types nor finds anything to erase changes nothing.
LEMMA TypedNothing ==
    ASSUME NEW b, NEW m \in Nat, NEW keys \in Seq(Nat), AsTyped(b, m, keys),
           NEW c \in Nat, ~Types(c), Erases(c) => m = 0
    PROVE  AsTyped(b, m, Append(keys, c))
<1> DEFINE len == Len(keys)
           q == Append(keys, c)
<1>1. PICK pos : Placed(pos, b, m, keys)
  BY DEF AsTyped
<1>2. /\ len \in Nat /\ Len(q) = len + 1 /\ \A k \in 1..len : q[k] = keys[k]
      /\ q \in Seq(Nat)
  OBVIOUS
<1>3. \A k \in 1..m : pos[k] \in 1..len /\ pos[k] \in Nat /\ pos[k] <= len
  <2>1. pos \in [1..m -> 1..len] /\ len \in Nat
    BY <1>1, <1>2, Zenon DEF Placed
  <2> HIDE DEF len
  <2> QED BY <2>1
<1>4. /\ \A i \in 1..len : i \in Staying(keys) <=> \E k \in 1..m : i = pos[k]
      /\ \A k \in 1..m : b[k - 1] = keys[pos[k]]
      /\ \A k, l \in 1..m : k < l => pos[k] < pos[l]
      /\ \A k \in 1..m : Typings(keys, pos[k], len) = Erasures(keys, pos[k], len) + (m - k)
      /\ pos \in [1..m -> 1..len]
  BY <1>1 DEF Placed
<1>5. \A k \in 1..m : /\ Typings(q, pos[k], len + 1) = Typings(keys, pos[k], len)
                      /\ Erasures(q, pos[k], len + 1) = Erasures(keys, pos[k], len)
  <2> SUFFICES ASSUME NEW k \in 1..m
               PROVE  /\ Typings(q, pos[k], len + 1) = Typings(keys, pos[k], len)
                      /\ Erasures(q, pos[k], len + 1) = Erasures(keys, pos[k], len)
    OBVIOUS
  <2>1. pos[k] \in 0..Len(keys)
    BY <1>2, <1>3
  <2>2. /\ Typings(q, pos[k], len + 1)
              = IF Types(c) THEN Typings(keys, pos[k], len) + 1 ELSE Typings(keys, pos[k], len)
        /\ Erasures(q, pos[k], len + 1)
              = IF Erases(c) THEN Erasures(keys, pos[k], len) + 1 ELSE Erasures(keys, pos[k], len)
    BY <2>1, LastKey, Zenon
  <2>3. ~Erases(c)
    OBVIOUS
  <2> QED BY <2>2, <2>3, Zenon
<1>6. \A i \in 1..(len + 1) : i \in Staying(q) <=> i # len + 1 /\ i \in Staying(keys)
  <2> SUFFICES ASSUME NEW i \in 1..(len + 1)
               PROVE  i \in Staying(q) <=> i # len + 1 /\ i \in Staying(keys)
    OBVIOUS
  <2>1. i \in Staying(q) <=>
           IF i = len + 1 THEN Types(c)
           ELSE /\ i \in Staying(keys)
                /\ Erases(c) => Erasures(keys, i, len) < Typings(keys, i, len)
    BY StayingAppend
  <2>2. Erases(c) /\ i # len + 1 => i \notin Staying(keys)
    <3>1. Erases(c) => 1..m = {}
      OBVIOUS
    <3>2. i # len + 1 => i \in 1..len
      BY <1>2
    <3> QED BY <1>4, <3>1, <3>2
  <2> QED BY <2>1, <2>2, Zenon
<1> HIDE DEF q, len
<1>7. pos \in [1..m -> 1..Len(q)]
  BY <1>2, <1>4
<1>8. \A i \in 1..Len(q) : i \in Staying(q) <=> \E k \in 1..m : i = pos[k]
  <2> SUFFICES ASSUME NEW i \in 1..(len + 1)
               PROVE  i \in Staying(q) <=> \E k \in 1..m : i = pos[k]
    BY <1>2
  <2>1. CASE i = len + 1
    BY <1>2, <1>3, <1>6, <2>1
  <2>2. CASE i # len + 1
    <3>1. i \in 1..len
      BY <1>2, <2>2
    <3> QED BY <1>4, <1>6, <2>2, <3>1
  <2> QED BY <2>1, <2>2
<1>9. \A k \in 1..m : b[k - 1] = q[pos[k]]
  BY <1>2, <1>3, <1>4
<1>10. \A k \in 1..m : Typings(q, pos[k], Len(q)) = Erasures(q, pos[k], Len(q)) + (m - k)
  BY <1>2, <1>4, <1>5
<1>11. Placed(pos, b, m, q)
  BY <1>4, <1>7, <1>8, <1>9, <1>10 DEF Placed
<1> QED BY <1>11 DEF AsTyped, q

\* The places in order are the indices that stay, so the buffer holds what is kept.
LEMMA TypedIsKept ==
    ASSUME NEW b, NEW m \in Nat, NEW keys \in Seq(Nat), AsTyped(b, m, keys)
    PROVE  Kept(keys) = [i \in 1..m |-> b[i - 1]]
<1> DEFINE on == Staying(keys)
           nth(k) == CHOOSE i \in on : Cardinality({j \in on : j <= i}) = k
<1>1. PICK pos : Placed(pos, b, m, keys)
  BY DEF AsTyped
<1>2. /\ \A k \in 1..m : pos[k] \in Nat /\ pos[k] \in on
      /\ \A i \in on : \E k \in 1..m : i = pos[k]
      /\ \A k, l \in 1..m : k < l => pos[k] < pos[l]
      /\ \A k \in 1..m : b[k - 1] = keys[pos[k]]
  <2>1. \A i \in on : i \in 1..Len(keys)
    BY DEF Staying
  <2>2. \A k \in 1..m : pos[k] \in 1..Len(keys)
    BY <1>1 DEF Placed
  <2> HIDE DEF on
  <2>3. \A i \in 1..Len(keys) : i \in on <=> \E k \in 1..m : i = pos[k]
    BY <1>1 DEF Placed, on
  <2>4. /\ \A k, l \in 1..m : k < l => pos[k] < pos[l]
        /\ \A k \in 1..m : b[k - 1] = keys[pos[k]]
    BY <1>1 DEF Placed
  <2>5. \A k \in 1..m : pos[k] \in Nat /\ pos[k] \in on
    BY <2>2, <2>3
  <2>6. \A i \in on : \E k \in 1..m : i = pos[k]
    BY <2>1, <2>3
  <2> QED BY <2>4, <2>5, <2>6
<1> HIDE DEF on
<1>3. ASSUME NEW k \in 0..m PROVE Cardinality({pos[l] : l \in 1..k}) = k
  <2> DEFINE S == {pos[l] : l \in 1..k}
             f == [l \in 1..k |-> pos[l]]
  <2>1. IsFiniteSet(1..k) /\ Cardinality(1..k) = k
    BY FS_Interval
  <2>2. \A l1, l2 \in 1..k : pos[l1] = pos[l2] => l1 = l2
    <3> SUFFICES ASSUME NEW l1 \in 1..k, NEW l2 \in 1..k, l1 # l2 PROVE pos[l1] # pos[l2]
      OBVIOUS
    <3>1. l1 \in 1..m /\ l2 \in 1..m /\ (l1 < l2 \/ l2 < l1)
      OBVIOUS
    <3>2. pos[l1] \in Nat /\ pos[l2] \in Nat
      BY <1>2, <3>1
    <3>3. pos[l1] < pos[l2] \/ pos[l2] < pos[l1]
      BY <1>2, <3>1
    <3> QED BY <3>2, <3>3
  <2>3. f \in Bijection(1..k, S)
    BY <2>2 DEF Bijection, Injection, Surjection, IsInjective
  <2>4. ExistsBijection(1..k, S)
    BY <2>3 DEF ExistsBijection
  <2> QED BY <2>1, <2>4, FS_Bijection
<1>4. on = {pos[l] : l \in 1..m}
  BY <1>2
<1>5. Cardinality(on) = m
  BY <1>3, <1>4
<1>6. ASSUME NEW k \in 1..m PROVE Cardinality({j \in on : j <= pos[k]}) = k
  <2>1. {j \in on : j <= pos[k]} = {pos[l] : l \in 1..k}
    <3>1. ASSUME NEW l \in 1..m PROVE pos[l] <= pos[k] <=> l \in 1..k
      <4>1. pos[l] \in Nat /\ pos[k] \in Nat
        BY <1>2
      <4>2. CASE l < k
        <5>1. pos[l] < pos[k]
          BY <1>2, <4>2
        <5> QED BY <4>1, <4>2, <5>1
      <4>3. CASE l = k
        BY <4>1, <4>3
      <4>4. CASE k < l
        <5>1. pos[k] < pos[l]
          BY <1>2, <4>4
        <5> QED BY <4>1, <4>4, <5>1
      <4> QED BY <4>2, <4>3, <4>4
    <3>2. 1..k \subseteq 1..m
      OBVIOUS
    <3> QED BY <1>4, <3>1, <3>2
  <2> QED BY <1>3, <2>1
<1>7. ASSUME NEW k \in 1..m PROVE nth(k) = pos[k]
  <2>1. ASSUME NEW i \in on, Cardinality({j \in on : j <= i}) = k PROVE i = pos[k]
    <3>1. PICK l \in 1..m : i = pos[l]
      BY <1>2
    <3>2. Cardinality({j \in on : j <= pos[l]}) = l
      BY <1>6, Zenon
    <3>3. k = l
      BY <2>1, <3>1, <3>2, Zenon
    <3> QED BY <3>1, <3>3, Zenon
  <2> QED BY <1>2, <1>6, <2>1
<1>8. Kept(keys) = [k \in 1..Cardinality(on) |-> keys[nth(k)]]
  BY DEF Kept, on
<1> HIDE DEF nth
<1>9. ASSUME NEW k \in 1..m PROVE keys[nth(k)] = b[k - 1]
  <2>1. nth(k) = pos[k]
    BY <1>7
  <2>2. b[k - 1] = keys[pos[k]]
    BY <1>2
  <2> QED BY <2>1, <2>2
<1>10. Kept(keys) = [k \in 1..m |-> keys[nth(k)]]
  BY <1>5, <1>8
<1> QED BY <1>9, <1>10

-----------------------------------------------------------------------------
(* The lab3 kernel.                                                        *)

\* A step of the lab3 kernel under whatever program it runs.
KernelStep ==
    \/ Install_Handler("swi", "kmain", "swi installed")
    \/ Install_Handler("irq", "swi installed", "irq installed")
    \/ initTimer \/ Call_UserApp \/ exit \/ freeTimer \/ RestoreHandlers
    \/ Count \/ Irq
    \/ (\E b, n, old : read(b, n, old)) \/ (\E c : getc(c)) \/ ReadReturn
    \/ (\E text : write(text)) \/ putc \/ WriteReturn
    \/ (\E sleep_time \in 0..(WORD - 1) : sleep(sleep_time)) \/ SleepReturn

-----------------------------------------------------------------------------
(* The invariant.                                                          *)

Installing == {"kmain", "swi installed", "irq installed"}
Places == Installing \cup {"timer started", "user", "reading", "writing", "sleeping",
                          "exited", "timer freed", "returned"}

\* Where not both handlers are the kernel's.
Unguarded == {"kmain", "swi installed", "returned"}

\* What of the two handlers is saved, and what of the machine is taken, at each place.
TakenInv ==
    /\ pc \in Places
    /\ vector \in [Exceptions -> {"ldr", "other"}]
    /\ handler \in [Exceptions -> {"u-boot", "kernel"}]
    /\ old_ins \in [Exceptions -> {"none", "u-boot"}]
    /\ pc = "kmain" => handler["swi"] = "u-boot"
    /\ pc \in {"kmain", "swi installed"} => handler["irq"] = "u-boot"
    /\ pc \notin {"kmain", "returned"} => old_ins["swi"] = "u-boot"
    /\ pc \notin Unguarded => old_ins["irq"] = "u-boot"
    /\ LeavesMachineAsFound

\* The line of the timer is on while the timer runs; interrupts are unmasked in the
\* program only.
LineInv ==
    /\ ossr \in BOOLEAN
    /\ Started => oier /\ icmr /\ ~iclr
    /\ ~Started => ~oier /\ ~icmr
    /\ unmasked => InProgram

\* What the clock has lost: the counts that are in no tick, beside those of the tick
\* that runs; while an interrupt is pending that tick is over.
Lost == now - ticks * MATCH - (IF ossr = TRUE THEN MATCH ELSE oscr)

\* A tick that nobody has served for a while was late for being masked.  The clock
\* shows the ticks served modulo its width.
ClockInv ==
    /\ now \in Nat /\ held \in Nat /\ ticks \in Nat /\ oscr \in Nat
    /\ timer = ticks % WORD
    /\ pc \in Installing => now = 0 /\ held = 0 /\ ticks = 0
    /\ Started => /\ osmr = MATCH
                  /\ ossr = TRUE \/ oscr < MATCH
                  /\ 0 <= Lost /\ Lost <= held

\* What the clock shows after n ticks.
ClockAt(n) == (n * TIMER_RESOLUTION) % WORD

\* A sleep began at some tick t0, and what the clock has lost only grows.
SleepingInv ==
    pc = "sleeping" =>
        /\ started \in Nat /\ asked \in 0..(WORD - 1)
        /\ \E t0 \in 0..ticks : /\ wait_time = (ClockAt(t0) + asked) % WORD
                                /\ started <= t0 * MATCH + MATCH + Lost

KernelInv == TakenInv /\ LineInv /\ ClockInv /\ SleepingInv

-----------------------------------------------------------------------------
(* The steps, once for the handlers and once for the clock.                *)

AllStep == [AllNext]_<<part, vars, program_vars, lab2_vars>>

\* Whichever part of the run takes a step, lab3's kernel takes one of its own or none.
LEMMA ProjectStep == AllStep => KernelStep \/ UNCHANGED vars
<1> SUFFICES ASSUME AllStep PROVE KernelStep \/ UNCHANGED vars
  OBVIOUS
<1>1. ASSUME Next PROVE KernelStep
  <2>1. CASE \E b \in Buffers : read(b[1], b[2], [i \in 0..(b[2] - 1) |-> 0])
    <3>1. \E b, n, old : read(b, n, old)
      BY <2>1
    <3> QED BY <3>1 DEF KernelStep
  <2>2. CASE \E tt \in Sleeps : sleep(tt)
    BY <2>2, SleepsAssumption DEF KernelStep
  <2>3. CASE (\E c \in Keys : getc(c)) \/ (\E text \in Texts : write(text))
    BY <2>3 DEF KernelStep
  <2> QED BY <1>1, <2>1, <2>2, <2>3 DEF Next, KernelStep
<1>2. ASSUME ProgramsNext PROVE KernelStep \/ UNCHANGED vars
  <2>1. CASE Kernel
    BY <2>1 DEF Kernel, KernelStep
  <2>2. CASE prompt \/ echo \/ print \/ result
    <3>1. \E text : write(text)
      BY <2>2 DEF prompt, echo, print, result
    <3> QED BY <3>1 DEF KernelStep
  <2>3. CASE read_line
    <3>1. \E b, n, old : read(b, n, old)
      BY <2>3 DEF read_line
    <3> QED BY <3>1 DEF KernelStep
  <2>4. CASE start_time \/ line_read \/ end_time
    BY <2>4 DEF start_time, line_read, end_time, KernelStep
  <2> QED BY <1>2, <2>1, <2>2, <2>3, <2>4 DEF ProgramsNext
<1> QED BY <1>1, <1>2 DEF AllNext, AllStep

LEMMA InitTaken == Init => TakenInv /\ LineInv
<1> SUFFICES ASSUME Init PROVE TakenInv /\ LineInv
  OBVIOUS
<1>1. TakenInv
  BY DEF Init, TakenInv, Places, Unguarded, Installing, Exceptions, LeavesMachineAsFound
<1>2. /\ pc = "kmain" /\ ~Started
      /\ ossr = FALSE /\ oier = FALSE /\ icmr = FALSE /\ unmasked = FALSE
  BY DEF Init, Started, InProgram
<1> QED BY <1>1, <1>2 DEF LineInv

\* The steps that leave the handlers alone and the program running.
LEMMA QuietTaken ==
    ASSUME TakenInv, UNCHANGED install_vars, pc' \in Places,
           pc \notin Unguarded, pc' \notin Unguarded
    PROVE  TakenInv'
BY DEF TakenInv, Places, Unguarded, Installing, Exceptions, LeavesMachineAsFound, install_vars

LEMMA StepTaken ==
    ASSUME TakenInv, LineInv, KernelStep
    PROVE  TakenInv'
<1>1. CASE \/ Install_Handler("swi", "kmain", "swi installed")
           \/ Install_Handler("irq", "swi installed", "irq installed")
  <2>1. UNCHANGED <<unmasked, oier, icmr>> /\ ~Started
    BY <1>1 DEF Install_Handler, timer_vars, Started, InProgram
  <2>2. ~oier /\ ~icmr /\ ~unmasked /\ ~oier' /\ ~icmr' /\ ~unmasked'
    BY <2>1, Zenon DEF LineInv, Started
  <2>3. TakenInv!1' /\ TakenInv!2' /\ TakenInv!3' /\ TakenInv!4' /\ TakenInv!5'
        /\ TakenInv!6' /\ TakenInv!7' /\ TakenInv!8'
    <3>1. TakenInv!1' /\ TakenInv!2' /\ TakenInv!3' /\ TakenInv!4'
      BY <1>1 DEF TakenInv, Places, Unguarded, Installing, Exceptions, Install_Handler, Installed
    <3>2. TakenInv!5' /\ TakenInv!6'
      BY <1>1 DEF TakenInv, Places, Unguarded, Installing, Exceptions, Install_Handler, Installed
    <3>3. TakenInv!7' /\ TakenInv!8'
      BY <1>1 DEF TakenInv, Places, Unguarded, Installing, Exceptions, Install_Handler, Installed
    <3> QED BY <3>1, <3>2, <3>3, Zenon
  <2>4. pc' = "returned" => /\ handler'["irq"] = "u-boot"
                            /\ handler'["swi"] = "u-boot" \/ vector'["irq"] = "other"
    BY <1>1 DEF TakenInv, Exceptions, Install_Handler, Installed
  <2> QED BY <2>2, <2>3, <2>4, Zenon DEF TakenInv, LeavesMachineAsFound
<1>2. CASE RestoreHandlers
  <2>1. UNCHANGED <<unmasked, oier, icmr>> /\ ~Started
    BY <1>2 DEF RestoreHandlers, timer_vars, Started, InProgram
  <2>2. ~oier' /\ ~icmr' /\ ~unmasked'
    BY <2>1, Zenon DEF LineInv, Started
  <2>3. TakenInv!1' /\ TakenInv!2' /\ TakenInv!3' /\ TakenInv!4' /\ TakenInv!5'
        /\ TakenInv!6' /\ TakenInv!7' /\ TakenInv!8'
    BY <1>2 DEF TakenInv, Places, Unguarded, Installing, Exceptions, RestoreHandlers
  <2>4. handler'["irq"] = "u-boot" /\ handler'["swi"] = "u-boot"
    BY <1>2 DEF TakenInv, Unguarded, RestoreHandlers
  <2> QED BY <2>2, <2>3, <2>4, Zenon DEF TakenInv, LeavesMachineAsFound
<1>3. CASE initTimer \/ freeTimer \/ Count \/ Irq
  <2>1. UNCHANGED install_vars /\ pc' \in Places
        /\ pc \notin Unguarded /\ pc' \notin Unguarded
    <3>1. CASE initTimer \/ freeTimer \/ Count
      BY <3>1 DEF initTimer, freeTimer, Count, Started, InProgram, Places, Unguarded
    <3>2. CASE Irq
      <4>1. InProgram /\ UNCHANGED <<install_vars, pc>>
        BY <3>2, Zenon DEF Irq, LineInv
      <4> QED BY <4>1 DEF InProgram, Places, Unguarded
    <3> QED BY <1>3, <3>1, <3>2
  <2> QED BY <2>1, QuietTaken
<1>4. CASE \/ Call_UserApp \/ exit
           \/ (\E b, n, old : read(b, n, old)) \/ (\E c : getc(c)) \/ ReadReturn
           \/ (\E text : write(text)) \/ putc \/ WriteReturn
           \/ (\E sleep_time \in 0..(WORD - 1) : sleep(sleep_time)) \/ SleepReturn
  <2>1. UNCHANGED install_vars /\ pc' \in Places
        /\ pc \notin Unguarded /\ pc' \notin Unguarded
    BY <1>4 DEF Call_UserApp, exit, read, getc, ReadReturn, write, putc, WriteReturn, sleep,
                SleepReturn, Places, Unguarded
  <2> QED BY <2>1, QuietTaken
<1> QED BY <1>1, <1>2, <1>3, <1>4 DEF KernelStep

LEMMA StepLine ==
    ASSUME LineInv, KernelStep
    PROVE  LineInv'
<1>1. CASE initTimer
  <2>1. Started' /\ ~Started /\ UNCHANGED unmasked
    BY <1>1 DEF initTimer, Started, InProgram
  <2>2. ~unmasked
    BY <2>1, Zenon DEF LineInv, Started
  <2>3. ossr' = FALSE /\ oier' = TRUE /\ icmr' = TRUE /\ iclr' = FALSE
    BY <1>1, Zenon DEF initTimer
  <2> QED BY <2>1, <2>2, <2>3, Zenon DEF LineInv
<1>2. CASE freeTimer
  <2>1. ~Started' /\ ~InProgram /\ UNCHANGED unmasked
    BY <1>2 DEF freeTimer, Started, InProgram
  <2>2. ossr' = FALSE /\ oier' = FALSE /\ icmr' = FALSE
    BY <1>2, Zenon DEF freeTimer
  <2> QED BY <2>1, <2>2, Zenon DEF LineInv
<1>3. CASE Count \/ Irq
  <2>1. UNCHANGED <<pc, unmasked, oier, icmr, iclr>> /\ ossr' \in BOOLEAN
    BY <1>3, Zenon DEF Count, Irq, C_IRQ_Handler
  <2>2. /\ (Started' <=> Started) /\ (InProgram' <=> InProgram)
    BY <2>1 DEF Started, InProgram
  <2>3. unmasked' = unmasked /\ oier' = oier /\ icmr' = icmr /\ iclr' = iclr
    BY <2>1
  <2>4. (Started' => oier' /\ icmr' /\ ~iclr') /\ (~Started' => ~oier' /\ ~icmr')
    BY <2>2, <2>3, Zenon DEF LineInv
  <2>5. unmasked' => InProgram'
    BY <2>2, <2>3, Zenon DEF LineInv
  <2> QED BY <2>1, <2>4, <2>5, Zenon DEF LineInv
<1>4. CASE Call_UserApp \/ exit
  <2>1. Started /\ Started' /\ (unmasked' = FALSE \/ InProgram')
        /\ UNCHANGED <<oier, icmr, iclr, ossr>>
    BY <1>4 DEF Call_UserApp, exit, Started, InProgram, timer_vars
  <2> QED BY <2>1, Zenon DEF LineInv
<1>5. CASE \/ Install_Handler("swi", "kmain", "swi installed")
           \/ Install_Handler("irq", "swi installed", "irq installed") \/ RestoreHandlers
  <2>1. ~Started /\ ~Started' /\ ~InProgram
        /\ UNCHANGED <<unmasked, oier, icmr, iclr, ossr>>
    BY <1>5 DEF Install_Handler, RestoreHandlers, Started, InProgram, timer_vars
  <2> QED BY <2>1, Zenon DEF LineInv
<1>6. CASE \/ (\E b, n, old : read(b, n, old)) \/ (\E c : getc(c)) \/ ReadReturn
           \/ (\E text : write(text)) \/ putc \/ WriteReturn
           \/ (\E sleep_time \in 0..(WORD - 1) : sleep(sleep_time)) \/ SleepReturn
  <2>1. Started /\ Started' /\ InProgram'
        /\ UNCHANGED <<oier, icmr, iclr, ossr>>
    BY <1>6 DEF read, getc, ReadReturn, write, putc, WriteReturn, sleep, SleepReturn,
                Started, InProgram, timer_vars
  <2> QED BY <2>1, Zenon DEF LineInv
<1> QED BY <1>1, <1>2, <1>3, <1>4, <1>5, <1>6 DEF KernelStep

\* At the start nothing has been counted.
LEMMA InitClock == Init => ClockInv
<1> SUFFICES ASSUME Init PROVE ClockInv
  OBVIOUS
<1>1. pc = "kmain" /\ now = 0 /\ held = 0 /\ timer = 0 /\ oscr = 0 /\ ticks = 0
  BY DEF Init
<1>2. 0 % WORD = 0
  BY WordAssumption, ModSmall
<1> QED BY <1>1, <1>2 DEF ClockInv, Installing, Started, InProgram

\* A count is the running tick's, unless that is over: then interrupts are masked.
LEMMA CountClock ==
    ASSUME LineInv, ClockInv, Count
    PROVE  ClockInv' /\ Lost' >= Lost
<1>1. /\ MATCH \in Nat \ {0} /\ ticks * MATCH \in Nat
      /\ now \in Nat /\ held \in Nat /\ ticks \in Nat /\ oscr \in Nat
  BY MatchAssumption DEF ClockInv
<1>2. /\ Started /\ Started' /\ pc' \notin Installing
  BY DEF Count, Started, InProgram, Installing
<1>3. osmr = MATCH /\ (ossr = TRUE \/ oscr < MATCH) /\ 0 <= Lost /\ Lost <= held
  BY <1>2 DEF ClockInv
<1>4. osmr' = osmr /\ timer' = timer /\ ticks' = ticks /\ now' = now + 1 /\ oscr' = oscr + 1
  BY Zenon DEF Count
<1>5. oier /\ icmr /\ ~iclr
  BY <1>2, Zenon DEF LineInv
<1>6. CASE ossr
  <2>1. ossr = TRUE /\ ossr' = TRUE
    BY <1>6, Zenon DEF Count, LineInv
  <2>2. held' = held + 1
    BY <1>5, <1>6, Zenon DEF Count, Pending
  <2>3. Lost = now - ticks * MATCH - MATCH /\ Lost' = now + 1 - ticks * MATCH - MATCH
    BY <1>1, <1>4, <2>1 DEF Lost
  <2>4. Lost \in Int /\ Lost' = Lost + 1
    BY <1>1, <2>3
  <2> QED BY <1>1, <1>2, <1>3, <1>4, <2>1, <2>2, <2>4 DEF ClockInv
<1>7. CASE ~ossr
  <2>1. ossr = FALSE
    BY <1>7, Zenon DEF LineInv
  <2>2. held' \in Nat /\ held' >= held
    <3>1. held' = held \/ held' = held + 1
      BY Zenon DEF Count
    <3> QED BY <1>1, <3>1
  <2>3. ossr' = (oscr' = osmr)
    BY <1>5, <2>1, Zenon DEF Count
  <2>4. Lost = now - ticks * MATCH - oscr /\ Lost \in Int
    BY <1>1, <2>1 DEF Lost
  <2>5. CASE oscr + 1 = MATCH
    <3>1. ossr' = TRUE
      <4>1. oscr' = osmr
        BY <1>3, <1>4, <2>5
      <4> QED BY <2>3, <4>1, Zenon
    <3>2. Lost' = now + 1 - ticks * MATCH - MATCH
      BY <1>1, <1>4, <3>1 DEF Lost
    <3>3. Lost' = Lost
      BY <1>1, <2>4, <2>5, <3>2
    <3> QED BY <1>1, <1>2, <1>3, <1>4, <2>2, <2>4, <3>1, <3>3 DEF ClockInv
  <2>6. CASE oscr + 1 # MATCH
    <3>1. ossr' = FALSE
      <4>1. oscr' # osmr
        BY <1>3, <1>4, <2>6
      <4> QED BY <2>3, <4>1, Zenon
    <3>2. Lost' = now + 1 - ticks * MATCH - (oscr + 1)
      BY <1>1, <1>4, <3>1 DEF Lost
    <3>3. Lost' = Lost /\ oscr + 1 < MATCH
      BY <1>1, <1>3, <2>1, <2>4, <2>6, <3>2
    <3> QED BY <1>1, <1>2, <1>3, <1>4, <2>2, <2>4, <3>3 DEF ClockInv
  <2> QED BY <2>5, <2>6
<1> QED BY <1>6, <1>7

\* Serving the interrupt makes the tick that is over one of the clock's.
LEMMA IrqClock ==
    ASSUME LineInv, ClockInv, Irq
    PROVE  ClockInv' /\ Lost' = Lost /\ Started
<1>1. /\ MATCH \in Nat \ {0} /\ ticks \in Nat /\ now \in Nat /\ held \in Nat
  BY MatchAssumption DEF ClockInv
<1>2. /\ ticks * MATCH \in Nat /\ (ticks + 1) * MATCH = ticks * MATCH + MATCH
  BY <1>1
<1>3. InProgram /\ ossr = TRUE
  BY Zenon DEF Irq, Pending, LineInv
<1>4. Started /\ pc \notin Installing
  BY <1>3 DEF Started, InProgram, Installing
<1>5. /\ timer' = (timer + 1) % WORD /\ ossr' = FALSE /\ oscr' = 0 /\ osmr' = osmr /\ pc' = pc
      /\ ticks' = ticks + 1 /\ UNCHANGED <<now, held>>
  BY Zenon DEF Irq, C_IRQ_Handler
<1>6. now' = now /\ held' = held /\ timer' = ticks' % WORD
  <2>1. ((ticks % WORD) + 1) % WORD = (ticks + 1) % WORD
    <3>1. WORD \in Nat \ {0} /\ ticks \in Int /\ 1 \in Int
      BY <1>1, WordAssumption
    <3> QED BY <3>1, ModAdd
  <2> QED BY <1>5, <2>1 DEF ClockInv
<1>7. Lost' = Lost /\ Lost \in Int
  <2>1. Lost = now - ticks * MATCH - MATCH
    BY <1>3 DEF Lost
  <2>2. Lost' = now - (ticks + 1) * MATCH - 0
    BY <1>5, <1>6 DEF Lost
  <2> QED BY <1>1, <1>2, <2>1, <2>2
<1> QED BY <1>1, <1>4, <1>5, <1>6, <1>7 DEF ClockInv

\* No other step of a started kernel touches the timer.
LEMMA QuietClock ==
    ASSUME ClockInv, UNCHANGED <<timer_vars, time_vars>>, Started' => Started,
           pc' \in Installing => pc \in Installing
    PROVE  ClockInv' /\ Lost' = Lost
<1>1. UNCHANGED <<timer, oscr, osmr, ossr, now, held, ticks>>
  BY DEF timer_vars, time_vars
<1>2. Lost' = Lost
  BY <1>1 DEF Lost
<1> QED BY <1>1, <1>2 DEF ClockInv

\* What the clock has lost is a number that only grows while the kernel runs.
LEMMA StepClock ==
    ASSUME LineInv, ClockInv, KernelStep
    PROVE  ClockInv' /\ (Started => Lost \in Int /\ (Started' => Lost' >= Lost))
<1>0. Lost \in Int
  BY MatchAssumption DEF ClockInv, Lost
<1>1. CASE Count
  BY <1>0, <1>1, CountClock
<1>2. CASE Irq
  BY <1>0, <1>2, IrqClock
<1>3. CASE initTimer
  <2>1. ossr' = FALSE /\ UNCHANGED time_vars /\ pc = "irq installed" /\ pc' = "timer started"
    BY <1>3, Zenon DEF initTimer
  <2>2. timer' = 0 /\ osmr' = MATCH /\ oscr' = 0
    BY <1>3, Zenon DEF initTimer
  <2>3. now' = 0 /\ held' = 0 /\ ticks' = 0 /\ ~Started /\ pc' \notin Installing
    BY <2>1 DEF ClockInv, Installing, time_vars, Started, InProgram
  <2>4. ticks' * MATCH = 0 /\ 0 < MATCH /\ timer' = ticks' % WORD
    <3>1. 0 % WORD = 0
      BY WordAssumption, ModSmall
    <3> QED BY <2>2, <2>3, <3>1, MatchAssumption
  <2>5. Lost' = now' - ticks' * MATCH - oscr'
    BY <2>1 DEF Lost
  <2>6. Lost' = 0
    BY <2>2, <2>3, <2>4, <2>5
  <2>7. /\ ticks' \in Nat /\ oscr' \in Nat /\ now' \in Nat /\ held' \in Nat
        /\ osmr' = MATCH /\ oscr' < MATCH /\ 0 <= Lost' /\ Lost' <= held'
    BY <2>2, <2>3, <2>4, <2>6
  <2>8. ClockInv'
    BY <2>3, <2>4, <2>7 DEF ClockInv
  <2> QED BY <2>3, <2>8
<1>4. CASE freeTimer
  <2>1. pc' = "timer freed" /\ timer' = timer /\ oscr' = oscr /\ UNCHANGED time_vars
    BY <1>4, Zenon DEF freeTimer
  <2>2. ~Started' /\ pc' \notin Installing /\ now' = now /\ held' = held /\ ticks' = ticks
    BY <2>1 DEF time_vars, Started, InProgram, Installing
  <2> QED BY <1>0, <2>1, <2>2 DEF ClockInv
<1>5. CASE \/ Install_Handler("swi", "kmain", "swi installed")
           \/ Install_Handler("irq", "swi installed", "irq installed")
  <2>1. /\ UNCHANGED <<timer_vars, time_vars>> /\ ~Started' /\ ~Started
        /\ pc \in Installing
    BY <1>5 DEF Install_Handler, Started, InProgram, Installing
  <2> QED BY <2>1, QuietClock
<1>6. CASE \/ Call_UserApp \/ exit \/ RestoreHandlers
           \/ (\E b, n, old : read(b, n, old)) \/ (\E c : getc(c)) \/ ReadReturn
           \/ (\E text : write(text)) \/ putc \/ WriteReturn
           \/ (\E sleep_time \in 0..(WORD - 1) : sleep(sleep_time)) \/ SleepReturn
  <2>1. /\ UNCHANGED <<timer_vars, time_vars>> /\ (Started' => Started)
        /\ pc' \notin Installing
    BY <1>6 DEF Call_UserApp, exit, RestoreHandlers, read, getc, ReadReturn, write, putc,
                WriteReturn, sleep, SleepReturn, Started, InProgram, Installing
  <2>2. ClockInv' /\ Lost' = Lost
    BY <2>1, QuietClock
  <2> QED BY <1>0, <2>2
<1> QED BY <1>1, <1>2, <1>3, <1>4, <1>5, <1>6 DEF KernelStep

-----------------------------------------------------------------------------
(* A sleep.                                                                *)

\* The clock's width makes no difference to what it shows: it wraps before the
\* multiplication as after it.
LEMMA ModTimes ==
    ASSUME NEW m \in Nat \ {0}, NEW x \in Nat, NEW y \in Nat
    PROVE  ((x % m) * y) % m = (x * y) % m
<1> DEFINE k == x \div m
           l == x % m
           r == (l * y) % m
           h == (l * y) \div m
<1>1. x = m * k + l /\ k \in Int /\ l \in 0..(m - 1)
  BY Division
<1>2. l * y = m * h + r /\ h \in Int /\ r \in 0..(m - 1)
  <2>1. l * y \in Int
    BY <1>1
  <2> QED BY <2>1, Division
<1> HIDE DEF k, l, h, r
<1>3. x * y = m * (k * y + h) + r
  <2>1. x * y = m * (k * y) + l * y
    BY <1>1
  <2>2. m * (k * y + h) = m * (k * y) + m * h
    BY <1>1, <1>2
  <2> QED BY <1>1, <1>2, <2>1, <2>2
<1>4. (x * y) % m = r
  <2> DEFINE z == x * y
             c == k * y + h
  <2>1. z \in Int /\ c \in Int /\ z = m * c + r
    BY <1>1, <1>2, <1>3
  <2> HIDE DEF z, c
  <2>2. z % m = r
    BY <1>2, <2>1, ModUnique
  <2> QED BY <2>2 DEF z
<1> QED BY <1>4 DEF r, l

LEMMA ClockShows ==
    ASSUME ClockInv
    PROVE  getTimer = ClockAt(ticks) /\ getTimer \in 0..(WORD - 1)
<1>1. timer = ticks % WORD /\ ticks \in Nat /\ WORD \in Nat \ {0} /\ TIMER_RESOLUTION \in Nat
  BY WordAssumption, ResolutionAssumption DEF ClockInv
<1>2. ((ticks % WORD) * TIMER_RESOLUTION) % WORD = (ticks * TIMER_RESOLUTION) % WORD
  BY <1>1, ModTimes
<1>3. ticks * TIMER_RESOLUTION \in Int
  BY <1>1
<1>4. (ticks * TIMER_RESOLUTION) % WORD \in 0..(WORD - 1)
  BY <1>1, <1>3, Division
<1> QED BY <1>1, <1>2, <1>4 DEF getTimer, ClockAt

\* While it sleeps, only the clock moves.
LEMMA StepSleeping ==
    ASSUME LineInv, ClockInv, SleepingInv, KernelStep
    PROVE  SleepingInv'
<1> SUFFICES ASSUME pc' = "sleeping" PROVE SleepingInv'
  BY DEF SleepingInv
<1>1. Started => Lost \in Int /\ (Started' => Lost' >= Lost)
  BY StepClock
<1>2. Started'
  BY DEF Started, InProgram
<1>3. CASE Count \/ Irq
  <2>1. UNCHANGED <<pc, sleep_vars>>
    <3>1. CASE Count
      BY <3>1, Zenon DEF Count
    <3>2. CASE Irq
      BY <3>2, Zenon DEF Irq
    <3> QED BY <1>3, <3>1, <3>2
  <2>2. /\ pc = "sleeping" /\ UNCHANGED <<wait_time, asked, started>>
    BY <2>1 DEF sleep_vars
  <2>3. Lost \in Int /\ Lost' \in Int /\ Lost' >= Lost
    <3>1. Lost' \in Int
      <4>1. ClockInv'
        BY StepClock
      <4> QED BY <4>1, MatchAssumption DEF ClockInv, Lost
    <3> QED BY <1>1, <1>2, <2>2, <3>1 DEF Started, InProgram
  <2>4. started \in Nat /\ asked \in 0..(WORD - 1)
    BY <2>2 DEF SleepingInv
  <2>5. PICK t0 \in 0..ticks : /\ wait_time = (ClockAt(t0) + asked) % WORD
                               /\ started <= t0 * MATCH + MATCH + Lost
    BY <2>2 DEF SleepingInv
  <2>6. t0 * MATCH + MATCH \in Int /\ t0 \in 0..ticks'
    <3>1. ticks \in Nat /\ (ticks' = ticks \/ ticks' = ticks + 1)
      BY <1>3, Zenon DEF Count, Irq, ClockInv
    <3> QED BY <2>5, <3>1, MatchAssumption
  <2>7. started' <= t0 * MATCH + MATCH + Lost'
    BY <2>2, <2>3, <2>4, <2>5, <2>6
  <2>8. wait_time' = (ClockAt(t0) + asked') % WORD
    BY <2>2, <2>5
  <2> QED BY <2>2, <2>4, <2>6, <2>7, <2>8 DEF SleepingInv, ClockAt
<1>4. CASE \E sleep_time \in 0..(WORD - 1) : sleep(sleep_time)
  <2>1. PICK d \in 0..(WORD - 1) : sleep(d)
    BY <1>4
  <2>2. /\ wait_time' = (getTimer + d) % WORD /\ asked' = d /\ started' = now
        /\ pc = "user" /\ UNCHANGED <<timer_vars, time_vars>>
    BY <2>1, Zenon DEF sleep
  <2>3. /\ ticks \in Nat /\ now \in Nat /\ oscr \in Nat /\ MATCH \in Nat \ {0}
        /\ (ossr = TRUE \/ oscr < MATCH)
    BY <2>2, MatchAssumption DEF ClockInv, Started, InProgram
  <2>4. ticks * MATCH \in Int
    BY <2>3
  <2>5. now <= ticks * MATCH + MATCH + Lost
    <3>1. CASE ossr = TRUE
      <4>1. Lost = now - ticks * MATCH - MATCH
        BY <3>1 DEF Lost
      <4> QED BY <2>3, <2>4, <4>1
    <3>2. CASE ossr # TRUE
      <4>1. Lost = now - ticks * MATCH - oscr /\ oscr < MATCH
        BY <2>3, <3>2 DEF Lost
      <4> QED BY <2>3, <2>4, <4>1
    <3> QED BY <3>1, <3>2
  <2>6. Lost' = Lost /\ ticks' = ticks
    BY <2>2 DEF Lost, timer_vars, time_vars
  <2>7. getTimer = ClockAt(ticks)
    BY ClockShows
  <2>8. /\ wait_time' = (ClockAt(ticks) + asked') % WORD /\ ticks \in 0..ticks'
        /\ started' <= ticks * MATCH + MATCH + Lost'
    BY <2>2, <2>3, <2>5, <2>6, <2>7
  <2> QED BY <2>2, <2>3, <2>8 DEF SleepingInv, ClockAt
<1>5. CASE \/ Install_Handler("swi", "kmain", "swi installed")
           \/ Install_Handler("irq", "swi installed", "irq installed")
           \/ initTimer \/ Call_UserApp \/ exit \/ freeTimer \/ RestoreHandlers
           \/ (\E b, n, old : read(b, n, old)) \/ (\E c : getc(c)) \/ ReadReturn
           \/ (\E text : write(text)) \/ putc \/ WriteReturn \/ SleepReturn
  BY <1>5 DEF Install_Handler, initTimer, Call_UserApp, exit, freeTimer, RestoreHandlers,
              read, getc, ReadReturn, write, putc, WriteReturn, SleepReturn
<1> QED BY <1>3, <1>4, <1>5 DEF KernelStep

\* Two ratios of counts and milliseconds: d ticks of R are as long as asked, and w is
\* d ticks of M but one.
LEMMA ShortByOneTick ==
    ASSUME NEW M \in Nat \ {0}, NEW R \in Nat \ {0}, NEW d \in Int, NEW a \in Nat, NEW w \in Int,
           d * R >= a, w >= (d - 1) * M
    PROVE  w * R >= (a - R) * M
<1> DEFINE e == w - (d - 1) * M
           f == d * R - a
<1>1. e \in Nat /\ w = (d - 1) * M + e
  OBVIOUS
<1>2. f \in Nat /\ d * R = a + f
  OBVIOUS
<1> HIDE DEF e, f
<1>3. (d - 1) * R = (a - R) + f
  <2>1. (d - 1) * R = d * R - R
    OBVIOUS
  <2> QED BY <1>2, <2>1
<1>4. w * R = ((d - 1) * R) * M + e * R
  BY <1>1
<1>5. ((d - 1) * R) * M = (a - R) * M + f * M
  BY <1>2, <1>3
<1>6. e * R \in Nat /\ f * M \in Nat /\ (a - R) * M \in Int
  BY <1>1, <1>2
<1> QED BY <1>4, <1>5, <1>6

\* A clock that shows d more than it did at an earlier tick, without passing its
\* width in the sum, has gone on for at least as long, however often it started again
\* meanwhile.
LEMMA ClockGoesOn ==
    ASSUME NEW m \in Nat \ {0}, NEW x \in Nat, NEW y \in Nat, x <= y, NEW d \in 0..(m - 1),
           y % m >= ((x % m) + d) % m
    PROVE  ((x % m) + d) % m < d \/ y - x >= d
<1> DEFINE k == x \div m
           l == y \div m
           u == x % m
           v == y % m
<1>1. x = m * k + u /\ k \in Int /\ u \in 0..(m - 1)
  BY Division
<1>2. y = m * l + v /\ l \in Int /\ v \in 0..(m - 1)
  BY Division
<1>3. v >= (u + d) % m
  OBVIOUS
<1> SUFFICES (u + d) % m < d \/ y - x >= d
  OBVIOUS
<1> HIDE DEF k, l, u, v
<1>4. CASE u + d < m
  <2>1. (u + d) % m = u + d
    <3>1. u + d \in 0..(m - 1)
      BY <1>1, <1>4
    <3> QED BY <3>1, ModSmall
  <2>2. l >= k
    <3> SUFFICES ASSUME l <= k - 1 PROVE FALSE
      BY <1>1, <1>2
    <3> DEFINE e == k - 1 - l
    <3>1. e \in Nat /\ k = l + 1 + e
      BY <1>1, <1>2
    <3> HIDE DEF e
    <3>2. m * k = m * l + m + m * e /\ m * e \in Nat /\ m * l \in Int
      BY <1>2, <3>1
    <3> QED BY <1>1, <1>2, <3>2
  <2>3. m * l >= m * k
    <3> DEFINE e == l - k
    <3>1. e \in Nat /\ l = k + e
      BY <1>1, <1>2, <2>2
    <3> HIDE DEF e
    <3>2. m * l = m * k + m * e /\ m * e \in Nat /\ m * k \in Int
      BY <1>1, <3>1
    <3> QED BY <3>2
  <2>4. m * l \in Int /\ m * k \in Int
    BY <1>1, <1>2
  <2> QED BY <1>1, <1>2, <1>3, <2>1, <2>3, <2>4
<1>5. CASE u + d >= m
  <2>1. (u + d) % m = u + d - m
    <3> DEFINE z == u + d
               w == u + d - m
    <3>1. z \in Int /\ w \in 0..(m - 1) /\ z = m * 1 + w
      BY <1>1, <1>5
    <3> HIDE DEF z, w
    <3>2. z % m = w
      BY <3>1, ModUnique
    <3> QED BY <3>2 DEF z, w
  <2> QED BY <1>1, <2>1
<1> QED BY <1>1, <1>4, <1>5

\* What has been counted since the sleep began is the ticks since then but one.
LEMMA SleptEnough ==
    ASSUME LineInv, ClockInv, SleepingInv, SleepReturn
    PROVE  \/ wait_time < asked
           \/ (now - started) * TIMER_RESOLUTION >= (asked - TIMER_RESOLUTION) * MATCH
<1>1. /\ MATCH \in Nat \ {0} /\ TIMER_RESOLUTION \in Nat \ {0} /\ WORD \in Nat \ {0}
      /\ ticks \in Nat /\ now \in Nat /\ oscr \in Nat
  BY MatchAssumption, ResolutionAssumption, WordAssumption DEF ClockInv
<1>2. pc = "sleeping" /\ getTimer >= wait_time /\ getTimer = ClockAt(ticks)
  BY ClockShows, Zenon DEF SleepReturn, Slept
<1>3. PICK t0 \in 0..ticks : /\ wait_time = (ClockAt(t0) + asked) % WORD
                             /\ started <= t0 * MATCH + MATCH + Lost
  BY <1>2 DEF SleepingInv
<1>4. started \in Nat /\ asked \in 0..(WORD - 1)
  BY <1>2 DEF SleepingInv
<1> SUFFICES ASSUME ~(wait_time < asked)
             PROVE  (now - started) * TIMER_RESOLUTION >= (asked - TIMER_RESOLUTION) * MATCH
  OBVIOUS
<1>5. /\ (ticks - t0) * TIMER_RESOLUTION = ticks * TIMER_RESOLUTION - t0 * TIMER_RESOLUTION
      /\ ticks * TIMER_RESOLUTION \in Int /\ t0 * TIMER_RESOLUTION \in Int
      /\ (ticks - t0 - 1) * MATCH = ticks * MATCH - t0 * MATCH - MATCH
      /\ ticks * MATCH \in Int /\ t0 * MATCH \in Int
  BY <1>1
<1>6. (ticks - t0) * TIMER_RESOLUTION >= asked
  <2> DEFINE x == t0 * TIMER_RESOLUTION
             y == ticks * TIMER_RESOLUTION
  <2>1. x \in Nat /\ y \in Nat /\ x <= y
    <3> DEFINE e == ticks - t0
    <3>1. e \in Nat /\ ticks = t0 + e
      BY <1>1, <1>3
    <3> HIDE DEF e
    <3>2. ticks * TIMER_RESOLUTION = t0 * TIMER_RESOLUTION + e * TIMER_RESOLUTION
      BY <1>1, <1>3, <3>1
    <3>3. e * TIMER_RESOLUTION \in Nat /\ t0 * TIMER_RESOLUTION \in Nat
      BY <1>1, <1>3, <3>1
    <3> QED BY <3>2, <3>3
  <2>2. y % WORD >= ((x % WORD) + asked) % WORD /\ ~(((x % WORD) + asked) % WORD < asked)
    BY <1>2, <1>3 DEF ClockAt
  <2> HIDE DEF x, y
  <2>3. y - x >= asked
    BY <1>1, <1>4, <2>1, <2>2, ClockGoesOn
  <2> QED BY <1>5, <2>3 DEF x, y
<1>7. Lost \in Int /\ Lost <= now - ticks * MATCH
  <2>1. CASE ossr = TRUE
    <3>1. Lost = now - ticks * MATCH - MATCH
      BY <2>1 DEF Lost
    <3> QED BY <1>1, <1>5, <3>1
  <2>2. CASE ossr # TRUE
    <3>1. Lost = now - ticks * MATCH - oscr
      BY <2>2 DEF Lost
    <3> QED BY <1>1, <1>5, <3>1
  <2> QED BY <2>1, <2>2
<1>8. now - started >= (ticks - t0 - 1) * MATCH
  BY <1>1, <1>3, <1>4, <1>5, <1>7
<1> DEFINE d == ticks - t0
           w == now - started
<1>9. d \in Int /\ w \in Int /\ d * TIMER_RESOLUTION >= asked /\ w >= (d - 1) * MATCH
  BY <1>1, <1>4, <1>6, <1>8
<1> HIDE DEF d, w
<1>10. w * TIMER_RESOLUTION >= (asked - TIMER_RESOLUTION) * MATCH
  BY <1>1, <1>4, <1>9, ShortByOneTick
<1> QED BY <1>10 DEF w

-----------------------------------------------------------------------------
(* Reading a line.                                                         *)

\* The line that is open: the screen is in step, and the buffer holds what was typed.
OpenLine ==
    /\ count \in Nat /\ typed \in Seq(Nat) /\ line \in Line(count)
    /\ ~line.ended => InStep(line.screen, line.buf, line.length)
    /\ AsTyped(line.buf, line.length, typed)

\* The programs of lab3 read into their one buffer.
ReadingInv ==
    /\ pc = "reading" => OpenLine
    /\ part = "lab3" => block \in [Index -> Nat] /\ (pc = "reading" => count = BLOCK_SIZE)

LEMMA LineOpens ==
    ASSUME NEW n \in Nat, NEW old \in [0..(n - 1) -> Nat],
           count' = n, line' = NewLine(old), typed' = <<>>
    PROVE  OpenLine'
<1> DEFINE ln == NewLine(old)
<1>1. /\ ln = [buf |-> old, length |-> 0, screen |-> [col |-> 0, row |-> <<>>], ended |-> FALSE]
      /\ ln.length = 0 /\ ln.buf = old /\ ln.screen.col = 0 /\ ln.screen.row = <<>>
  BY DEF NewLine
<1>2. ln.screen \in Screen /\ [col |-> 0, row |-> <<>>] \in Screen
  BY DEF Screen, NewLine
<1>3. ln \in Line(n)
  BY <1>1, <1>2 DEF Line
<1>4. InStep(ln.screen, old, 0)
  BY <1>1 DEF InStep
<1>5. AsTyped(old, 0, <<>>)
  BY NothingTyped
<1>6. ln \in Line(n) /\ InStep(ln.screen, ln.buf, ln.length) /\ AsTyped(ln.buf, ln.length, <<>>)
      /\ <<>> \in Seq(Nat)
  BY <1>1, <1>3, <1>4, <1>5
<1> HIDE DEF ln
<1>7. line' = ln
  BY DEF ln
<1>8. line'.screen = ln.screen /\ line'.buf = ln.buf /\ line'.length = ln.length
  BY <1>7
<1> QED BY <1>6, <1>7, <1>8 DEF OpenLine

LEMMA LineGoesOn ==
    ASSUME OpenLine, NEW c \in Nat, getc(c)
    PROVE  OpenLine' /\ pc' = pc /\ count' = count
<1> DEFINE k == Keyed(line, c)
<1>1. /\ pc' = pc /\ count' = count /\ line' = k /\ typed' = Append(typed, c)
      /\ line.length < count /\ ~line.ended
  BY Zenon DEF getc, MoreToRead
<1>2. /\ count \in Nat /\ line \in Line(count) /\ typed \in Seq(Nat)
      /\ InStep(line.screen, line.buf, line.length) /\ AsTyped(line.buf, line.length, typed)
  BY <1>1, Zenon DEF OpenLine
<1>3. line.buf \in [0..(count - 1) -> Nat] /\ line.length \in Nat /\ line.length \in 0..count
  BY <1>2, LineFields
<1>4. /\ k \in Line(count)
      /\ ~k.ended => InStep(k.screen, k.buf, k.length)
      /\ \/ /\ Types(c) /\ k.length = line.length + 1
            /\ k.buf = [line.buf EXCEPT ![line.length] = c]
         \/ /\ Erases(c) /\ ~Types(c) /\ line.length # 0
            /\ k.length = line.length - 1
            /\ k.buf = [line.buf EXCEPT ![line.length - 1] = 0]
         \/ /\ ~Types(c) /\ (Erases(c) => line.length = 0)
            /\ k.length = line.length /\ k.buf = line.buf
  BY <1>1, <1>2, KeyedLine
<1> HIDE DEF k
<1>5. AsTyped(k.buf, k.length, Append(typed, c))
  <2>1. CASE /\ Types(c) /\ k.length = line.length + 1
             /\ k.buf = [line.buf EXCEPT ![line.length] = c]
    <3>1. AsTyped([line.buf EXCEPT ![line.length] = c], line.length + 1, Append(typed, c))
      BY <1>1, <1>2, <1>3, <2>1, TypedOne
    <3> QED BY <2>1, <3>1
  <2>2. CASE /\ Erases(c) /\ ~Types(c) /\ line.length # 0
             /\ k.length = line.length - 1
             /\ k.buf = [line.buf EXCEPT ![line.length - 1] = 0]
    <3>1. line.length \in 1..count
      BY <1>3, <2>2
    <3>2. AsTyped([line.buf EXCEPT ![line.length - 1] = 0], line.length - 1, Append(typed, c))
      BY <1>2, <1>3, <2>2, <3>1, ErasedOne
    <3> QED BY <2>2, <3>2
  <2>3. CASE /\ ~Types(c) /\ (Erases(c) => line.length = 0)
             /\ k.length = line.length /\ k.buf = line.buf
    <3>1. AsTyped(line.buf, line.length, Append(typed, c))
      BY <1>2, <1>3, <2>3, TypedNothing
    <3> QED BY <2>3, <3>1
  <2> QED BY <1>4, <2>1, <2>2, <2>3
<1>6. Append(typed, c) \in Seq(Nat)
  BY <1>2
<1>7. line'.screen = k.screen /\ line'.buf = k.buf /\ line'.length = k.length
      /\ line'.ended = k.ended /\ line' \in Line(count')
  BY <1>1, <1>4
<1>8. InStep(line'.screen, line'.buf, line'.length) <=> InStep(k.screen, k.buf, k.length)
  BY <1>7
<1> QED BY <1>1, <1>2, <1>4, <1>5, <1>6, <1>7, <1>8, Zenon DEF OpenLine

\* What a step of any of the three parts does to lab3's open line.
LEMMA ProjectRead ==
    ASSUME AllStep, ReadingInv
    PROVE  /\ \/ pc' # "reading"
              \/ UNCHANGED <<pc, count, line, typed>>
              \/ \E n \in Nat : \E old \in [0..(n - 1) -> Nat] :
                    count' = n /\ line' = NewLine(old) /\ typed' = <<>>
              \/ \E c \in Nat : getc(c)
           /\ part' = part
<1> DEFINE Kept3 == UNCHANGED <<pc, count, line, typed>>
           Starts == \E n \in Nat : \E old \in [0..(n - 1) -> Nat] :
                        count' = n /\ line' = NewLine(old) /\ typed' = <<>>
           Keys3 == \E c \in Nat : getc(c)
<1>1. ASSUME \/ Install_Handler("swi", "kmain", "swi installed")
             \/ Install_Handler("irq", "swi installed", "irq installed")
             \/ initTimer \/ Call_UserApp \/ exit \/ freeTimer \/ RestoreHandlers
             \/ ReadReturn \/ (\E text : write(text)) \/ putc \/ WriteReturn
             \/ (\E s : sleep(s)) \/ SleepReturn
      PROVE  pc' # "reading"
  BY <1>1 DEF Install_Handler, initTimer, Call_UserApp, exit, freeTimer, RestoreHandlers,
              ReadReturn, write, putc, WriteReturn, sleep, SleepReturn
<1>2. ASSUME Count \/ Irq PROVE Kept3
  BY <1>2 DEF Count, Irq, read_vars
<1>3. ASSUME Next PROVE pc' # "reading" \/ Kept3 \/ Starts \/ Keys3
  <2>1. CASE \E b \in Buffers : read(b[1], b[2], [i \in 0..(b[2] - 1) |-> 0])
    <3>1. PICK b \in Buffers : read(b[1], b[2], [i \in 0..(b[2] - 1) |-> 0])
      BY <2>1
    <3>2. b[2] \in Nat /\ [i \in 0..(b[2] - 1) |-> 0] \in [0..(b[2] - 1) -> Nat]
      BY BuffersAssumption
    <3> QED BY <3>1, <3>2 DEF read
  <2>2. CASE \E c \in Keys : getc(c)
    BY <2>2, KeysAssumption
  <2>3. CASE Count \/ Irq
    BY <1>2, <2>3
  <2> HIDE DEF Kept3, Starts, Keys3
  <2>4. (\E text \in Texts : write(text)) => \E text : write(text)
    OBVIOUS
  <2>5. (\E s \in Sleeps : sleep(s)) => \E s : sleep(s)
    OBVIOUS
  <2> QED BY <1>1, <1>3, <2>1, <2>2, <2>3, <2>4, <2>5 DEF Next
<1>4. ASSUME ProgramsNext, part = "lab3" PROVE pc' # "reading" \/ Kept3 \/ Starts \/ Keys3
  <2>1. CASE read_line
    <3>1. read(SDRAM_LOW, BLOCK_SIZE, block) /\ block \in [0..(BLOCK_SIZE - 1) -> Nat] /\ BLOCK_SIZE \in Nat
      BY <1>4, <2>1, BlockAssumption DEF read_line, ReadingInv, Index
    <3> QED BY <3>1 DEF read
  <2>2. CASE Kernel
    <3>1. CASE \E c \in LineKeys : getc(c)
      BY <3>1, LineKeysAssumption
    <3> HIDE DEF Kept3, Starts, Keys3
    <3> QED BY <1>1, <1>2, <2>2, <3>1 DEF Kernel
  <2>3. CASE start_time \/ end_time
    BY <2>3 DEF start_time, end_time, vars, read_vars
  <2>4. CASE line_read
    BY <1>1, <2>4 DEF line_read
  <2>5. CASE prompt \/ echo \/ print \/ result
    <3>1. \E text : write(text)
      BY <2>5 DEF prompt, echo, print, result
    <3> QED BY <1>1, <3>1
  <2> HIDE DEF Kept3, Starts, Keys3
  <2> QED BY <1>4, <2>1, <2>2, <2>3, <2>4, <2>5 DEF ProgramsNext
<1>5. UNCHANGED vars => Kept3
  BY DEF vars, read_vars
<1> HIDE DEF Kept3, Starts, Keys3
<1>6. pc' # "reading" \/ Kept3 \/ Starts \/ Keys3
  <2>1. CASE part = "any program" /\ Next
    BY <1>3, <2>1
  <2>2. CASE part = "lab3" /\ ProgramsNext
    BY <1>4, <2>2
  <2>3. CASE UNCHANGED vars
    BY <1>5, <2>3
  <2>4. \/ part = "any program" /\ Next
        \/ part = "lab3" /\ ProgramsNext
        \/ UNCHANGED vars
    BY DEF AllStep, AllNext
  <2> QED BY <2>1, <2>2, <2>3, <2>4
<1>7. part' = part
  BY DEF AllStep, AllNext
<1> QED BY <1>6, <1>7 DEF Kept3, Starts, Keys3

\* Only the programs' read puts them where a line is read.
LEMMA BlockStep ==
    ASSUME ReadingInv, part = "lab3", ProgramsNext
    PROVE  /\ block' \in [Index -> Nat]
           /\ pc' = "reading" => count' = BLOCK_SIZE
<1>1. block \in [Index -> Nat] /\ (pc = "reading" => OpenLine /\ count = BLOCK_SIZE)
  BY Zenon DEF ReadingInv
<1>2. CASE Kernel
  <2>1. block' = block
    BY <1>2, Zenon DEF Kernel, program_vars
  <2>2. CASE Count \/ Irq \/ putc \/ \E c \in LineKeys : getc(c)
    <3>1. pc' = pc /\ count' = count
      <4>1. CASE Count \/ Irq
        BY <4>1 DEF Count, Irq, read_vars
      <4>2. CASE putc \/ \E c \in LineKeys : getc(c)
        BY <4>2 DEF putc, getc
      <4> QED BY <2>2, <4>1, <4>2
    <3> QED BY <1>1, <2>1, <3>1
  <2>3. CASE \/ Install_Handler("swi", "kmain", "swi installed")
             \/ Install_Handler("irq", "swi installed", "irq installed")
             \/ initTimer \/ Call_UserApp \/ WriteReturn
    <3>1. pc' # "reading"
      BY <2>3 DEF Install_Handler, initTimer, Call_UserApp, WriteReturn
    <3> QED BY <1>1, <2>1, <3>1
  <2> QED BY <1>2, <2>2, <2>3 DEF Kernel
<1>3. CASE prompt
  BY <1>1, <1>3 DEF prompt, write, Cleared
<1>4. CASE start_time \/ end_time
  BY <1>1, <1>4 DEF start_time, end_time, vars, read_vars
<1>5. CASE read_line
  BY <1>1, <1>5 DEF read_line, read
<1>6. CASE line_read
  <2>1. pc = "reading" /\ pc' = "user" /\ block' = line.buf
    BY <1>6 DEF line_read, ReadReturn
  <2>2. count = BLOCK_SIZE /\ line \in Line(count) /\ BLOCK_SIZE \in Nat
    BY <1>1, <2>1, BlockAssumption DEF OpenLine
  <2>3. line.buf \in [Index -> Nat]
    BY <2>2, LineFields DEF Index
  <2> QED BY <2>1, <2>3
<1>7. CASE echo \/ print \/ result
  BY <1>1, <1>7 DEF echo, print, result, write
<1> QED BY <1>2, <1>3, <1>4, <1>5, <1>6, <1>7 DEF ProgramsNext

LEMMA StepReading ==
    ASSUME ReadingInv, AllStep
    PROVE  ReadingInv'
<1>1. part' = part
  BY ProjectRead
<1>2. pc' = "reading" => OpenLine'
  <2> SUFFICES ASSUME pc' = "reading" PROVE OpenLine'
    OBVIOUS
  <2>1. CASE UNCHANGED <<pc, count, line, typed>>
    BY <2>1 DEF ReadingInv, OpenLine
  <2>2. CASE \E n \in Nat : \E old \in [0..(n - 1) -> Nat] :
                count' = n /\ line' = NewLine(old) /\ typed' = <<>>
    BY <2>2, LineOpens
  <2>3. CASE \E c \in Nat : getc(c)
    <3>1. PICK c \in Nat : getc(c)
      BY <2>3
    <3>2. OpenLine
      BY <3>1 DEF ReadingInv, getc
    <3> QED BY <3>1, <3>2, LineGoesOn
  <2> QED BY <2>1, <2>2, <2>3, ProjectRead
<1>3. part = "lab3" => /\ block' \in [Index -> Nat]
                       /\ pc' = "reading" => count' = BLOCK_SIZE
  <2> SUFFICES ASSUME part = "lab3"
               PROVE  block' \in [Index -> Nat] /\ (pc' = "reading" => count' = BLOCK_SIZE)
    OBVIOUS
  <2>1. CASE ProgramsNext
    BY <2>1, BlockStep
  <2>2. CASE UNCHANGED <<vars, program_vars>>
    BY <2>2 DEF ReadingInv, vars, read_vars, program_vars
  <2> QED BY <2>1, <2>2 DEF AllStep, AllNext
<1> QED BY <1>1, <1>2, <1>3 DEF ReadingInv, Index

\* A screen in step shows the line.
LEMMA InStepShows ==
    ASSUME NEW n \in Nat, NEW ln \in Line(n), InStep(ln.screen, ln.buf, ln.length)
    PROVE  Shows(ln.screen, [i \in 1..ln.length |-> ln.buf[i - 1]])
<1> DEFINE m == ln.length
           text == [i \in 1..m |-> ln.buf[i - 1]]
<1>1. /\ m \in Nat /\ ln.screen.row \in Seq(Nat) /\ ln.screen.col = m
      /\ m <= Len(ln.screen.row) /\ Len(ln.screen.row) \in Nat
      /\ \A i \in 1..m : ln.screen.row[i] = ln.buf[i - 1]
      /\ \A i \in (m + 1)..Len(ln.screen.row) : ln.screen.row[i] = 32
  BY LineFields DEF InStep, Screen
<1> HIDE DEF m
<1>2. Len(text) = m
  BY <1>1
<1>3. SubSeq(ln.screen.row, 1, m) = text
  BY <1>1
<1> HIDE DEF text
<1>4. Shows(ln.screen, text)
  BY <1>1, <1>2, <1>3 DEF Shows
<1> QED BY <1>4 DEF text, m

-----------------------------------------------------------------------------
(* What the programs of lab3 tell.                                         *)

\* write stops behind the last character before the NULs.
LEMMA WrittenUpToNul ==
    ASSUME NEW n \in Nat, NEW b, NEW m \in 0..n,
           \A i \in 0..(m - 1) : b[i] # 0, \A i \in m..(n - 1) : b[i] = 0
    PROVE  Written([k \in 1..n |-> b[k - 1]], n) = [i \in 1..m |-> b[i - 1]]
<1> DEFINE text == [k \in 1..n |-> b[k - 1]]
           nul  == {i \in 1..n : text[i] = 0}
           low  == CHOOSE i \in nul : \A j \in nul : i <= j
           upto == IF nul = {} THEN n ELSE low - 1
<1>1. nul = (m + 1)..n
  <2>1. \A i \in 1..n : text[i] = 0 <=> i > m
    <3> SUFFICES ASSUME NEW i \in 1..n PROVE b[i - 1] = 0 <=> i > m
      OBVIOUS
    <3>1. CASE i > m
      <4>1. i - 1 \in m..(n - 1)
        BY <3>1
      <4> QED BY <3>1, <4>1
    <3>2. CASE i <= m
      <4>1. i - 1 \in 0..(m - 1)
        BY <3>2
      <4> QED BY <3>2, <4>1
    <3> QED BY <3>1, <3>2
  <2> HIDE DEF text
  <2> QED BY <2>1
<1> HIDE DEF nul
<1>2. upto = m
  <2>1. CASE m = n
    BY <1>1, <2>1
  <2>2. CASE m # n
    <3>1. m + 1 \in nul /\ \A j \in nul : m + 1 <= j
      BY <1>1, <2>2
    <3>2. \A i \in nul : (\A j \in nul : i <= j) => i = m + 1
      BY <1>1, <3>1
    <3>3. low = m + 1
      BY <3>1, <3>2
    <3>4. nul # {}
      BY <3>1
    <3> HIDE DEF low, nul
    <3> QED BY <3>3, <3>4
  <2> QED BY <2>1, <2>2
<1>3. Written(text, n) = SubSeq(text, 1, upto)
  BY DEF Written, nul
<1>4. SubSeq(text, 1, m) = [i \in 1..m |-> b[i - 1]]
  OBVIOUS
<1> QED BY <1>2, <1>3, <1>4

\* Only what types is in the buffer: a NUL never is.
LEMMA TypedCharacters ==
    ASSUME NEW b, NEW m \in Nat, NEW keys \in Seq(Nat), AsTyped(b, m, keys)
    PROVE  \A i \in 0..(m - 1) : Types(b[i]) /\ b[i] # 0
<1>1. PICK pos : Placed(pos, b, m, keys)
  BY DEF AsTyped
<1> SUFFICES ASSUME NEW i \in 0..(m - 1) PROVE Types(b[i]) /\ b[i] # 0
  OBVIOUS
<1>2. i + 1 \in 1..m /\ (i + 1) - 1 = i
  OBVIOUS
<1>3. pos[i + 1] \in 1..Len(keys) /\ b[i] = keys[pos[i + 1]]
  BY <1>1, <1>2 DEF Placed
<1>4. pos[i + 1] \in Staying(keys)
  BY <1>1, <1>2, <1>3 DEF Placed
<1>5. Types(b[i]) /\ b[i] \in Nat
  BY <1>3, <1>4 DEF Staying
<1> QED BY <1>5 DEF Types, Regular, EndsLine

(* The digits of a number.  Decimal is a recursive function on Nat: a      *)
(* solution of the recursion up to any number is built step by step        *)
(* (SomeDigits), and two of them agree (SameDigits).                       *)

\* A set of natural numbers that is not empty has a least element.
LEMMA LeastNumber ==
    ASSUME NEW S, S \subseteq Nat, S # {}
    PROVE  \E n \in S : \A m \in S : n <= m
<1>1. PICK n \in S : \A m \in S : ~(<<m, n>> \in OpToRel(<, Nat))
  BY WFMin, NatLessThanWellFounded
<1>2. ASSUME NEW m \in S PROVE n <= m
  <2>1. m \in Nat /\ n \in Nat
    OBVIOUS
  <2>2. ~(m < n)
    BY <1>1, <2>1 DEF OpToRel
  <2> QED BY <2>1, <2>2
<1> QED BY <1>2

\* The last digit of a number, and what is before it.
LEMMA LastDigit ==
    ASSUME NEW n \in Nat
    PROVE  /\ n \div 10 \in Nat /\ n % 10 \in 0..9 /\ n = 10 * (n \div 10) + (n % 10)
           /\ n >= 10 => n \div 10 < n
OBVIOUS

Digits == 48..57

\* The digits f gives for n follow from those it gives for n \div 10.
PrintsNext(f, n) ==
    f[n] = IF n < 10 THEN <<48 + n>> ELSE Append(f[n \div 10], 48 + (n % 10))
PrintsTo(f, N) == f \in [0..N -> Seq(Digits)] /\ \A n \in 0..N : PrintsNext(f, n)

LEMMA SomeDigits == \A N \in Nat : \E f : PrintsTo(f, N)
<1> DEFINE D == {N \in Nat : ~ \E f : PrintsTo(f, N)}
<1>1. SUFFICES ASSUME D # {} PROVE FALSE
  OBVIOUS
<1>2. PICK N \in D : \A m \in D : N <= m
  <2>1. D \subseteq Nat
    OBVIOUS
  <2> HIDE DEF D
  <2> QED BY <1>1, <2>1, LeastNumber
<1>3. N \in Nat /\ ~ \E f : PrintsTo(f, N)
  OBVIOUS
<1>4. PICK h : h \in [0..(N - 1) -> Seq(Digits)] /\ \A n \in 0..(N - 1) : PrintsNext(h, n)
  <2>1. CASE N = 0
    <3> DEFINE e == [n \in 0..(N - 1) |-> <<>>]
    <3>1. e \in [0..(N - 1) -> Seq(Digits)] /\ \A n \in 0..(N - 1) : PrintsNext(e, n)
      BY <2>1
    <3> QED BY <3>1
  <2>2. CASE N # 0
    <3>1. N - 1 \in Nat /\ N - 1 \notin D
      BY <1>2, <1>3, <2>2
    <3>2. \E f : PrintsTo(f, N - 1)
      BY <3>1
    <3> HIDE DEF D
    <3> QED BY <3>2 DEF PrintsTo
  <2> QED BY <2>1, <2>2
<1> HIDE DEF D
<1> DEFINE last == IF N < 10 THEN <<48 + N>> ELSE Append(h[N \div 10], 48 + (N % 10))
           f == [n \in 0..N |-> IF n = N THEN last ELSE h[n]]
<1>5. last \in Seq(Digits)
  <2>1. CASE N < 10
    <3>1. 48 + N \in Digits
      BY <1>3, <2>1 DEF Digits
    <3> QED BY <2>1, <3>1
  <2>2. CASE N >= 10
    <3>1. N \div 10 \in 0..(N - 1) /\ N % 10 \in 0..9
      BY <1>3, <2>2, LastDigit
    <3>2. h[N \div 10] \in Seq(Digits) /\ 48 + (N % 10) \in Digits
      BY <1>4, <3>1 DEF Digits
    <3>3. last = Append(h[N \div 10], 48 + (N % 10))
      BY <1>3, <2>2
    <3> HIDE DEF last
    <3> QED BY <3>2, <3>3
  <2> QED BY <1>3, <2>1, <2>2
<1> HIDE DEF last
<1>6. \A n \in 0..N : n # N => n \in 0..(N - 1)
  BY <1>3
<1>7. f \in [0..N -> Seq(Digits)]
  BY <1>4, <1>5, <1>6
<1>8. ASSUME NEW n \in 0..N PROVE PrintsNext(f, n)
  <2>1. n >= 10 => n \div 10 \in 0..(N - 1) /\ n \div 10 # N /\ n \div 10 \in 0..N
    BY <1>3, LastDigit
  <2>2. n >= 10 => f[n \div 10] = h[n \div 10]
    BY <2>1
  <2>3. CASE n = N
    <3>1. f[n] = last
      BY <2>3
    <3> HIDE DEF f
    <3> QED BY <1>3, <2>2, <2>3, <3>1 DEF last, PrintsNext
  <2>4. CASE n # N
    <3>1. f[n] = h[n] /\ PrintsNext(h, n)
      BY <1>4, <1>6, <2>4
    <3> HIDE DEF f
    <3> QED BY <1>3, <2>2, <3>1 DEF PrintsNext
  <2> QED BY <2>3, <2>4
<1>9. PrintsTo(f, N)
  <2> HIDE DEF f
  <2> QED BY <1>7, <1>8 DEF PrintsTo
<1> QED BY <1>3, <1>9

LEMMA SameDigits ==
    ASSUME NEW M \in Nat, NEW N \in Nat, M <= N, NEW f, NEW g, PrintsTo(f, M), PrintsTo(g, N)
    PROVE  \A n \in 0..M : f[n] = g[n]
<1> DEFINE D == {n \in 0..M : f[n] # g[n]}
<1>1. SUFFICES ASSUME D # {} PROVE FALSE
  OBVIOUS
<1>2. PICK n \in D : \A m \in D : n <= m
  <2>1. D \subseteq Nat
    OBVIOUS
  <2> HIDE DEF D
  <2> QED BY <1>1, <2>1, LeastNumber
<1>3. n \in 0..M /\ n \in 0..N /\ n \in Nat /\ f[n] # g[n]
  OBVIOUS
<1>4. n >= 10 => f[n \div 10] = g[n \div 10]
  <2>1. n >= 10 => n \div 10 \in 0..M /\ ~(n <= n \div 10)
    BY <1>3, LastDigit
  <2> QED BY <1>2, <2>1
<1>5. PrintsNext(f, n) /\ PrintsNext(g, n)
  BY <1>3 DEF PrintsTo
<1> HIDE DEF D
<1> QED BY <1>3, <1>4, <1>5 DEF PrintsNext

LEMMA DecimalPrints == \A n \in Nat : PrintsNext(Decimal, n)
<1> DEFINE upto(n) == CHOOSE f : PrintsTo(f, n)
           F == [n \in Nat |-> upto(n)[n]]
           next(f, n) == IF n < 10 THEN <<48 + n>> ELSE Append(f[n \div 10], 48 + (n % 10))
<1>1. \A n \in Nat : PrintsTo(upto(n), n)
  BY SomeDigits
<1> HIDE DEF upto
<1>2. ASSUME NEW n \in Nat PROVE F[n] = next(F, n)
  <2>1. PrintsNext(upto(n), n)
    BY <1>1 DEF PrintsTo
  <2>2. n >= 10 => F[n \div 10] = upto(n)[n \div 10]
    <3> SUFFICES ASSUME n >= 10 PROVE F[n \div 10] = upto(n)[n \div 10]
      OBVIOUS
    <3> DEFINE m == n \div 10
    <3>1. m \in Nat /\ m <= n /\ m \in 0..m
      BY LastDigit
    <3> HIDE DEF m
    <3>2. upto(m)[m] = upto(n)[m]
      BY <1>1, <3>1, SameDigits
    <3>3. F[m] = upto(m)[m]
      BY <3>1
    <3> QED BY <3>2, <3>3 DEF m
  <2>3. F[n] = upto(n)[n]
    OBVIOUS
  <2> HIDE DEF F
  <2> QED BY <2>1, <2>2, <2>3 DEF PrintsNext
<1>3. F = [n \in Nat |-> next(F, n)]
  <2>1. F = [n \in Nat |-> F[n]]
    OBVIOUS
  <2> HIDE DEF F, next
  <2> QED BY <1>2, <2>1
<1> HIDE DEF F
<1>4. Decimal = [n \in Nat |-> next(Decimal, n)]
  BY <1>3 DEF Decimal
<1> HIDE DEF next
<1>5. \A n \in Nat : Decimal[n] = next(Decimal, n)
  BY <1>4
<1> QED BY <1>5 DEF next, PrintsNext

\* The digits and nothing else, and at least one.
LEMMA DecimalDigits == \A n \in Nat : Decimal[n] \in Seq(Digits) /\ Decimal[n] # <<>>
<1> DEFINE D == {n \in Nat : ~(Decimal[n] \in Seq(Digits) /\ Decimal[n] # <<>>)}
<1>1. SUFFICES ASSUME D # {} PROVE FALSE
  OBVIOUS
<1>2. PICK n \in D : \A m \in D : n <= m
  <2>1. D \subseteq Nat
    OBVIOUS
  <2> HIDE DEF D
  <2> QED BY <1>1, <2>1, LeastNumber
<1>3. n \in Nat /\ ~(Decimal[n] \in Seq(Digits) /\ Decimal[n] # <<>>)
  OBVIOUS
<1>4. Decimal[n] = IF n < 10 THEN <<48 + n>> ELSE Append(Decimal[n \div 10], 48 + (n % 10))
  BY <1>3, DecimalPrints DEF PrintsNext
<1>5. CASE n < 10
  <2>1. 48 + n \in Digits /\ Decimal[n] = <<48 + n>>
    BY <1>3, <1>4, <1>5 DEF Digits
  <2> HIDE DEF D
  <2>2. Decimal[n] \in Seq(Digits) /\ Decimal[n] # <<>>
    BY <2>1
  <2> QED BY <1>3, <2>2
<1>6. CASE n >= 10
  <2>1. n \div 10 \in Nat /\ ~(n <= n \div 10) /\ n % 10 \in 0..9
    BY <1>3, <1>6, LastDigit
  <2>2. Decimal[n \div 10] \in Seq(Digits)
    BY <1>2, <2>1
  <2>3. 48 + (n % 10) \in Digits
    BY <2>1 DEF Digits
  <2>4. Decimal[n] = Append(Decimal[n \div 10], 48 + (n % 10))
    BY <1>3, <1>4, <1>6
  <2> HIDE DEF D
  <2> DEFINE s == Decimal[n \div 10]
             c == 48 + (n % 10)
  <2>5. s \in Seq(Digits) /\ c \in Digits /\ Decimal[n] = Append(s, c)
    BY <2>2, <2>3, <2>4
  <2> HIDE DEF s, c
  <2>6. Decimal[n] \in Seq(Digits) /\ Decimal[n] # <<>>
    BY <2>5
  <2> QED BY <1>3, <2>6
<1> QED BY <1>3, <1>5, <1>6

-----------------------------------------------------------------------------
\* v reads the digits of s from the left.
ReadsOn(v, s, k) == v[k] = IF k = 0 THEN 0 ELSE 10 * v[k - 1] + (s[k] - 48)
Reads(v, s) == v \in [0..Len(s) -> Nat] /\ \A k \in 0..Len(s) : ReadsOn(v, s, k)

LEMMA ReadsOnce ==
    ASSUME NEW s, Len(s) \in Nat, NEW v, Reads(v, s)
    PROVE  ReadsAs(s) = v[Len(s)]
<1> DEFINE next(w, k) == IF k = 0 THEN 0 ELSE 10 * w[k - 1] + (s[k] - 48)
           w == CHOOSE x : x = [k \in 0..Len(s) |-> next(x, k)]
<1>1. v = [k \in 0..Len(s) |-> next(v, k)]
  <2>1. v = [k \in 0..Len(s) |-> v[k]] /\ \A k \in 0..Len(s) : v[k] = next(v, k)
    BY DEF Reads, ReadsOn
  <2> HIDE DEF next
  <2> QED BY <2>1
<1>2. w = [k \in 0..Len(s) |-> next(w, k)]
  BY <1>1
<1>3. ReadsAs(s) = w[Len(s)]
  BY DEF ReadsAs
<1> HIDE DEF w, next
<1>4. \A k \in 0..Len(s) : w[k] = next(w, k) /\ v[k] = next(v, k)
  BY <1>1, <1>2
<1> DEFINE D == {k \in 0..Len(s) : w[k] # v[k]}
<1>5. ASSUME D # {} PROVE FALSE
  <2>1. PICK k \in D : \A m \in D : k <= m
    <3>1. D \subseteq Nat
      OBVIOUS
    <3> HIDE DEF D
    <3> QED BY <1>5, <3>1, LeastNumber
  <2>2. k \in 0..Len(s) /\ w[k] # v[k]
    OBVIOUS
  <2>3. k # 0 => w[k - 1] = v[k - 1]
    <3>1. k # 0 => k - 1 \in 0..Len(s) /\ ~(k <= k - 1)
      BY <2>2
    <3> QED BY <2>1, <3>1
  <2> HIDE DEF D
  <2> QED BY <1>4, <2>2, <2>3 DEF next
<1>6. w[Len(s)] = v[Len(s)]
  <2>1. Len(s) \in 0..Len(s)
    OBVIOUS
  <2> QED BY <1>5, <2>1
<1> QED BY <1>3, <1>6

\* What is printed of a number reads as that number.
LEMMA DecimalReads == \A n \in Nat : ReadsAs(Decimal[n]) = n
<1> DEFINE D == {n \in Nat : ~ \E v : Reads(v, Decimal[n]) /\ v[Len(Decimal[n])] = n}
<1>1. ASSUME D # {} PROVE FALSE
  <2>1. PICK n \in D : \A m \in D : n <= m
    <3>1. D \subseteq Nat
      OBVIOUS
    <3> HIDE DEF D
    <3> QED BY <1>1, <3>1, LeastNumber
  <2>2. n \in Nat /\ ~ \E v : Reads(v, Decimal[n]) /\ v[Len(Decimal[n])] = n
    OBVIOUS
  <2>3. Decimal[n] = IF n < 10 THEN <<48 + n>> ELSE Append(Decimal[n \div 10], 48 + (n % 10))
    BY <2>2, DecimalPrints DEF PrintsNext
  <2>4. CASE n < 10
    <3> DEFINE s == <<48 + n>>
               v == [k \in 0..1 |-> IF k = 0 THEN 0 ELSE n]
    <3>1. Decimal[n] = s
      BY <2>2, <2>3, <2>4
    <3>2. Len(s) = 1 /\ s[1] = 48 + n
      BY <2>2
    <3>3. v \in [0..1 -> Nat] /\ v[0] = 0 /\ v[1] = n
      BY <2>2
    <3> HIDE DEF s, v, D
    <3>4. \A k \in 0..1 : ReadsOn(v, s, k)
      <4>1. ReadsOn(v, s, 0)
        BY <3>3 DEF ReadsOn
      <4>2. ReadsOn(v, s, 1)
        BY <2>2, <3>2, <3>3 DEF ReadsOn
      <4>3. \A k \in 0..1 : k = 0 \/ k = 1
        OBVIOUS
      <4> QED BY <4>1, <4>2, <4>3
    <3> QED BY <2>2, <3>1, <3>2, <3>3, <3>4 DEF Reads
  <2>5. CASE n >= 10
    <3> DEFINE m == n \div 10
               s == Decimal[m]
               d == n % 10
               r == Append(s, 48 + d)
               l == Len(s)
    <3>1. m \in Nat /\ ~(n <= m) /\ d \in 0..9 /\ n = 10 * m + d
      BY <2>2, <2>5, LastDigit
    <3>2. Decimal[n] = r
      BY <2>2, <2>3, <2>5
    <3> HIDE DEF m, d
    <3>3. \E u : Reads(u, s) /\ u[l] = m
      BY <2>1, <3>1
    <3>4. s \in Seq(Digits)
      BY <3>1, DecimalDigits
    <3> HIDE DEF D, s
    <3>5. PICK u : Reads(u, s) /\ u[l] = m
      BY <3>3
    <3>6. l \in Nat /\ Len(r) = l + 1 /\ r[l + 1] = 48 + d /\ \A k \in 1..l : r[k] = s[k]
      BY <3>4
    <3> HIDE DEF r, l
    <3> DEFINE v == [k \in 0..(l + 1) |-> IF k = l + 1 THEN n ELSE u[k]]
    <3>7. \A k \in 0..(l + 1) : k # l + 1 => k \in 0..l
      BY <3>6
    <3>8. u \in [0..l -> Nat] /\ \A k \in 0..l : ReadsOn(u, s, k)
      BY <3>5 DEF Reads, l
    <3>9. v \in [0..(l + 1) -> Nat] /\ v[l + 1] = n
      BY <2>2, <3>6, <3>7, <3>8
    <3>10. \A k \in 0..l : v[k] = u[k]
      BY <3>6
    <3> HIDE DEF v
    <3>11. ASSUME NEW k \in 0..(l + 1) PROVE ReadsOn(v, r, k)
      <4>1. CASE k = l + 1
        <5>1. v[l + 1] = 10 * v[l] + (r[l + 1] - 48)
          BY <3>1, <3>5, <3>6, <3>9, <3>10
        <5> QED BY <3>6, <4>1, <5>1 DEF ReadsOn
      <4>2. CASE k # l + 1
        <5>1. k \in 0..l /\ v[k] = u[k] /\ (k # 0 => v[k - 1] = u[k - 1] /\ r[k] = s[k])
          BY <3>6, <3>7, <3>10, <4>2
        <5>2. ReadsOn(u, s, k)
          BY <3>8, <5>1
        <5> QED BY <5>1, <5>2 DEF ReadsOn
      <4> QED BY <4>1, <4>2
    <3> QED BY <2>2, <3>2, <3>6, <3>9, <3>11 DEF Reads
  <2> QED BY <2>2, <2>4, <2>5
<1>2. ASSUME NEW n \in Nat PROVE ReadsAs(Decimal[n]) = n
  <2>1. PICK v : Reads(v, Decimal[n]) /\ v[Len(Decimal[n])] = n
    BY <1>1
  <2>2. Len(Decimal[n]) \in Nat
    BY DecimalDigits
  <2> QED BY <2>1, <2>2, ReadsOnce
<1> QED BY <1>2

\* The text of the time, read back, is the milliseconds cut to tenths.
LEMMA SecondsTold ==
    ASSUME NEW ms \in Nat
    PROVE  Tells(Written(SecondsText(ms), Len(SecondsText(ms))), ms)
<1> DEFINE x == ms \div 1000
           y == ms \div 100
           d == y - x * 10
           s == Decimal[x]
           l == Len(s)
           text == <<10>> \o s \o <<46>> \o <<48 + d>> \o <<115, 10>>
<1>1. x \in Nat /\ y \in Nat /\ 1000 * x <= ms /\ ms < 1000 * x + 1000
      /\ 100 * y <= ms /\ ms < 100 * y + 100
  OBVIOUS
<1>2. CDiv(ms, 1000) = x /\ CDiv(ms, 100) = y
  BY DEF CDiv
<1> HIDE DEF x, y
<1>3. d \in 0..9
  BY <1>1
<1>4. x * 1000 + d * 100 <= ms /\ ms < x * 1000 + d * 100 + 100
  BY <1>1
<1>5. Signed(x) = s /\ Signed(d) = <<48 + d>>
  <2>1. \A n \in Nat : Signed(n) = Decimal[n]
    BY DEF Signed
  <2>2. ASSUME NEW n \in 0..9 PROVE Decimal[n] = <<48 + n>>
    <3>1. PrintsNext(Decimal, n)
      BY DecimalPrints
    <3>2. n < 10
      OBVIOUS
    <3> QED BY <3>1, <3>2 DEF PrintsNext
  <2>3. Signed(x) = Decimal[x]
    BY <1>1, <2>1
  <2>4. Signed(d) = Decimal[d]
    <3> HIDE DEF d
    <3>1. d \in Nat
      BY <1>3
    <3> QED BY <2>1, <3>1
  <2>5. Decimal[d] = <<48 + d>>
    <3> HIDE DEF d
    <3> QED BY <1>3, <2>2
  <2> QED BY <2>3, <2>4, <2>5
<1>6. SecondsText(ms) = text
  <2>1. SecondsText(ms) = <<10>> \o Signed(x) \o <<46>> \o Signed(d) \o <<115, 10>>
    BY <1>2 DEF SecondsText
  <2> HIDE DEF d, s
  <2> QED BY <1>5, <2>1 DEF text
<1>7. s \in Seq(Digits) /\ s # <<>> /\ ReadsAs(s) = x
  BY <1>1, DecimalDigits, DecimalReads
<1> HIDE DEF d, s
<1>8. l \in Nat /\ l >= 1 /\ \A k \in 1..l : s[k] \in 48..57
  BY <1>7 DEF Digits
<1>9. /\ text \in Seq(Nat) /\ Len(text) = l + 5
      /\ text[1] = 10 /\ \A k \in 2..(l + 1) : text[k] = s[k - 1]
      /\ text[l + 2] = 46 /\ text[l + 3] = 48 + d
      /\ text[l + 4] = 115 /\ text[l + 5] = 10
  <2> DEFINE c == 48 + d
  <2>1. c \in Nat /\ s \in Seq(Nat)
    BY <1>3, <1>7 DEF Digits
  <2> HIDE DEF c
  <2>2. Len(s) = l
    BY DEF l
  <2> HIDE DEF l
  <2> DEFINE t1 == <<10>> \o s
             t2 == t1 \o <<46>>
             t3 == t2 \o <<c>>
             t4 == t3 \o <<115, 10>>
  <2>3. /\ t1 \in Seq(Nat) /\ Len(t1) = l + 1 /\ t1[1] = 10
        /\ \A k \in 2..(l + 1) : t1[k] = s[k - 1]
    BY <1>8, <2>1, <2>2
  <2> HIDE DEF t1
  <2>4. /\ t2 \in Seq(Nat) /\ Len(t2) = l + 2 /\ t2[l + 2] = 46
        /\ \A k \in 1..(l + 1) : t2[k] = t1[k]
    BY <1>8, <2>3
  <2> HIDE DEF t2
  <2>5. /\ t3 \in Seq(Nat) /\ Len(t3) = l + 3 /\ t3[l + 3] = c
        /\ \A k \in 1..(l + 2) : t3[k] = t2[k]
    BY <1>8, <2>1, <2>4
  <2> HIDE DEF t3
  <2>6. /\ t4 \in Seq(Nat) /\ Len(t4) = l + 5 /\ t4[l + 4] = 115 /\ t4[l + 5] = 10
        /\ \A k \in 1..(l + 3) : t4[k] = t3[k]
    BY <1>8, <2>5
  <2>7. text = t4
    BY DEF text, t4, t3, t2, t1, c
  <2> HIDE DEF t4, text
  <2>8. \A k \in 2..(l + 1) : t4[k] = s[k - 1]
    <3> SUFFICES ASSUME NEW k \in 2..(l + 1) PROVE t4[k] = s[k - 1]
      OBVIOUS
    <3>1. k \in 1..(l + 1) /\ k \in 1..(l + 2) /\ k \in 1..(l + 3)
      BY <1>8
    <3>2. t4[k] = t3[k]
      BY <2>6, <3>1
    <3>3. t3[k] = t2[k]
      BY <2>5, <3>1
    <3>4. t2[k] = t1[k]
      BY <2>4, <3>1
    <3>5. t1[k] = s[k - 1]
      BY <2>3
    <3> QED BY <3>2, <3>3, <3>4, <3>5
  <2>9. /\ t4[1] = 10 /\ t4[l + 2] = 46 /\ t4[l + 3] = c
    <3>1. 1 \in 1..(l + 1) /\ 1 \in 1..(l + 2) /\ 1 \in 1..(l + 3)
          /\ l + 2 \in 1..(l + 2) /\ l + 2 \in 1..(l + 3) /\ l + 3 \in 1..(l + 3)
      BY <1>8
    <3>2. t4[1] = t3[1] /\ t4[l + 2] = t3[l + 2] /\ t4[l + 3] = t3[l + 3]
      BY <2>6, <3>1
    <3>3. t3[1] = t2[1] /\ t3[l + 2] = t2[l + 2]
      BY <2>5, <3>1
    <3>4. t2[1] = t1[1]
      BY <2>4, <3>1
    <3>5. t4[1] = 10
      BY <2>3, <3>2, <3>3, <3>4
    <3>6. t4[l + 2] = 46 /\ t4[l + 3] = c
      BY <2>4, <2>5, <3>2, <3>3
    <3> QED BY <3>5, <3>6
  <2> QED BY <2>6, <2>7, <2>8, <2>9 DEF c
<1> HIDE DEF text, l
<1>10. \A k \in 1..(l + 5) : text[k] # 0
  <2> SUFFICES ASSUME NEW k \in 1..(l + 5) PROVE text[k] # 0
    OBVIOUS
  <2>1. k = 1 \/ k \in 2..(l + 1) \/ k = l + 2 \/ k = l + 3 \/ k = l + 4 \/ k = l + 5
    BY <1>8
  <2>2. ASSUME k \in 2..(l + 1) PROVE text[k] # 0
    <3>1. k - 1 \in 1..l
      BY <1>8, <2>2
    <3>2. s[k - 1] \in 48..57
      BY <1>8, <3>1
    <3>3. text[k] = s[k - 1]
      BY <1>9, <2>2
    <3>4. \A c \in 48..57 : c # 0
      OBVIOUS
    <3> QED BY <3>2, <3>3, <3>4
  <2>3. 48 + d # 0
    BY <1>3
  <2>4. text[1] # 0 /\ text[l + 2] # 0 /\ text[l + 3] # 0 /\ text[l + 4] # 0
        /\ text[l + 5] # 0
    BY <1>9, <2>3
  <2> QED BY <2>1, <2>2, <2>4, Zenon
<1>11. Written(text, Len(text)) = text
  <2>1. {k \in 1..Len(text) : text[k] = 0} = {}
    BY <1>9, <1>10
  <2>2. Written(text, Len(text)) = SubSeq(text, 1, Len(text))
    BY <2>1 DEF Written
  <2> QED BY <1>9, <2>2
<1>12. SubSeq(text, 2, l + 1) = s
  <2> DEFINE q == SubSeq(text, 2, l + 1)
  <2>1. q \in Seq(Nat) /\ Len(q) = l /\ \A k \in 1..l : q[k] = text[k + 1]
    BY <1>8, <1>9
  <2>2. \A k \in 1..l : k + 1 \in 2..(l + 1) /\ (k + 1) - 1 = k
    BY <1>8
  <2>3. \A k \in 1..l : q[k] = s[k]
    BY <1>9, <2>1, <2>2
  <2>4. s \in Seq(Nat) /\ Len(s) = l
    BY <1>7 DEF Digits, l
  <2> HIDE DEF q
  <2> QED BY <2>1, <2>3, <2>4
<1>13. Tells(text, ms)
  <2>1. /\ Len(text) - 3 = l + 2 /\ (l + 2) - 1 = l + 1
        /\ (l + 2) + 1 = l + 3 /\ (l + 2) + 2 = l + 4 /\ (l + 2) + 3 = l + 5
    BY <1>8, <1>9
  <2>2. text[l + 3] \in 48..57 /\ text[l + 3] - 48 = d
    BY <1>3, <1>9
  <2>3. \A k \in 1..Len(s) : s[k] \in 48..57
    BY <1>8 DEF l
  <2> DEFINE point   == Len(text) - 3
             seconds == SubSeq(text, 2, point - 1)
             told    == ReadsAs(seconds) * 1000 + (text[point + 1] - 48) * 100
  <2>4. point = l + 2 /\ seconds = s
    BY <1>12, <2>1
  <2>5. /\ text[1] = 10 /\ text[point] = 46 /\ text[point + 2] = 115
        /\ text[point + 3] = 10 /\ text[point + 1] \in 48..57
    <3> HIDE DEF point
    <3> QED BY <1>9, <2>1, <2>2, <2>4
  <2>6. told <= ms /\ ms < told + 100
    <3>1. told = x * 1000 + d * 100
      <4> HIDE DEF point, seconds
      <4> QED BY <1>7, <2>1, <2>2, <2>4
    <3> HIDE DEF told
    <3> QED BY <1>4, <3>1
  <2>7. seconds # <<>> /\ \A k \in 1..Len(seconds) : seconds[k] \in 48..57
    <3> HIDE DEF seconds
    <3> QED BY <1>7, <2>3, <2>4
  <2>8. /\ text[1] = 10 /\ text[point] = 46 /\ text[point + 2] = 115 /\ text[point + 3] = 10
        /\ seconds # <<>> /\ \A k \in 1..Len(seconds) : seconds[k] \in 48..57
        /\ text[point + 1] \in 48..57
        /\ told <= ms /\ ms < told + 100
    <3> HIDE DEF point, seconds, told
    <3> QED BY <2>5, <2>6, <2>7
  <2> QED BY <2>8, SMTT(60) DEF Tells
<1> QED BY <1>6, <1>11, <1>13

\* Wherever the car stops, the score is the one for the row that is shown.
LEMMA ScoreFits == ASSUME NEW pos \in Int PROVE ScoreFitsRow(pos)
<1> DEFINE lo   == CarAt(pos)
           row  == Row(pos)
           car  == {i \in 0..39 : row[i] \in {35, 64, 68, 91}}
           free == row[32] = WALL /\ row[39] = WALL /\ Cardinality(car) = 4
<1>1. \A q \in 0..(pos - 1) : pos <= 14 => score(q) <= score(pos)
  BY DEF score
<1>2. /\ score(pos) >= 9 <=> pos \in {13, 14, 15}
      /\ score(pos) = 10 <=> pos = 14
  BY DEF score
<1>3. CASE pos <= 15
  <2>0. lo \in 0..35 /\ (lo = 34 <=> pos = 14) /\ (lo \in 33..35 <=> pos \in {13, 14, 15})
    BY <1>3 DEF CarAt
  <2>1. \A i \in 0..39 :
           row[i] = IF i \in lo..(lo + 3) THEN CAR[i + 1 - lo]
                    ELSE IF i \in {32, 39} THEN WALL ELSE DOT
    BY <1>3 DEF Row, InRow
  <2> HIDE DEF lo
  <2>2. \A i \in lo..(lo + 3) :
           i \in 0..39 /\ CAR[i + 1 - lo] \in {35, 68, 91}
    BY <2>0 DEF CAR
  <2> HIDE DEF row
  <2>3. car = lo..(lo + 3)
    <3>1. ASSUME NEW i \in 0..39
          PROVE  row[i] \in {35, 64, 68, 91} <=> i \in lo..(lo + 3)
      <4>1. CASE i \in lo..(lo + 3)
        <5>1. row[i] = CAR[i + 1 - lo]
          BY <2>1, <4>1
        <5>2. CAR[i + 1 - lo] \in {35, 68, 91}
          BY <2>2, <4>1
        <5> QED BY <4>1, <5>1, <5>2
      <4>2. CASE i \notin lo..(lo + 3)
        <5>1. row[i] = WALL \/ row[i] = DOT
          BY <2>1, <4>2
        <5> QED BY <4>2, <5>1 DEF WALL, DOT
      <4> QED BY <4>1, <4>2
    <3>2. lo..(lo + 3) \subseteq 0..39
      BY <2>2
    <3> QED BY <3>1, <3>2
  <2>4. Cardinality(car) = 4
    <3> DEFINE hi == lo + 3
    <3>1. lo \in Int /\ hi \in Int /\ hi = lo + 3 /\ car = lo..hi
      BY <2>0, <2>3
    <3> HIDE DEF hi, car
    <3>2. Cardinality(lo..hi) = IF lo > hi THEN 0 ELSE hi - lo + 1
      BY <3>1, FS_Interval
    <3> QED BY <3>1, <3>2
  <2>5. row[32] = WALL <=> 32 \notin lo..(lo + 3)
    BY <2>1, <2>2 DEF WALL
  <2>6. row[39] = WALL
    BY <2>0, <2>1 DEF WALL
  <2> HIDE DEF car
  <2>7. (free /\ \A i \in car : 32 < i) <=> pos \in {13, 14, 15}
    BY <2>0, <2>3, <2>4, <2>5, <2>6
  <2>8. car = 34..37 <=> pos = 14
    <3>1. ASSUME lo # 34 PROVE lo \in lo..(lo + 3) /\ (lo \notin 34..37 \/ 34 \notin lo..(lo + 3))
      BY <2>0, <3>1
    <3>2. 34 \in 34..37
      OBVIOUS
    <3>3. ASSUME lo = 34 PROVE lo..(lo + 3) = 34..37
      BY <3>3
    <3>4. ASSUME lo # 34 PROVE lo..(lo + 3) # 34..37
      BY <3>1, <3>2, <3>4, Zenon
    <3> QED BY <2>0, <2>3, <3>3, <3>4, Zenon
  <2> HIDE DEF free
  <2>9. /\ score(pos) >= 9 <=> free /\ \A i \in car : 32 < i
        /\ score(pos) = 10 <=> car = 34..37
        /\ \A q \in 0..(pos - 1) : pos <= 14 => score(q) <= score(pos)
    BY <1>1, <1>2, <2>7, <2>8
  <2> QED BY <2>9 DEF ScoreFitsRow, free, car, row
<1>4. CASE pos > 15
  <2>1. \A i \in 0..39 :
           row[i] = IF i \in 36..39 THEN <<91, 35, 64, 124>>[i - 35]
                    ELSE IF i = 32 THEN WALL ELSE DOT
    BY <1>4 DEF Row, Through
  <2>2. row[36] = 91 /\ row[37] = 35 /\ row[38] = 64 /\ row[39] = 124
    BY <2>1
  <2> HIDE DEF row
  <2>3. car = 36..38
    BY <2>1, <2>2 DEF WALL, DOT
  <2> HIDE DEF car
  <2>4. Cardinality(car) = 3
    <3> DEFINE first == 36
               last  == 38
    <3>1. first \in Int /\ last \in Int /\ last = first + 2 /\ car = first..last
      BY <2>3
    <3> HIDE DEF first, last
    <3>2. Cardinality(first..last) = IF first > last THEN 0 ELSE last - first + 1
      BY <3>1, FS_Interval
    <3> QED BY <3>1, <3>2
  <2>5. ~free /\ car # 34..37
    BY <2>3, <2>4
  <2> HIDE DEF free
  <2>6. /\ score(pos) >= 9 <=> free /\ \A i \in car : 32 < i
        /\ score(pos) = 10 <=> car = 34..37
        /\ \A q \in 0..(pos - 1) : pos <= 14 => score(q) <= score(pos)
    BY <1>1, <1>2, <1>4, <2>5
  <2> QED BY <2>6 DEF ScoreFitsRow, free, car, row
<1> QED BY <1>3, <1>4

\* Interrupts are unmasked in the program, in read and in sleep.
UnmaskedInv == pc \in {"user", "reading", "sleeping"} => unmasked

LEMMA StepUnmasked ==
    ASSUME UnmaskedInv, KernelStep
    PROVE  UnmaskedInv'
<1>1. CASE Count \/ Irq
  <2>1. pc' = pc /\ unmasked' = unmasked
    BY <1>1, Zenon DEF Count, Irq
  <2> QED BY <2>1, Zenon DEF UnmaskedInv
<1>2. CASE \E c : getc(c)
  <2>1. pc' = pc /\ unmasked' = unmasked
    BY <1>2, Zenon DEF getc
  <2> QED BY <2>1, Zenon DEF UnmaskedInv
<1>3. CASE \/ Call_UserApp \/ (\E b, n, old : read(b, n, old)) \/ ReadReturn \/ WriteReturn
           \/ (\E sleep_time \in 0..(WORD - 1) : sleep(sleep_time)) \/ SleepReturn
  <2>1. unmasked' = TRUE
    BY <1>3, Zenon DEF Call_UserApp, read, ReadReturn, WriteReturn, sleep, SleepReturn
  <2> QED BY <2>1, Zenon DEF UnmaskedInv
<1>4. CASE \/ Install_Handler("swi", "kmain", "swi installed")
           \/ Install_Handler("irq", "swi installed", "irq installed")
           \/ initTimer \/ exit \/ freeTimer \/ RestoreHandlers
           \/ (\E text : write(text)) \/ putc
  <2>1. pc' \notin {"user", "reading", "sleeping"}
    BY <1>4 DEF Install_Handler, initTimer, exit, freeTimer, RestoreHandlers, write, putc
  <2> QED BY <2>1, Zenon DEF UnmaskedInv
<1> QED BY <1>1, <1>2, <1>3, <1>4 DEF KernelStep

\* Where lab3's programs are, and where its kernel is meanwhile.
PlaceInv ==
    /\ at \in {"prompt", "time", "read", "reading", "elapsed", "echo", "print", "result"}
    /\ at \in {"read", "elapsed"} => pc = "user"
    /\ at = "reading" <=> pc = "reading"
    /\ at = "result" => prog # "typo"

\* The clock was read at some tick t0, in which took counts had gone by; while the line
\* is read nothing is masked, so what the clock had lost then is what it has lost now.
Stopwatch ==
    \E t0 \in Nat : /\ t0 <= ticks /\ t = AsInt(ClockAt(t0))
                    /\ 0 <= took - t0 * MATCH - Lost /\ took - t0 * MATCH - Lost <= MATCH

WatchInv ==
    /\ at \in {"read", "reading", "elapsed"} => took \in Nat /\ Stopwatch
    /\ at \in {"echo", "print", "result"} => t \in Int /\ TimeIsRight

\* From index m on the buffer holds NULs.
Clear(b, m) == \A i \in m..(BLOCK_SIZE - 1) : b[i] = 0

\* The buffer holds a line as it was typed and nothing of an earlier one.
Holds(b, keys) == \E m \in 0..BLOCK_SIZE : AsTyped(b, m, keys) /\ Clear(b, m)

BlockInv ==
    /\ at \in {"time", "read"} => Clear(block, 0)
    /\ at = "reading" => Clear(line.buf, line.length)
    /\ at \in {"elapsed", "echo"} => entered \in Seq(Nat) /\ Holds(block, entered)

\* What the line on its way to the terminal is.
Seconds == t >= 0 => Tells(line.buf, t)
IsLine(ln) ==
    ln = [buf |-> ln.buf, length |-> ln.length, screen |-> ln.screen, ended |-> ln.ended]
TextInv ==
    pc = "writing" =>
        /\ IsLine(line)
        /\ at = "print" => line.buf = Kept(entered)
        /\ at = "prompt" /\ prog = "typo" => Seconds

ProgramInv ==
    IF part = "lab3" THEN PlaceInv /\ WatchInv /\ BlockInv /\ TextInv ELSE at = "none"

\* The fraction of a tick that is in no count of the clock.
LEMMA ClockFraction ==
    ASSUME ClockInv, Started
    PROVE  /\ Lost \in Int /\ now \in Nat /\ ticks \in Nat /\ ticks * MATCH \in Nat
           /\ MATCH \in Nat \ {0}
           /\ 0 <= now - ticks * MATCH - Lost /\ now - ticks * MATCH - Lost <= MATCH
<1>1. /\ MATCH \in Nat \ {0} /\ ticks \in Nat /\ now \in Nat /\ oscr \in Nat
      /\ (ossr = TRUE \/ oscr < MATCH)
  BY MatchAssumption DEF ClockInv
<1>2. ticks * MATCH \in Nat
  BY <1>1
<1>3. CASE ossr = TRUE
  <2>1. Lost = now - ticks * MATCH - MATCH
    BY <1>3 DEF Lost
  <2> QED BY <1>1, <1>2, <2>1
<1>4. CASE ossr # TRUE
  <2>1. Lost = now - ticks * MATCH - oscr
    BY <1>4 DEF Lost
  <2>2. oscr < MATCH
    BY <1>1, <1>4
  <2> DEFINE full == ticks * MATCH
  <2>3. full \in Nat /\ Lost = now - full - oscr
    BY <1>2, <2>1
  <2> HIDE DEF full
  <2>4. Lost \in Int /\ now - full - Lost = oscr
    BY <1>1, <2>3
  <2> QED BY <1>1, <1>2, <2>2, <2>4 DEF full
<1> QED BY <1>3, <1>4

\* With interrupts unmasked nothing is lost.
LEMMA NothingLost ==
    ASSUME LineInv, ClockInv, Started, unmasked, Count \/ Irq
    PROVE  Lost' = Lost /\ ticks' >= ticks
<1>1. CASE Irq
  <2>1. Lost' = Lost
    BY <1>1, IrqClock
  <2>2. ticks' = ticks + 1 /\ ticks \in Nat
    BY <1>1, Zenon DEF Irq, ClockInv
  <2> QED BY <2>1, <2>2
<1>2. CASE Count
  <2>1. ossr = FALSE /\ ticks' = ticks
    BY <1>2, Zenon DEF Count, Pending, LineInv
  <2>2. /\ MATCH \in Nat \ {0} /\ ticks * MATCH \in Nat /\ ticks \in Nat /\ now \in Nat
        /\ oscr \in Nat /\ osmr = MATCH /\ now' = now + 1 /\ oscr' = oscr + 1
    <3>1. /\ MATCH \in Nat \ {0} /\ ticks \in Nat /\ now \in Nat /\ oscr \in Nat /\ osmr = MATCH
      BY MatchAssumption DEF ClockInv
    <3>2. now' = now + 1 /\ oscr' = oscr + 1
      BY <1>2, Zenon DEF Count
    <3> QED BY <3>1, <3>2
  <2>3. ossr' = TRUE \/ ossr' = FALSE
    BY <1>2, Zenon DEF Count
  <2>4. ossr' = TRUE => oscr + 1 = MATCH
    <3>1. ossr' = TRUE => oscr' = osmr
      BY <1>2, <2>1, Zenon DEF Count
    <3> QED BY <2>2, <3>1
  <2>5. Lost = now - ticks * MATCH - oscr
    BY <2>1 DEF Lost
  <2>6. Lost' = now + 1 - ticks * MATCH - (IF ossr' = TRUE THEN MATCH ELSE oscr + 1)
    BY <2>1, <2>2 DEF Lost
  <2> QED BY <2>1, <2>2, <2>4, <2>5, <2>6
<1> QED BY <1>1, <1>2

\* The kernel under a program: it goes on in the call it is in.
LEMMA KernelPlace ==
    ASSUME Kernel
    PROVE  /\ UNCHANGED program_vars
           /\ pc' = pc \/ (pc \notin {"user", "reading"} /\ pc' \notin {"reading", "writing"})
           /\ pc \in {"user", "reading"} => Count \/ Irq \/ (\E c \in LineKeys : getc(c))
<1>1. UNCHANGED program_vars
  BY Zenon DEF Kernel
<1>2. CASE Count \/ Irq \/ (\E c \in LineKeys : getc(c))
  <2>1. pc' = pc
    BY <1>2, Zenon DEF Count, Irq, getc
  <2> QED BY <1>1, <1>2, <2>1
<1>3. CASE putc
  BY <1>1, <1>3 DEF putc
<1>4. CASE \/ Install_Handler("swi", "kmain", "swi installed")
           \/ Install_Handler("irq", "swi installed", "irq installed")
           \/ initTimer \/ Call_UserApp \/ WriteReturn
  BY <1>1, <1>4 DEF Install_Handler, initTimer, Call_UserApp, WriteReturn
<1> QED BY <1>2, <1>3, <1>4 DEF Kernel

\* A key leaves what is behind the line clear.
LEMMA KeyClears ==
    ASSUME OpenLine, count = BLOCK_SIZE, NEW c \in Nat, getc(c), Clear(line.buf, line.length)
    PROVE  Clear(line'.buf, line'.length)
<1> DEFINE k == Keyed(line, c)
<1>1. line' = k /\ line.length < count /\ ~line.ended
  BY Zenon DEF getc, MoreToRead
<1>2. /\ count \in Nat /\ line \in Line(count) /\ InStep(line.screen, line.buf, line.length)
  BY <1>1, Zenon DEF OpenLine
<1>3. line.buf \in [0..(BLOCK_SIZE - 1) -> Nat] /\ line.length \in Nat /\ line.length \in 0..BLOCK_SIZE
      /\ BLOCK_SIZE \in Nat
  BY <1>2, LineFields
<1>4. \/ /\ k.length = line.length + 1
         /\ k.buf = [line.buf EXCEPT ![line.length] = c]
      \/ /\ line.length # 0 /\ k.length = line.length - 1
         /\ k.buf = [line.buf EXCEPT ![line.length - 1] = 0]
      \/ k.length = line.length /\ k.buf = line.buf
  BY <1>1, <1>2, KeyedLine
<1> HIDE DEF k
<1>5. \A i \in line.length..(BLOCK_SIZE - 1) : line.buf[i] = 0
  BY Zenon DEF Clear
<1>6. \A i \in k.length..(BLOCK_SIZE - 1) : k.buf[i] = 0
  <2> SUFFICES ASSUME NEW i \in k.length..(BLOCK_SIZE - 1) PROVE k.buf[i] = 0
    OBVIOUS
  <2>1. CASE k.length = line.length + 1 /\ k.buf = [line.buf EXCEPT ![line.length] = c]
    <3>1. i \in line.length..(BLOCK_SIZE - 1) /\ i # line.length /\ i \in 0..(BLOCK_SIZE - 1)
      BY <1>3, <2>1
    <3> QED BY <1>3, <1>5, <2>1, <3>1
  <2>2. CASE /\ line.length # 0 /\ k.length = line.length - 1
             /\ k.buf = [line.buf EXCEPT ![line.length - 1] = 0]
    <3>1. i \in 0..(BLOCK_SIZE - 1) /\ (i = line.length - 1 \/ i \in line.length..(BLOCK_SIZE - 1))
      BY <1>3, <2>2
    <3> QED BY <1>3, <1>5, <2>2, <3>1
  <2>3. CASE k.length = line.length /\ k.buf = line.buf
    BY <1>5, <2>3
  <2> QED BY <1>4, <2>1, <2>2, <2>3
<1>7. Clear(k.buf, k.length)
  BY <1>6, Zenon DEF Clear
<1> QED BY <1>1, <1>7

LEMMA KernelProgram ==
    ASSUME LineInv, ClockInv, UnmaskedInv, ReadingInv, ProgramInv, part = "lab3", Kernel
    PROVE  PlaceInv' /\ WatchInv' /\ BlockInv' /\ TextInv'
<1>1. PlaceInv /\ WatchInv /\ BlockInv /\ TextInv
  BY DEF ProgramInv
<1>2. /\ UNCHANGED <<prog, at, block, t, entered, took>>
      /\ pc' = pc \/ (pc \notin {"user", "reading"} /\ pc' \notin {"reading", "writing"})
      /\ pc \in {"user", "reading"} => Count \/ Irq \/ (\E c \in LineKeys : getc(c))
  BY KernelPlace, Zenon DEF program_vars
<1>3. PlaceInv'
  BY <1>1, <1>2 DEF PlaceInv
<1>4. WatchInv'
  <2>1. TimeIsRight' <=> TimeIsRight
    BY <1>2 DEF TimeIsRight
  <2>2. ASSUME at \in {"read", "reading", "elapsed"} PROVE Stopwatch'
    <3>1. pc \in {"user", "reading"} /\ Started
      BY <1>1, <2>2 DEF PlaceInv, Started, InProgram
    <3>2. Lost' = Lost /\ ticks' >= ticks /\ ticks \in Nat /\ ticks' \in Nat
      <4>1. CASE Count \/ Irq
        <5>1. unmasked
          BY <3>1, Zenon DEF UnmaskedInv
        <5>2. ticks \in Nat /\ ticks' \in Nat
          <6>1. KernelStep
            BY <4>1 DEF KernelStep
          <6> QED BY <6>1, StepClock DEF ClockInv
        <5> QED BY <3>1, <4>1, <5>1, <5>2, NothingLost
      <4>2. CASE \E c \in LineKeys : getc(c)
        BY <4>2 DEF getc, timer_vars, time_vars, Lost, ClockInv
      <4> QED BY <1>2, <3>1, <4>1, <4>2
    <3>3. PICK t0 \in Nat : /\ t0 <= ticks /\ t = AsInt(ClockAt(t0))
                            /\ 0 <= took - t0 * MATCH - Lost /\ took - t0 * MATCH - Lost <= MATCH
      BY <1>1, <2>2 DEF WatchInv, Stopwatch
    <3>4. t0 <= ticks'
      BY <3>2, <3>3
    <3>5. t' = AsInt(ClockAt(t0))
      BY <1>2, <3>3
    <3>6. 0 <= took' - t0 * MATCH - Lost' /\ took' - t0 * MATCH - Lost' <= MATCH
      BY <1>2, <3>2, <3>3
    <3> QED BY <3>4, <3>5, <3>6 DEF Stopwatch, AsInt, ClockAt
  <2> QED BY <1>1, <1>2, <2>1, <2>2 DEF WatchInv
<1>5. BlockInv'
  <2>1. ASSUME at = "reading" PROVE Clear(line'.buf, line'.length)
    <3>1. pc = "reading" /\ OpenLine /\ count = BLOCK_SIZE /\ Clear(line.buf, line.length)
      BY <1>1, <2>1 DEF PlaceInv, BlockInv, ReadingInv
    <3>2. CASE Count \/ Irq
      BY <3>1, <3>2 DEF Count, Irq, read_vars
    <3>3. CASE \E c \in LineKeys : getc(c)
      <4>1. PICK c \in Nat : getc(c)
        BY <3>3, LineKeysAssumption
      <4> QED BY <3>1, <4>1, KeyClears
    <3> QED BY <1>2, <3>1, <3>2, <3>3
  <2>2. (Clear(block, 0))' <=> Clear(block, 0)
    BY <1>2 DEF Clear
  <2>3. (Holds(block, entered))' <=> Holds(block, entered)
    BY <1>2 DEF Holds, Clear
  <2> QED BY <1>1, <1>2, <2>1, <2>2, <2>3 DEF BlockInv
<1>6. TextInv'
  <2> SUFFICES ASSUME pc' = "writing" PROVE TextInv'
    BY DEF TextInv
  <2>1. pc = "writing"
    BY <1>2
  <2>2. IsLine(line)
    BY <1>1, <2>1 DEF TextInv
  <2>3. IsLine(line)' /\ line'.buf = line.buf
    <3>1. CASE putc
      <4>1. line' = [line EXCEPT !.length = line.length + 1]
        BY <3>1, Zenon DEF putc
      <4> QED BY <2>2, <4>1 DEF IsLine
    <3>2. CASE Count \/ Irq
      BY <2>2, <3>2 DEF Count, Irq, read_vars, IsLine
    <3>3. CASE \/ Install_Handler("swi", "kmain", "swi installed")
               \/ Install_Handler("irq", "swi installed", "irq installed")
               \/ initTimer \/ Call_UserApp \/ WriteReturn \/ \E c \in LineKeys : getc(c)
      BY <2>1, <3>3 DEF Install_Handler, initTimer, Call_UserApp, WriteReturn, getc
    <3> QED BY <3>1, <3>2, <3>3 DEF Kernel
  <2>4. Seconds' <=> Seconds
    BY <1>2, <2>3 DEF Seconds
  <2> QED BY <1>1, <1>2, <2>1, <2>3, <2>4 DEF TextInv
<1> QED BY <1>3, <1>4, <1>5, <1>6

\* One statement of a program.
Statement ==
    \/ prompt \/ start_time \/ read_line \/ line_read \/ end_time
    \/ echo \/ print \/ result

LEMMA StatementPlace ==
    ASSUME PlaceInv, Statement
    PROVE  PlaceInv'
<1>1. CASE prompt \/ echo \/ print \/ result
  BY <1>1 DEF prompt, echo, print, result, write, PlaceInv
<1>2. CASE start_time \/ end_time
  <2>1. pc = "user" /\ pc' = pc /\ prog' = prog
    BY <1>2, Zenon DEF start_time, end_time, vars
  <2> QED BY <1>2, <2>1 DEF start_time, end_time, PlaceInv
<1>3. CASE read_line \/ line_read
  BY <1>3 DEF read_line, line_read, read, ReadReturn, PlaceInv
<1> QED BY <1>1, <1>2, <1>3 DEF Statement

\* The fractions of a tick at both readings differ by one tick at most.
LEMMA TwoReadings ==
    ASSUME NEW m \in Nat \ {0}, NEW k0 \in Nat, NEW k1 \in Nat, k0 <= k1,
           NEW n0 \in Int, NEW n1 \in Int, NEW lost \in Int,
           0 <= n0 - k0 * m - lost, n0 - k0 * m - lost <= m,
           0 <= n1 - k1 * m - lost, n1 - k1 * m - lost <= m
    PROVE  LET d == k1 - k0  n == n1 - n0
           IN  d \in 0..((n \div m) + 1) /\ n - m <= d * m /\ d * m <= n + m
<1> DEFINE d == k1 - k0
           n == n1 - n0
           q == n \div m
<1>1. d \in Nat /\ n \in Int /\ k0 * m \in Int /\ k1 * m \in Int
  OBVIOUS
<1>2. d * m = k1 * m - k0 * m /\ d * m \in Int
  OBVIOUS
<1>3. n - m <= d * m /\ d * m <= n + m
  BY <1>1, <1>2
<1>4. n = m * q + (n % m) /\ q \in Int /\ n % m \in 0..(m - 1)
  BY <1>1, Division
<1> DEFINE f == n % m
<1>5. f \in 0..(m - 1) /\ n = m * q + f
  BY <1>4
<1> HIDE DEF d, n, q, f
<1>6. d <= q + 1
  <2> SUFFICES ASSUME d >= q + 2 PROVE FALSE
    BY <1>1, <1>4
  <2> DEFINE e == d - (q + 2)
  <2>1. e \in Nat /\ d = q + 2 + e
    BY <1>1, <1>4
  <2> HIDE DEF e
  <2>2. d * m = m * q + 2 * m + e * m /\ e * m \in Nat /\ m * q \in Int
    BY <1>4, <2>1
  <2> QED BY <1>3, <1>5, <2>2
<1>7. d \in 0..(q + 1)
  BY <1>1, <1>4, <1>6
<1> QED BY <1>3, <1>7 DEF d, n, q

\* Reading the clock as an int makes no difference to the difference of two times.
LEMMA TimesApart ==
    ASSUME NEW x \in Int, NEW y \in Int
    PROVE  ((x % WORD) - AsInt(y % WORD)) % WORD = (x - y) % WORD
<1> DEFINE u == x % WORD
           v == y % WORD
<1>1. WORD \in Nat \ {0}
  BY WordAssumption
<1>2. u \in 0..(WORD - 1) /\ v \in 0..(WORD - 1)
  BY <1>1, Division
<1>3. (u - v) % WORD = (x - y) % WORD
  <2>1. (u - v) % WORD = (u - y) % WORD
    <3>1. u \in Int
      BY <1>2
    <3> HIDE DEF u
    <3> QED BY <1>1, <3>1, ModSub DEF v
  <2>2. ((x % WORD) + (-y)) % WORD = (x + (-y)) % WORD
    <3> DEFINE w == -y
    <3>1. w \in Int
      OBVIOUS
    <3> HIDE DEF w
    <3>2. ((x % WORD) + w) % WORD = (x + w) % WORD
      BY <1>1, <3>1, ModAdd
    <3> QED BY <3>2 DEF w
  <2>3. u - y = (x % WORD) + (-y) /\ x - y = x + (-y)
    BY <1>2
  <2> HIDE DEF u, v
  <2> QED BY <2>1, <2>2, <2>3
<1> HIDE DEF u, v
<1>4. CASE v < WORD \div 2
  BY <1>3, <1>4 DEF AsInt, u, v
<1>5. CASE ~(v < WORD \div 2)
  <2> DEFINE z == u - v
  <2>1. AsInt(v) = v - WORD /\ z \in Int /\ u - AsInt(v) = z + WORD
    BY <1>1, <1>2, <1>5 DEF AsInt
  <2> HIDE DEF z
  <2>2. (z + WORD) % WORD = z % WORD
    <3> DEFINE k == z \div WORD
               f == z % WORD
               w == z + WORD
    <3>1. z = WORD * k + f /\ k \in Int /\ f \in 0..(WORD - 1)
      BY <1>1, <2>1, Division
    <3> HIDE DEF k, f
    <3>2. w \in Int /\ w = WORD * (k + 1) + f /\ k + 1 \in Int
      BY <1>1, <2>1, <3>1
    <3> HIDE DEF w
    <3>3. w % WORD = f
      BY <1>1, <3>1, <3>2, ModUnique
    <3> QED BY <3>3 DEF w, f
  <2> QED BY <1>3, <2>1, <2>2 DEF u, v, z
<1> QED BY <1>4, <1>5

LEMMA IntOfWord == ASSUME NEW x \in Nat PROVE AsInt(x) \in Int
BY WordAssumption DEF AsInt

LEMMA StatementWatch ==
    ASSUME ClockInv, PlaceInv, WatchInv, Statement
    PROVE  WatchInv'
<1>1. CASE start_time
  <2>1. pc = "user" /\ Started
    BY <1>1 DEF start_time, Started, InProgram
  <2>2. /\ Lost \in Int /\ now \in Nat /\ ticks \in Nat
        /\ 0 <= now - ticks * MATCH - Lost /\ now - ticks * MATCH - Lost <= MATCH
    BY <2>1, ClockFraction
  <2>3. UNCHANGED <<now, ticks, ossr, oscr>> /\ t' = AsInt(getTimer) /\ took' = now
        /\ at' = "read"
    BY <1>1 DEF start_time, vars, timer_vars, time_vars
  <2>4. Lost' = Lost
    BY <2>3 DEF Lost
  <2>5. /\ ticks <= ticks' /\ t' = AsInt(ClockAt(ticks))
        /\ 0 <= took' - ticks * MATCH - Lost' /\ took' - ticks * MATCH - Lost' <= MATCH
    BY <2>2, <2>3, <2>4, ClockShows
  <2>6. Stopwatch'
    BY <2>2, <2>5 DEF Stopwatch, AsInt, ClockAt
  <2> QED BY <2>2, <2>3, <2>6 DEF WatchInv
<1>2. CASE end_time
  <2>1. at = "elapsed" /\ pc = "user" /\ Started
    BY <1>2 DEF end_time, Started, InProgram
  <2>2. /\ Lost \in Int /\ now \in Nat /\ ticks \in Nat /\ MATCH \in Nat \ {0}
        /\ 0 <= now - ticks * MATCH - Lost /\ now - ticks * MATCH - Lost <= MATCH
    BY <2>1, ClockFraction
  <2>3. took \in Nat /\ Stopwatch
    BY <2>1 DEF WatchInv
  <2>4. PICK t0 \in Nat : /\ t0 <= ticks /\ t = AsInt(ClockAt(t0))
                          /\ 0 <= took - t0 * MATCH - Lost /\ took - t0 * MATCH - Lost <= MATCH
    BY <2>3 DEF Stopwatch
  <2> DEFINE d == ticks - t0
  <2>5. /\ t' = AsInt((getTimer - t) % WORD) /\ took' = now - took
        /\ at' \in {"echo", "result"}
    BY <1>2 DEF end_time, elapsed
  <2>6. TIMER_RESOLUTION \in Nat /\ WORD \in Nat \ {0}
    BY ResolutionAssumption, WordAssumption
  <2>7. t' = AsInt((d * TIMER_RESOLUTION) % WORD) /\ t' \in Int
    <3> DEFINE x == ticks * TIMER_RESOLUTION
               y == t0 * TIMER_RESOLUTION
               z == d * TIMER_RESOLUTION
    <3>1. x \in Int /\ y \in Int /\ z \in Int /\ x - y = z
      BY <2>2, <2>6
    <3>2. getTimer = x % WORD /\ t = AsInt(y % WORD)
      BY <2>4, ClockShows DEF ClockAt
    <3> HIDE DEF x, y, z
    <3>3. (getTimer - t) % WORD = z % WORD
      BY <3>1, <3>2, TimesApart
    <3>4. z % WORD \in Nat
      BY <2>6, <3>1, Division
    <3>5. AsInt(z % WORD) \in Int
      BY <3>4, IntOfWord
    <3> QED BY <2>5, <3>3, <3>5 DEF z
  <2>8. TimeIsRight'
    <3>1. LET n == now - took
          IN  d \in 0..((n \div MATCH) + 1) /\ n - MATCH <= d * MATCH /\ d * MATCH <= n + MATCH
      BY <2>2, <2>3, <2>4, TwoReadings
    <3>2. /\ d \in 0..((took' \div MATCH) + 1) /\ took' - MATCH <= d * MATCH
          /\ d * MATCH <= took' + MATCH
      BY <2>5, <3>1
    <3> HIDE DEF d
    <3> QED BY <2>7, <3>2 DEF TimeIsRight, AsInt
  <2> QED BY <2>5, <2>7, <2>8 DEF WatchInv
<1>3. CASE prompt \/ print \/ result
  BY <1>3 DEF prompt, print, result, WatchInv
<1>4. CASE echo
  <2>1. at = "echo" /\ at' = "print" /\ t' = t /\ took' = took
    BY <1>4 DEF echo
  <2> QED BY <2>1 DEF WatchInv, TimeIsRight, AsInt
<1>5. CASE read_line \/ line_read
  <2>1. /\ at \in {"read", "reading"} /\ at' \in {"reading", "elapsed"}
        /\ UNCHANGED <<t, took, ticks, ossr, oscr, now>>
    BY <1>5 DEF read_line, line_read, read, ReadReturn, timer_vars, time_vars
  <2>2. Lost' = Lost
    BY <2>1 DEF Lost
  <2>3. Stopwatch' <=> Stopwatch
    BY <2>1, <2>2 DEF Stopwatch, AsInt, ClockAt
  <2> QED BY <2>1, <2>3 DEF WatchInv
<1> QED BY <1>1, <1>2, <1>3, <1>4, <1>5 DEF Statement

LEMMA StatementBlock ==
    ASSUME ReadingInv, part = "lab3", PlaceInv, BlockInv, Statement
    PROVE  BlockInv'
<1>1. BLOCK_SIZE \in Nat /\ block \in [Index -> Nat]
      /\ (pc = "reading" => OpenLine /\ count = BLOCK_SIZE)
  BY BlockAssumption DEF ReadingInv
<1>2. CASE prompt
  <2>1. at' = "time" /\ block' = [i \in 0..(BLOCK_SIZE - 1) |-> 0]
    BY <1>2 DEF prompt, Cleared, Index
  <2>2. Clear(block, 0)'
    BY <2>1 DEF Clear
  <2> QED BY <2>1, <2>2 DEF BlockInv
<1>3. CASE start_time
  <2>1. at = "time" /\ at' = "read" /\ block' = block
    BY <1>3 DEF start_time
  <2>2. Clear(block, 0)' <=> Clear(block, 0)
    BY <2>1 DEF Clear
  <2> QED BY <2>1, <2>2 DEF BlockInv
<1>4. CASE read_line
  <2>1. at = "read" /\ at' = "reading" /\ line' = NewLine(block)
    BY <1>4 DEF read_line, read
  <2>2. line'.buf = block /\ line'.length = 0
    BY <2>1 DEF NewLine
  <2>3. Clear(line.buf, line.length)'
    BY <2>1, <2>2 DEF BlockInv, Clear
  <2> QED BY <2>1, <2>3 DEF BlockInv
<1>5. CASE line_read
  <2>1. /\ at = "reading" /\ pc = "reading" /\ at' = "elapsed"
        /\ block' = line.buf /\ entered' = typed
    BY <1>5 DEF line_read, ReadReturn
  <2>2. /\ typed \in Seq(Nat) /\ line \in Line(BLOCK_SIZE)
        /\ AsTyped(line.buf, line.length, typed) /\ Clear(line.buf, line.length)
    BY <1>1, <2>1 DEF OpenLine, BlockInv
  <2>3. line.length \in 0..BLOCK_SIZE
    BY <1>1, <2>2, LineFields
  <2>4. Holds(line.buf, typed)
    BY <2>2, <2>3 DEF Holds
  <2>5. Holds(block, entered)'
    BY <2>1, <2>4 DEF Holds, Clear
  <2> QED BY <2>1, <2>2, <2>5 DEF BlockInv
<1>6. CASE end_time
  <2>1. at = "elapsed" /\ at' \in {"echo", "result"} /\ UNCHANGED <<block, entered>>
    BY <1>6 DEF end_time
  <2>2. Holds(block, entered)' <=> Holds(block, entered)
    BY <2>1 DEF Holds, Clear
  <2> QED BY <2>1, <2>2 DEF BlockInv
<1>7. CASE echo \/ print \/ result
  BY <1>7 DEF echo, print, result, BlockInv
<1> QED BY <1>2, <1>3, <1>4, <1>5, <1>6, <1>7 DEF Statement

\* The text that write is given, up to its NUL.
LEMMA TextGiven ==
    ASSUME NEW text, write(text)
    PROVE  /\ pc' = "writing"
           /\ IsLine(line)' /\ line'.buf = Written(text, Len(text))
<1>1. line' = [EmptyLine EXCEPT !.buf = Written(text, Len(text))] /\ pc' = "writing"
  BY DEF write
<1> DEFINE w == Written(text, Len(text))
<1> HIDE DEF w
<1>2. line' = [buf |-> w, length |-> 0, screen |-> [col |-> 0, row |-> <<>>], ended |-> FALSE]
  BY <1>1 DEF EmptyLine, NewLine, w
<1> QED BY <1>1, <1>2 DEF IsLine, w

LEMMA StatementText ==
    ASSUME PlaceInv, WatchInv, BlockInv, Statement
    PROVE  TextInv'
<1>1. CASE prompt
  <2>1. write(<<62, 32>>) /\ at' = "time"
    BY <1>1 DEF prompt
  <2> QED BY <2>1, TextGiven DEF TextInv
<1>2. CASE start_time \/ read_line \/ line_read \/ end_time
  <2>1. pc' # "writing"
    BY <1>2 DEF start_time, read_line, line_read, end_time, vars, read, ReadReturn
  <2> QED BY <2>1 DEF TextInv
<1>3. CASE echo
  <2> DEFINE text == [k \in 1..BLOCK_SIZE |-> block[k - 1]]
  <2>1. at = "echo" /\ at' = "print" /\ entered' = entered /\ write(text)
    BY <1>3 DEF echo
  <2>2. entered \in Seq(Nat) /\ Holds(block, entered) /\ BLOCK_SIZE \in Nat
    BY <2>1, BlockAssumption DEF BlockInv
  <2>3. PICK m \in 0..BLOCK_SIZE : AsTyped(block, m, entered) /\ Clear(block, m)
    BY <2>2 DEF Holds
  <2>4. \A i \in 0..(m - 1) : block[i] # 0
    BY <2>2, <2>3, TypedCharacters
  <2>5. Written(text, BLOCK_SIZE) = [i \in 1..m |-> block[i - 1]]
    BY <2>2, <2>3, <2>4, WrittenUpToNul DEF Clear
  <2>6. Kept(entered) = [i \in 1..m |-> block[i - 1]]
    BY <2>2, <2>3, TypedIsKept
  <2>7. Len(text) = BLOCK_SIZE
    BY <2>2
  <2> HIDE DEF text
  <2>8. IsLine(line)' /\ line'.buf = Kept(entered)
    BY <2>1, <2>5, <2>6, <2>7, TextGiven
  <2>9. Kept(entered)' = Kept(entered)
    BY <2>1
  <2> QED BY <2>1, <2>8, <2>9 DEF TextInv
<1>4. CASE print
  <2>1. write(SecondsText(t)) /\ at = "print" /\ at' = "prompt" /\ t' = t
    BY <1>4 DEF print
  <2>2. t \in Int
    BY <2>1 DEF WatchInv
  <2>3. IsLine(line)' /\ line'.buf = Written(SecondsText(t), Len(SecondsText(t)))
    BY <2>1, TextGiven
  <2>4. t >= 0 => Tells(line'.buf, t)
    BY <2>2, <2>3, SecondsTold
  <2>5. Seconds'
    BY <2>1, <2>4 DEF Seconds
  <2> QED BY <2>1, <2>3, <2>5 DEF TextInv
<1>5. CASE result
  <2>1. /\ at = "result" /\ at' = "prompt" /\ prog' = prog
        /\ \E text : write(text)
    BY <1>5 DEF result
  <2>2. prog' # "typo"
    BY <2>1 DEF PlaceInv
  <2> QED BY <2>1, <2>2, TextGiven DEF TextInv
<1> QED BY <1>1, <1>2, <1>3, <1>4, <1>5 DEF Statement

LEMMA StepProgram ==
    ASSUME LineInv, ClockInv, UnmaskedInv, ReadingInv, ProgramInv, AllStep
    PROVE  ProgramInv'
<1>1. part' = part
  BY ProjectRead
<1>2. CASE part = "lab3"
  <2>1. PlaceInv /\ WatchInv /\ BlockInv /\ TextInv
    BY <1>2 DEF ProgramInv
  <2>2. PlaceInv' /\ WatchInv' /\ BlockInv' /\ TextInv'
    <3>1. CASE Kernel
      BY <1>2, <3>1, KernelProgram
    <3>2. CASE Statement
      BY <1>2, <2>1, <3>2, StatementPlace, StatementWatch, StatementBlock, StatementText
    <3>3. CASE UNCHANGED <<vars, program_vars>>
      <4>1. /\ UNCHANGED <<pc, line, ticks, oscr, ossr, now>>
            /\ UNCHANGED <<prog, at, block, t, entered, took>>
        BY <3>3 DEF vars, timer_vars, read_vars, time_vars, program_vars
      <4>2. Lost' = Lost
        BY <4>1 DEF Lost
      <4>3. PlaceInv'
        BY <2>1, <4>1 DEF PlaceInv
      <4>4. WatchInv'
        BY <2>1, <4>1, <4>2 DEF WatchInv, Stopwatch, TimeIsRight, AsInt, ClockAt
      <4>5. BlockInv'
        BY <2>1, <4>1 DEF BlockInv, Clear, Holds
      <4>6. TextInv'
        BY <2>1, <4>1 DEF TextInv, IsLine, Seconds
      <4> QED BY <4>3, <4>4, <4>5, <4>6
    <3> QED BY <1>2, <3>1, <3>2, <3>3 DEF AllStep, AllNext, ProgramsNext, Statement
  <2> QED BY <1>1, <1>2, <2>2 DEF ProgramInv
<1>3. CASE part # "lab3"
  <2>1. at' = at
    BY <1>3 DEF AllStep, AllNext, program_vars
  <2> QED BY <1>1, <1>3, <2>1 DEF ProgramInv
<1> QED BY <1>2, <1>3

-----------------------------------------------------------------------------
(* The lab2 kernel.                                                        *)

\* The handler is saved before the kernel's own is in its place, and the stack to
\* unwind to is set before there is a program that could exit.
Lab2Inv ==
    /\ where \in {"main", "installed", "user", "reading", "read", "answered", "exited",
                  "returned", "gone"}
    /\ vector2 \in {"ldr", "other"}
    /\ where = "main" => handler2 = "u-boot" /\ kStackPtr = "unset"
    /\ where \notin {"main", "gone"} => oldSwi_ins = "u-boot"
    /\ where \notin {"main", "installed", "gone"} => kStackPtr # "unset"
    /\ Lab2!LeavesMachineAsFound

\* Until Call_UserApp there is nowhere to exit to.
LEMMA StepLab2 ==
    ASSUME Lab2Inv, Lab2!Next
    PROVE  Lab2Inv'
<1> USE DEF Lab2Inv, Lab2!LeavesMachineAsFound
<1>1. CASE Lab2!Install_SWI_Handler
  BY <1>1 DEF Lab2!Install_SWI_Handler, Lab2!ExitTo
<1>2. CASE Lab2!Call_UserApp \/ Lab2!RestoreHandler \/ Lab2!flush
  BY <1>2 DEF Lab2!Call_UserApp, Lab2!RestoreHandler, Lab2!flush, Lab2!kernel_vars
<1>3. CASE Lab2!read \/ (\E c \in Rot13Keys : Lab2!getc(c)) \/ Lab2!read_return
  BY <1>3 DEF Lab2!read, Lab2!getc, Lab2!read_return, Lab2!kernel_vars
<1>4. CASE Lab2!exit \/ Lab2!rot13
  BY <1>4 DEF Lab2!exit, Lab2!rot13, Lab2!ExitTo, Lab2!kernel_vars
<1> QED BY <1>1, <1>2, <1>3, <1>4 DEF Lab2!Next

-----------------------------------------------------------------------------
(* rot13.                                                                  *)

\* The consoles of the two kernels are the same but for an erasure on the screen.
LEMMA SameConsole ==
    /\ \A keys : Lab2!Kept(keys) = Kept(keys)
    /\ \A text, n : Lab2!Written(text, n) = Written(text, n)
    /\ \A ln, c : Lab2!Keyed(ln, c) = Keyed(ln, c)
    /\ \A ln, n : Lab2!MoreToRead(ln, n) <=> MoreToRead(ln, n)
<1>3. ASSUME NEW keys PROVE Lab2!Kept(keys) = Kept(keys)
  BY Zenon DEF Lab2!Kept, Kept, Lab2!Staying, Staying, Lab2!Typings, Typings,
     Lab2!Erasures, Erasures, Lab2!Types, Types, Lab2!Erases, Erases, Lab2!Regular, Regular,
     Lab2!EndsLine, EndsLine, Lab2!DEL_CHAR, DEL_CHAR, Lab2!Cardinality, Cardinality
<1>4. \A text, n : Lab2!Written(text, n) = Written(text, n)
  BY DEF Lab2!Written, Written
<1>6. ASSUME NEW ln, NEW c PROVE Lab2!Keyed(ln, c) = Keyed(ln, c)
  BY Zenon DEF Lab2!Keyed, Keyed, Lab2!Stored, Stored, Lab2!Erased, Erased, Lab2!ERASE, ERASE,
     Lab2!Arrives, Arrives, Lab2!Erases, Erases, Lab2!Regular, Regular, Lab2!EndsLine, EndsLine,
     Lab2!DEL_CHAR, DEL_CHAR, Lab2!EOT_CHAR, EOT_CHAR
<1>7. \A ln, n : Lab2!MoreToRead(ln, n) <=> MoreToRead(ln, n)
  BY DEF Lab2!MoreToRead, MoreToRead
<1> QED BY <1>3, <1>4, <1>6, <1>7

\* A line of rot13's, by its fields; nothing is said of the screen.
Rot13Line(ln) ==
    /\ IsLine(ln) /\ ln.buf \in [Index -> Nat] /\ ln.length \in 0..BLOCK_SIZE
    /\ ln.ended \in BOOLEAN

\* What a key does to a line that is open, but for the screen.
LEMMA Rot13Key ==
    ASSUME NEW ln, Rot13Line(ln), ln.length < BLOCK_SIZE, ~ln.ended, NEW c \in Nat
    PROVE  LET k == Lab2!Key(ln, c)
           IN  /\ Rot13Line(k)
               /\ \/ /\ Types(c) /\ k.length = ln.length + 1
                     /\ k.buf = [ln.buf EXCEPT ![ln.length] = c]
                     /\ Regular(c) \/ k.ended
                  \/ /\ Erases(c) /\ ~Types(c) /\ ln.length # 0
                     /\ k.length = ln.length - 1
                     /\ k.buf = [ln.buf EXCEPT ![ln.length - 1] = 0]
                  \/ /\ ~Types(c) /\ (Erases(c) => ln.length = 0)
                     /\ k.length = ln.length /\ k.buf = ln.buf
<1> DEFINE k == Lab2!Key(ln, c)
           l == ln.length
           stored == [ln.buf EXCEPT ![l] = c]
           erased == [ln.buf EXCEPT ![l - 1] = 0]
<1>1. /\ ln = [buf |-> ln.buf, length |-> l, screen |-> ln.screen, ended |-> ln.ended]
      /\ ln.buf \in [Index -> Nat] /\ l \in 0..(BLOCK_SIZE - 1) /\ BLOCK_SIZE \in Nat
      /\ ln.ended = FALSE
  BY BlockAssumption DEF Rot13Line, IsLine
<1>2. stored \in [Index -> Nat] /\ erased \in [Index -> Nat]
  BY <1>1 DEF Index
<1>3. /\ Lab2!Erases(c) <=> Erases(c)
      /\ Lab2!Keyed(ln, c) = Keyed(ln, c)
  BY SameConsole, Zenon DEF Lab2!Erases, Erases, Lab2!DEL_CHAR, DEL_CHAR
<1> DEFINE screens == {ln.screen, Arrives(ln.screen, c), ERASE(ln.screen),
                       Lab2!ERASE_spelt(ln.screen)}
           R == [buf : [Index -> Nat], length : Int, screen : screens, ended : BOOLEAN]
<1>4. ASSUME NEW x \in R, x.length \in 0..BLOCK_SIZE PROVE Rot13Line(x)
  <2> HIDE DEF screens
  <2> QED BY <1>4 DEF Rot13Line, IsLine
<1>5. ln \in R
  <2>1. ln.screen \in screens /\ ln.ended \in BOOLEAN /\ l \in Int
    BY <1>1 DEF Rot13Line
  <2> HIDE DEF screens
  <2> QED BY <1>1, <2>1
<1>6. /\ Stored(ln, c) \in R /\ Stored(ln, c).buf = stored /\ Stored(ln, c).length = l + 1
  <2> DEFINE scr == Arrives(ln.screen, c)
             x == [ln EXCEPT !.buf = stored, !.screen = scr, !.length = l + 1]
  <2>1. scr \in screens
    OBVIOUS
  <2>2. Stored(ln, c) = x
    BY DEF Stored
  <2>3. stored \in [Index -> Nat] /\ l + 1 \in Int /\ l - 1 \in Int
    BY <1>1, <1>2
  <2> HIDE DEF screens, stored, erased, scr, l
  <2>4. x \in R /\ x.buf = stored /\ x.length = l + 1
    BY <1>5, <2>1, <2>3
  <2> HIDE DEF x, R
  <2> QED BY <2>2, <2>4
<1>7. l # 0 => /\ Erased(ln) \in R /\ Erased(ln).buf = erased /\ Erased(ln).length = l - 1
  <2> DEFINE scr == ERASE(ln.screen)
             x == [ln EXCEPT !.buf = erased, !.screen = scr, !.length = l - 1]
  <2>1. scr \in screens
    OBVIOUS
  <2>2. l # 0 => Erased(ln) = x
    BY DEF Erased
  <2>3. erased \in [Index -> Nat] /\ l + 1 \in Int /\ l - 1 \in Int
    BY <1>1, <1>2
  <2> HIDE DEF screens, stored, erased, scr, l
  <2>4. x \in R /\ x.buf = erased /\ x.length = l - 1
    BY <1>5, <2>1, <2>3
  <2> HIDE DEF x, R
  <2> QED BY <2>2, <2>4
<1>8. CASE Erases(c) /\ l # 0
  <2>1. k = [Lab2!Erased(ln) EXCEPT !.screen = Lab2!ERASE_spelt(ln.screen)]
    BY <1>3, <1>8, Zenon DEF Lab2!Key, Lab2!Erase
  <2>2. Lab2!Erased(ln) = Erased(ln)
    BY Zenon DEF Lab2!Erased, Erased, Lab2!ERASE, ERASE, Lab2!Arrives, Arrives,
                 Lab2!EndsLine, EndsLine, Lab2!Regular, Regular
  <2> DEFINE scr == Lab2!ERASE_spelt(ln.screen)
  <2>3. scr \in screens
    OBVIOUS
  <2>4. ~Types(c)
    BY <1>8 DEF Erases, Types, Regular, EndsLine, DEL_CHAR
  <2>5. k = [Erased(ln) EXCEPT !.screen = scr]
    BY <2>1, <2>2
  <2> HIDE DEF k, erased, scr, screens
  <2>6. k \in R /\ k.buf = erased /\ k.length = l - 1
    BY <1>7, <1>8, <2>3, <2>5
  <2>7. Rot13Line(k)
    BY <1>1, <1>4, <1>8, <2>6
  <2> QED BY <1>8, <2>4, <2>6, <2>7 DEF k, erased
<1>9. CASE ~(Erases(c) /\ l # 0)
  <2>1. k = Keyed(ln, c)
    BY <1>3, <1>9, Zenon DEF Lab2!Key
  <2>2. CASE Regular(c)
    <3>1. c # EOT_CHAR /\ ~Erases(c) /\ ~EndsLine(c)
      BY <2>2 DEF EOT_CHAR, Erases, Regular, EndsLine, DEL_CHAR
    <3>2. k = Stored(ln, c)
      BY <2>1, <2>2, <3>1, Zenon DEF Keyed
    <3> HIDE DEF k, stored, R
    <3>3. k.buf = stored /\ k.length = l + 1 /\ Rot13Line(k)
      BY <1>1, <1>4, <1>6, <3>2
    <3>4. Types(c)
      BY <2>2 DEF Types
    <3> QED BY <2>2, <3>3, <3>4 DEF k, stored
  <2>3. CASE EndsLine(c)
    <3>1. c # EOT_CHAR /\ ~Erases(c) /\ ~Regular(c)
      BY <2>3 DEF EOT_CHAR, Erases, EndsLine, DEL_CHAR, Regular
    <3>2. k = [Stored(ln, c) EXCEPT !.ended = TRUE]
      BY <2>1, <2>3, <3>1, Zenon DEF Keyed
    <3> HIDE DEF k, stored, screens
    <3>3. k \in R /\ k.buf = stored /\ k.length = l + 1 /\ k.ended = TRUE
      BY <1>6, <3>2
    <3>4. Rot13Line(k)
      BY <1>1, <1>4, <3>3
    <3>5. Types(c)
      BY <2>3 DEF Types
    <3> QED BY <3>3, <3>4, <3>5 DEF k, stored
  <2>4. CASE c = EOT_CHAR
    <3>1. ~Types(c) /\ ~Erases(c)
      BY <2>4 DEF EOT_CHAR, Types, Erases, Regular, EndsLine, DEL_CHAR
    <3>2. ~Regular(c) /\ ~EndsLine(c)
      BY <3>1 DEF Types
    <3>3. k = [ln EXCEPT !.ended = TRUE]
      BY <2>1, <2>4, <3>1, <3>2, Zenon DEF Keyed
    <3> HIDE DEF k, screens
    <3>4. k \in R /\ k.buf = ln.buf /\ k.length = l
      BY <1>5, <3>3
    <3>5. Rot13Line(k)
      BY <1>1, <1>4, <3>4
    <3> QED BY <3>1, <3>4, <3>5 DEF k
  <2>5. CASE c # EOT_CHAR /\ ~Regular(c) /\ ~EndsLine(c)
    <3>1. k = ln /\ ~Types(c)
      <4>1. CASE Erases(c)
        <5>1. l = 0
          BY <1>9, <4>1
        <5>2. Keyed(ln, c) = Erased(ln)
          BY <2>5, <4>1, Zenon DEF Keyed
        <5> QED BY <2>1, <2>5, <5>1, <5>2, Zenon DEF Erased, Types
      <4>2. CASE ~Erases(c)
        BY <2>1, <2>5, <4>2, Zenon DEF Keyed, Types
      <4> QED BY <4>1, <4>2
    <3>2. Erases(c) => l = 0
      BY <1>9
    <3> QED BY <3>1, <3>2
  <2> QED BY <2>2, <2>3, <2>4, <2>5
<1> QED BY <1>8, <1>9

\* The loop stops at the first character that ends the line, or behind the buffer.
LEMMA FirstStop ==
    /\ Lab2!StopsAt \in 0..BLOCK_SIZE
    /\ \A k \in Index : k < Lab2!StopsAt => ~Lab2!Stops(buffer[k])
    /\ Lab2!StopsAt # BLOCK_SIZE => Lab2!Stops(buffer[Lab2!StopsAt])
<1> DEFINE at2 == {k \in Index : Lab2!Stops(buffer[k])}
           low == CHOOSE k \in at2 : \A j \in at2 : k <= j
<1>1. Lab2!StopsAt = IF at2 = {} THEN BLOCK_SIZE ELSE low
  BY DEF Lab2!StopsAt, Lab2!Index, Index
<1>2. CASE at2 = {}
  <2>1. BLOCK_SIZE \in Nat
    BY BlockAssumption
  <2> QED BY <1>1, <1>2, <2>1
<1>3. CASE at2 # {}
  <2>1. \E k \in at2 : \A j \in at2 : k <= j
    <3>1. at2 \subseteq Nat
      BY DEF Index
    <3> HIDE DEF at2
    <3> QED BY <1>3, <3>1, LeastNumber
  <2>2. low \in at2 /\ \A j \in at2 : low <= j
    BY <2>1
  <2>3. Lab2!StopsAt = low
    BY <1>1, <1>3
  <2>4. low \in 0..BLOCK_SIZE /\ BLOCK_SIZE \in Nat
    BY <2>2, BlockAssumption DEF Index
  <2>5. ASSUME NEW k \in Index, k < low PROVE ~Lab2!Stops(buffer[k])
    <3>1. k \in Int /\ low \in Int
      BY <2>4 DEF Index
    <3>2. ~(low <= k)
      BY <2>5, <3>1
    <3> QED BY <2>2, <3>2
  <2> HIDE DEF low
  <2> QED BY <2>2, <2>3, <2>4, <2>5
<1> QED BY <1>2, <1>3

LEMMA Caesar ==
    ASSUME NEW c \in Nat
    PROVE  /\ Lab2!caesar(c) = Lab2!Turned(c) /\ Lab2!caesar(c) \in Nat
           /\ c # 0 => Lab2!caesar(c) # 0
<1>1. CASE c \in 65..90
  BY <1>1 DEF Lab2!caesar, Lab2!Turned
<1>2. CASE c \in 97..122
  BY <1>2 DEF Lab2!caesar, Lab2!Turned
<1>3. CASE c \notin 65..90 /\ c \notin 97..122
  BY <1>3 DEF Lab2!caesar, Lab2!Turned
<1> QED BY <1>1, <1>2, <1>3

\* What rot13 writes: the characters before the stop turned, a newline unless the stop
\* is behind the buffer, and nothing of the rest but what lies behind the buffer.
LEMMA Answered ==
    ASSUME buffer \in [Index -> Nat], Lab2!rot13
    PROVE  /\ stop' = Lab2!StopsAt
           /\ buffer' \in [Index -> Nat]
           /\ \A k \in Index : k > stop' => buffer'[k] = buffer[k]
           /\ stop' \in Index => buffer'[stop'] = 10
           /\ \E m \in {stop', stop' + 1} : \E d :
                 /\ stop' # BLOCK_SIZE => m = stop' + 1 /\ d[stop'] = 10
                 /\ \A i \in 0..(stop' - 1) : d[i] = Lab2!Turned(buffer[i])
                 /\ answer' = [i \in 1..m |-> d[i - 1]]
<1> DEFINE n == Lab2!StopsAt
           rot == Lab2!Rotated(n)
           d == [i \in 0..BLOCK_SIZE |-> IF i < BLOCK_SIZE THEN rot[i] ELSE beyond]
           text == [k \in 1..(n + 1) |-> IF k <= BLOCK_SIZE THEN rot[k - 1] ELSE beyond]
<1>1. stop' = n /\ buffer' = rot /\ answer' = Written(text, n + 1)
  <2>1. /\ stop' = n /\ buffer' = Lab2!Rotated(stop')
        /\ answer' = Lab2!Written([k \in 1..(stop' + 1) |->
                            IF k <= BLOCK_SIZE THEN buffer'[k - 1] ELSE beyond], stop' + 1)
    BY DEF Lab2!rot13
  <2>2. buffer' = rot
    BY <2>1 DEF Lab2!Rotated
  <2>3. answer' = Lab2!Written(text, n + 1)
    BY <2>1, <2>2
  <2> QED BY <2>1, <2>2, <2>3, SameConsole
<1>2. n \in 0..BLOCK_SIZE /\ n \in Nat /\ BLOCK_SIZE \in Nat
  BY FirstStop, BlockAssumption
<1>3. \A k \in Index : k < n => ~Lab2!Stops(buffer[k])
  BY FirstStop
<1> HIDE DEF n
<1>4. \A k \in Index : rot[k] = IF k < n THEN Lab2!caesar(buffer[k])
                                ELSE IF k = n THEN 10 ELSE buffer[k]
  BY DEF Lab2!Rotated, Lab2!Index, Index
<1>5. rot \in [Index -> Nat]
  <2>1. ASSUME NEW k \in Index PROVE rot[k] \in Nat
    <3>1. buffer[k] \in Nat
      OBVIOUS
    <3> QED BY <1>4, <3>1, Caesar
  <2>2. rot = [k \in Index |-> rot[k]]
    BY DEF Lab2!Rotated, Lab2!Index, Index
  <2> HIDE DEF rot
  <2> QED BY <2>1, <2>2
<1>6. /\ \A k \in Index : k > n => rot[k] = buffer[k]
      /\ n \in Index => rot[n] = 10
  BY <1>2, <1>4 DEF Index
<1>7. \A i \in 0..(n - 1) : rot[i] = Lab2!Turned(buffer[i]) /\ rot[i] # 0
  <2> SUFFICES ASSUME NEW i \in 0..(n - 1)
               PROVE  rot[i] = Lab2!Turned(buffer[i]) /\ rot[i] # 0
    OBVIOUS
  <2>1. i \in Index /\ i < n
    BY <1>2 DEF Index
  <2>2. buffer[i] \in Nat /\ buffer[i] # 0
    BY <1>3, <2>1 DEF Lab2!Stops
  <2> HIDE DEF rot
  <2> QED BY <1>4, <2>1, <2>2, Caesar
<1> HIDE DEF rot
<1>8. \A i \in 0..(n - 1) : d[i] = rot[i]
  BY <1>2
<1>9. n # BLOCK_SIZE => d[n] = 10
  BY <1>2, <1>6 DEF Index
<1>10. text = [k \in 1..(n + 1) |-> d[k - 1]]
  <2>1. \A k \in 1..(n + 1) : text[k] = d[k - 1]
    BY <1>2
  <2> QED BY <2>1
<1>11. \A i \in 0..(n - 1) : d[i] # 0
  BY <1>7, <1>8
<1> DEFINE m == IF d[n] = 0 THEN n ELSE n + 1
<1>12. m \in 0..(n + 1) /\ (n # BLOCK_SIZE => m = n + 1)
  BY <1>2, <1>9
<1> HIDE DEF text, d
<1>13. /\ \A i \in 0..(m - 1) : d[i] # 0
       /\ \A i \in m..((n + 1) - 1) : d[i] = 0
  <2>1. CASE d[n] = 0
    <3>1. m = n /\ m..((n + 1) - 1) = {n}
      BY <1>2, <2>1
    <3> QED BY <1>11, <2>1, <3>1
  <2>2. CASE d[n] # 0
    <3>1. m = n + 1 /\ m..((n + 1) - 1) = {} /\ \A i \in 0..(m - 1) : i = n \/ i \in 0..(n - 1)
      BY <1>2, <2>2
    <3> QED BY <1>11, <2>2, <3>1
  <2> QED BY <2>1, <2>2
<1> HIDE DEF m
<1>14. Written(text, n + 1) = [i \in 1..m |-> d[i - 1]]
  <2>1. n + 1 \in Nat
    BY <1>2
  <2> QED BY <1>10, <1>12, <1>13, <2>1, WrittenUpToNul
<1>15. m \in {n, n + 1}
  BY DEF m
<1>16. \A i \in 0..(n - 1) : d[i] = Lab2!Turned(buffer[i])
  BY <1>7, <1>8
<1>17. answer' = [i \in 1..m |-> d[i - 1]]
  BY <1>1, <1>14
<1>18. stop' = n /\ stop' = Lab2!StopsAt
  BY <1>1 DEF n
<1>19. \E e :
          /\ stop' # BLOCK_SIZE => m = stop' + 1 /\ e[stop'] = 10
          /\ \A i \in 0..(stop' - 1) : e[i] = Lab2!Turned(buffer[i])
          /\ answer' = [i \in 1..m |-> e[i - 1]]
  <2>1. /\ stop' # BLOCK_SIZE => m = stop' + 1 /\ d[stop'] = 10
        /\ \A i \in 0..(stop' - 1) : d[i] = Lab2!Turned(buffer[i])
    BY <1>9, <1>12, <1>16, <1>18
  <2> QED BY <1>17, <2>1, Zenon
<1>20. m \in {stop', stop' + 1}
  BY <1>15, <1>18
<1>21. \E k \in {stop', stop' + 1} : \E e :
          /\ stop' # BLOCK_SIZE => k = stop' + 1 /\ e[stop'] = 10
          /\ \A i \in 0..(stop' - 1) : e[i] = Lab2!Turned(buffer[i])
          /\ answer' = [i \in 1..k |-> e[i - 1]]
  BY <1>19, <1>20, Zenon
<1>22. /\ buffer' \in [Index -> Nat]
       /\ \A k \in Index : k > stop' => buffer'[k] = buffer[k]
       /\ stop' \in Index => buffer'[stop'] = 10
  BY <1>1, <1>5, <1>6, <1>18
<1> QED BY <1>18, <1>21, <1>22, Zenon

\* The line that rot13 reads: only its last character can end it.
Rot13Read ==
    /\ typed2 \in Seq(Nat) /\ Rot13Line(line2)
    /\ AsTyped(line2.buf, line2.length, typed2)
    /\ \A i \in 0..(line2.length - 1) :
          i < line2.length - 1 \/ ~line2.ended => Regular(line2.buf[i])

\* From index m on, what was ever written is a NUL or the newline of an answer.
Blank(b, m) == \A k \in known : k >= m => b[k] \in {0, 10}

Rot13Inv ==
    /\ known \subseteq Index /\ buffer \in [Index -> Nat]
    /\ where \in {"main", "installed", "user"} => Blank(buffer, 0)
    /\ where \in {"reading", "read"} => Rot13Read
    /\ where = "reading" => Blank(line2.buf, line2.length)
    /\ where = "read" => buffer = line2.buf /\ Blank(buffer, line2.length)
    /\ where = "answered" => /\ stop \in 0..BLOCK_SIZE
                             /\ stop \in Index => buffer[stop] = 10
                             /\ Blank(buffer, stop + 1)
    /\ Lab2!AnswersInRot13

\* Apart from an answer and an end there is nothing to say of the answer.
LEMMA NoAnswer ==
    ASSUME where' \notin {"answered", "exited"}
    PROVE  Lab2!AnswersInRot13'
BY DEF Lab2!AnswersInRot13

LEMMA Rot13Reads ==
    ASSUME Rot13Inv, Lab2!read
    PROVE  Rot13Inv'
<1>1. /\ where = "user" /\ where' = "reading" /\ line2' = NewLine(buffer) /\ typed2' = <<>>
      /\ UNCHANGED <<buffer, known>>
  BY DEF Lab2!read, Lab2!NewLine, NewLine
<1>2. BLOCK_SIZE \in Nat /\ buffer \in [Index -> Nat] /\ known \subseteq Index /\ Blank(buffer, 0)
  BY <1>1, BlockAssumption DEF Rot13Inv
<1>3. line2' = [buf |-> buffer, length |-> 0, screen |-> [col |-> 0, row |-> <<>>],
                ended |-> FALSE]
  BY <1>1 DEF NewLine
<1>4. line2'.buf = buffer /\ line2'.length = 0 /\ Rot13Line(line2)'
  BY <1>2, <1>3 DEF Rot13Line, IsLine, Index
<1>5. Rot13Read'
  BY <1>1, <1>4, NothingTyped DEF Rot13Read
<1>6. Blank(line2.buf, line2.length)'
  BY <1>1, <1>2, <1>4 DEF Blank
<1> QED BY <1>1, <1>2, <1>5, <1>6, NoAnswer DEF Rot13Inv

LEMMA Rot13Types ==
    ASSUME Rot13Inv, NEW c \in Nat, Lab2!getc(c)
    PROVE  Rot13Inv'
<1> DEFINE l == line2.length
           k == Lab2!Key(line2, c)
<1>1. /\ where = "reading" /\ where' = where /\ buffer' = buffer
      /\ line2' = k /\ typed2' = Append(typed2, c)
      /\ known' = known \cup (0..(line2'.length - 1))
      /\ l < BLOCK_SIZE /\ ~line2.ended
  BY Zenon DEF Lab2!getc, Lab2!MoreToRead
<1>2. Rot13Read /\ Blank(line2.buf, l) /\ known \subseteq Index /\ buffer \in [Index -> Nat]
  BY <1>1 DEF Rot13Inv
<1>3. /\ typed2 \in Seq(Nat) /\ Rot13Line(line2) /\ AsTyped(line2.buf, l, typed2)
      /\ \A i \in 0..(l - 1) : Regular(line2.buf[i])
  BY <1>1, <1>2 DEF Rot13Read
<1>4. /\ line2.buf \in [0..(BLOCK_SIZE - 1) -> Nat] /\ l \in Nat /\ l \in 0..BLOCK_SIZE
      /\ BLOCK_SIZE \in Nat
  BY <1>3, BlockAssumption DEF Rot13Line, Index
<1>5. /\ Rot13Line(k)
      /\ \/ /\ Types(c) /\ k.length = l + 1 /\ k.buf = [line2.buf EXCEPT ![l] = c]
            /\ Regular(c) \/ k.ended
         \/ /\ Erases(c) /\ ~Types(c) /\ l # 0 /\ k.length = l - 1
            /\ k.buf = [line2.buf EXCEPT ![l - 1] = 0]
         \/ /\ ~Types(c) /\ (Erases(c) => l = 0) /\ k.length = l /\ k.buf = line2.buf
  BY <1>1, <1>3, Rot13Key
<1> HIDE DEF k
<1>6. k.length \in 0..BLOCK_SIZE
  BY <1>5 DEF Rot13Line
<1>7. known' \subseteq Index
  <2>1. line2'.length = k.length
    BY <1>1
  <2>2. 0..(k.length - 1) \subseteq 0..(BLOCK_SIZE - 1)
    BY <1>4, <1>6
  <2> QED BY <1>1, <1>2, <2>1, <2>2 DEF Index
<1>8. /\ AsTyped(k.buf, k.length, Append(typed2, c))
      /\ \A i \in 0..(k.length - 1) : i < k.length - 1 \/ ~k.ended => Regular(k.buf[i])
      /\ \A j \in known : j >= k.length => k.buf[j] \in {0, 10}
  <2>1. CASE /\ Types(c) /\ k.length = l + 1 /\ k.buf = [line2.buf EXCEPT ![l] = c]
             /\ Regular(c) \/ k.ended
    <3>1. AsTyped([line2.buf EXCEPT ![l] = c], l + 1, Append(typed2, c))
      BY <1>1, <1>3, <1>4, <2>1, TypedOne
    <3>2. ASSUME NEW i \in 0..(k.length - 1), i < k.length - 1 \/ ~k.ended
          PROVE  Regular(k.buf[i])
      <4>1. CASE i = l
        <5>1. k.buf[i] = c /\ ~(i < k.length - 1)
          BY <1>1, <1>4, <2>1, <4>1
        <5>2. Regular(c)
          BY <2>1, <3>2, <5>1
        <5> QED BY <5>1, <5>2
      <4>2. CASE i # l
        <5>1. i \in 0..(l - 1)
          BY <1>4, <2>1, <4>2
        <5>2. k.buf[i] = line2.buf[i]
          BY <1>4, <2>1, <4>2
        <5> QED BY <1>3, <5>1, <5>2
      <4> QED BY <4>1, <4>2
    <3>3. ASSUME NEW j \in known, j >= k.length PROVE k.buf[j] \in {0, 10}
      <4>1. j \in Index /\ j # l /\ j >= l
        <5>1. j \in Index /\ j \in Int
          BY <1>2 DEF Index
        <5>2. j >= l + 1
          BY <2>1, <3>3
        <5> QED BY <1>4, <5>1, <5>2
      <4>2. k.buf[j] = line2.buf[j]
        BY <1>4, <2>1, <4>1 DEF Index
      <4> QED BY <1>2, <4>1, <4>2 DEF Blank
    <3> QED BY <2>1, <3>1, <3>2, <3>3
  <2>2. CASE /\ Erases(c) /\ ~Types(c) /\ l # 0 /\ k.length = l - 1
             /\ k.buf = [line2.buf EXCEPT ![l - 1] = 0]
    <3>1. l \in 1..BLOCK_SIZE
      BY <1>4, <2>2
    <3>2. AsTyped([line2.buf EXCEPT ![l - 1] = 0], l - 1, Append(typed2, c))
      <4>1. BLOCK_SIZE \in Nat /\ line2.buf \in [0..(BLOCK_SIZE - 1) -> Nat]
        BY <1>3, <1>4 DEF Rot13Line, Index
      <4>2. AsTyped(line2.buf, l, typed2) /\ typed2 \in Seq(Nat) /\ c \in Nat
        BY <1>3, <1>4
      <4> HIDE DEF l
      <4> QED BY <2>2, <3>1, <4>1, <4>2, ErasedOne, Zenon
    <3>3. ASSUME NEW i \in 0..(k.length - 1) PROVE Regular(k.buf[i])
      <4>1. i \in 0..(l - 1) /\ i # l - 1
        <5>1. k.length = l - 1 /\ l \in Int
          BY <1>4, <2>2
        <5> HIDE DEF l
        <5> QED BY <5>1
      <4>2. k.buf[i] = line2.buf[i]
        BY <1>4, <2>2, <4>1
      <4> QED BY <1>3, <4>1, <4>2
    <3>4. ASSUME NEW j \in known, j >= k.length PROVE k.buf[j] \in {0, 10}
      <4>1. j \in Index /\ (j = l - 1 \/ j >= l)
        <5>1. j \in Index /\ j \in Int
          BY <1>2 DEF Index
        <5>2. j >= l - 1
          BY <2>2, <3>4
        <5> QED BY <1>4, <5>1, <5>2
      <4>2. CASE j = l - 1
        BY <1>4, <2>2, <4>1, <4>2 DEF Index
      <4>3. CASE j >= l
        <5>1. k.buf[j] = line2.buf[j]
          BY <1>4, <2>2, <4>1, <4>3 DEF Index
        <5> QED BY <1>2, <4>3, <5>1 DEF Blank
      <4> QED BY <4>1, <4>2, <4>3
    <3> QED BY <2>2, <3>2, <3>3, <3>4
  <2>3. CASE ~Types(c) /\ (Erases(c) => l = 0) /\ k.length = l /\ k.buf = line2.buf
    <3>1. AsTyped(line2.buf, l, Append(typed2, c))
      BY <1>3, <1>4, <2>3, TypedNothing
    <3> QED BY <1>2, <1>3, <2>3, <3>1 DEF Blank
  <2> QED BY <1>5, <2>1, <2>2, <2>3
<1>9. Append(typed2, c) \in Seq(Nat)
  BY <1>3
<1>10. Rot13Read'
  BY <1>1, <1>5, <1>8, <1>9 DEF Rot13Read
<1>11. Blank(line2.buf, line2.length)'
  <2>1. ASSUME NEW j \in known', j >= k.length PROVE j \in known
    BY <1>1, <1>6, <2>1
  <2> QED BY <1>1, <1>8, <2>1 DEF Blank
<1> QED BY <1>1, <1>2, <1>7, <1>10, <1>11, NoAnswer DEF Rot13Inv

\* What the line is to the loop: as far as it was typed it does not stop, but for the
\* character that ended it, and behind an earlier line it stops at once.
LEMMA LineStops ==
    ASSUME Rot13Inv, where = "read"
    PROVE  LET keys    == Kept(typed2)
               newline == keys # <<>> /\ EndsLine(keys[Len(keys)])
               text    == IF newline THEN SubSeq(keys, 1, Len(keys) - 1) ELSE keys
               n       == Lab2!StopsAt
           IN  /\ Len(text) \in Nat /\ Len(text) <= n
               /\ text = [i \in 1..Len(text) |-> buffer[i - 1]]
               /\ newline \/ Len(text) \in known \ {BLOCK_SIZE} => n = Len(text) /\ n # BLOCK_SIZE
               /\ Lab2!Stops(buffer[0]) => Len(text) = 0
<1> DEFINE L       == line2.length
           keys    == Kept(typed2)
           newline == keys # <<>> /\ EndsLine(keys[Len(keys)])
           text    == IF newline THEN SubSeq(keys, 1, Len(keys) - 1) ELSE keys
           n       == Lab2!StopsAt
           T       == IF newline THEN L - 1 ELSE L
<1>1. /\ typed2 \in Seq(Nat) /\ Rot13Line(line2) /\ AsTyped(buffer, L, typed2)
      /\ \A i \in 0..(L - 1) : i < L - 1 => Regular(buffer[i])
      /\ Blank(buffer, L) /\ known \subseteq Index
  BY DEF Rot13Inv, Rot13Read
<1>2. L \in Nat /\ L \in 0..BLOCK_SIZE /\ BLOCK_SIZE \in Nat \ {0}
  BY <1>1, BlockAssumption DEF Rot13Line
<1> HIDE DEF L
<1>3. keys = [i \in 1..L |-> buffer[i - 1]]
  BY <1>1, <1>2, TypedIsKept
<1>4. \A i \in 0..(L - 1) : Types(buffer[i]) /\ buffer[i] # 0
  BY <1>1, <1>2, TypedCharacters
<1> HIDE DEF keys
<1>5. Len(keys) = L /\ keys \in Seq(Nat) /\ (keys = <<>> <=> L = 0)
  <2>1. Len(keys) = L
    BY <1>2, <1>3
  <2>2. \A i \in 1..L : buffer[i - 1] \in Nat
    <3>1. buffer \in [Index -> Nat]
      BY DEF Rot13Inv
    <3> QED BY <1>2, <3>1 DEF Index
  <2>3. keys \in Seq(Nat)
    BY <1>2, <1>3, <2>2
  <2> QED BY <1>2, <2>1, <2>3
<1>6. newline <=> L > 0 /\ EndsLine(buffer[L - 1])
  <2>1. L > 0 => keys[L] = buffer[L - 1]
    BY <1>2, <1>3
  <2>2. L > 0 <=> keys # <<>>
    BY <1>2, <1>5
  <2>3. newline <=> keys # <<>> /\ EndsLine(keys[L])
    BY <1>5
  <2> HIDE DEF newline
  <2> QED BY <2>1, <2>2, <2>3
<1> HIDE DEF newline
<1>7. T \in Nat /\ Len(text) = T /\ text = [i \in 1..T |-> buffer[i - 1]]
  <2>1. CASE newline
    <3>1. L - 1 \in Nat /\ T = L - 1
      BY <1>2, <1>6, <2>1
    <3>2. text = SubSeq(keys, 1, L - 1)
      BY <1>5, <2>1
    <3>3. SubSeq(keys, 1, L - 1) = [i \in 1..(L - 1) |-> buffer[i - 1]]
      BY <1>2, <1>3, <3>1
    <3>4. Len(SubSeq(keys, 1, L - 1)) = L - 1
      BY <1>2, <1>5, <3>1
    <3> QED BY <3>1, <3>2, <3>3, <3>4
  <2>2. CASE ~newline
    BY <1>2, <1>3, <1>5, <2>2
  <2> QED BY <2>1, <2>2
<1>8. \A c : /\ Regular(c) => ~Lab2!Stops(c)
             /\ EndsLine(c) <=> Lab2!Stops(c) /\ c # 0
  BY DEF Regular, EndsLine, Lab2!Stops
<1>9. /\ n \in 0..BLOCK_SIZE
      /\ \A k \in Index : k < n => ~Lab2!Stops(buffer[k])
      /\ n # BLOCK_SIZE => Lab2!Stops(buffer[n])
  BY FirstStop
<1> HIDE DEF n, text
<1>10. ASSUME NEW i \in 0..(T - 1) PROVE ~Lab2!Stops(buffer[i])
  <2>1. CASE newline
    <3>1. i \in 0..(L - 1) /\ i < L - 1
      BY <1>2, <1>6, <2>1
    <3> QED BY <1>1, <1>8, <3>1
  <2>2. CASE ~newline /\ i = L - 1
    <3>1. i \in 0..(L - 1) /\ L > 0
      BY <1>2, <2>2
    <3>2. ~EndsLine(buffer[i]) /\ buffer[i] # 0
      BY <1>4, <1>6, <2>2, <3>1
    <3> QED BY <1>8, <3>2
  <2>3. CASE ~newline /\ i # L - 1
    <3>1. i \in 0..(L - 1) /\ i < L - 1
      BY <1>2, <2>3
    <3> QED BY <1>1, <1>8, <3>1
  <2> QED BY <2>1, <2>2, <2>3
<1>11. T <= n
  <2>1. CASE n = BLOCK_SIZE
    BY <1>2, <2>1
  <2>2. CASE n # BLOCK_SIZE
    <3>1. Lab2!Stops(buffer[n])
      BY <1>9, <2>2
    <3>2. n \notin 0..(T - 1)
      BY <1>10, <3>1
    <3> QED BY <1>7, <1>9, <3>2
  <2> QED BY <2>1, <2>2
<1>12. newline \/ T \in known \ {BLOCK_SIZE} => n = T /\ n # BLOCK_SIZE
  <2> SUFFICES ASSUME newline \/ T \in known \ {BLOCK_SIZE} PROVE n = T /\ n # BLOCK_SIZE
    OBVIOUS
  <2>1. T \in Index
    BY <1>1, <1>2, <1>6 DEF Index
  <2>2. Lab2!Stops(buffer[T])
    <3>1. CASE newline
      <4>1. T = L - 1 /\ EndsLine(buffer[T])
        BY <1>6, <3>1
      <4> QED BY <1>8, <4>1
    <3>2. CASE ~newline
      <4>1. T = L /\ T \in known /\ T >= L
        BY <1>2, <3>2
      <4>2. buffer[T] \in {0, 10}
        BY <1>1, <4>1 DEF Blank
      <4> QED BY <4>2 DEF Lab2!Stops
    <3> QED BY <3>1, <3>2
  <2>3. ~(T < n)
    BY <1>9, <2>1, <2>2
  <2> QED BY <1>2, <1>7, <1>9, <1>11, <2>1, <2>3 DEF Index
<1>13. Lab2!Stops(buffer[0]) => T = 0
  <2> HIDE DEF T
  <2>1. T # 0 => 0 \in 0..(T - 1)
    BY <1>7
  <2> QED BY <1>10, <2>1
<1> HIDE DEF T
<1> QED BY <1>7, <1>11, <1>12, <1>13 DEF text, newline, keys, n

LEMMA Rot13Answers ==
    ASSUME Rot13Inv, Lab2!rot13
    PROVE  Rot13Inv'
<1> DEFINE keys    == Kept(typed2)
           newline == keys # <<>> /\ EndsLine(keys[Len(keys)])
           text    == IF newline THEN SubSeq(keys, 1, Len(keys) - 1) ELSE keys
           T       == Len(text)
           turned  == [k \in 1..T |-> Lab2!Turned(text[k])]
<1>1. /\ where = "read" /\ where' = "answered"
      /\ UNCHANGED <<typed2, known, line2>>
  BY DEF Lab2!rot13
<1>2. buffer \in [Index -> Nat] /\ known \subseteq Index /\ BLOCK_SIZE \in Nat
      /\ Blank(buffer, line2.length)
  BY <1>1, BlockAssumption DEF Rot13Inv
<1>3. /\ stop' = Lab2!StopsAt /\ stop' \in 0..BLOCK_SIZE
      /\ buffer' \in [Index -> Nat]
      /\ \A k \in Index : k > stop' => buffer'[k] = buffer[k]
      /\ stop' \in Index => buffer'[stop'] = 10
  BY <1>2, Answered, FirstStop
<1>4. /\ T \in Nat /\ T <= stop'
      /\ text = [i \in 1..T |-> buffer[i - 1]]
      /\ newline \/ T \in known \ {BLOCK_SIZE} => stop' = T /\ stop' # BLOCK_SIZE
  BY <1>1, <1>3, LineStops
<1>5. PICK m \in {stop', stop' + 1} : \E d :
         /\ stop' # BLOCK_SIZE => m = stop' + 1 /\ d[stop'] = 10
         /\ \A i \in 0..(stop' - 1) : d[i] = Lab2!Turned(buffer[i])
         /\ answer' = [i \in 1..m |-> d[i - 1]]
  BY <1>2, Answered
<1>6. PICK d :
         /\ stop' # BLOCK_SIZE => m = stop' + 1 /\ d[stop'] = 10
         /\ \A i \in 0..(stop' - 1) : d[i] = Lab2!Turned(buffer[i])
         /\ answer' = [i \in 1..m |-> d[i - 1]]
  BY <1>5
<1> HIDE DEF keys, newline, text, T
<1>7. \A k \in 1..T : turned[k] = d[k - 1]
  <2> SUFFICES ASSUME NEW k \in 1..T PROVE turned[k] = d[k - 1]
    OBVIOUS
  <2>1. k - 1 \in 0..(stop' - 1) /\ text[k] = buffer[k - 1]
    BY <1>3, <1>4
  <2> QED BY <1>6, <2>1
<1>8. m \in Nat /\ T <= m
  BY <1>3, <1>4
<1>9. SubSeq(answer', 1, T) = turned
  <2>1. SubSeq(answer', 1, T) = [k \in 1..T |-> d[k - 1]]
    BY <1>4, <1>6, <1>8
  <2>2. [k \in 1..T |-> d[k - 1]] = turned
    BY <1>7
  <2> QED BY <2>1, <2>2
<1>10. newline \/ T \in known \ {BLOCK_SIZE} => answer' = turned \o <<10>>
  <2> SUFFICES ASSUME stop' = T, stop' # BLOCK_SIZE PROVE answer' = turned \o <<10>>
    BY <1>4
  <2>1. m = T + 1 /\ d[T] = 10
    BY <1>6
  <2>2. Len(turned) = T
    BY <1>4
  <2> DEFINE u == turned
  <2>3. u = [k \in 1..T |-> u[k]] /\ Len(u) = T /\ \A k \in 1..T : u[k] = d[k - 1]
    BY <1>4, <1>7, <2>2
  <2> HIDE DEF u
  <2>4. u \o <<10>> = [i \in 1..(T + 1) |-> IF i <= T THEN u[i] ELSE 10]
    BY <1>4, <2>3
  <2>5. \A i \in 1..(T + 1) : (IF i <= T THEN u[i] ELSE 10) = d[i - 1]
    <3> SUFFICES ASSUME NEW i \in 1..(T + 1) PROVE (IF i <= T THEN u[i] ELSE 10) = d[i - 1]
      OBVIOUS
    <3>1. CASE i <= T
      BY <1>4, <2>3, <3>1
    <3>2. CASE i = T + 1
      <4>1. i - 1 = T /\ ~(i <= T)
        BY <1>4, <3>2
      <4> QED BY <2>1, <4>1
    <3> QED BY <1>4, <3>1, <3>2
  <2>6. answer' = [i \in 1..(T + 1) |-> d[i - 1]]
    BY <1>6, <2>1
  <2>7. answer' = u \o <<10>>
    BY <2>4, <2>5, <2>6
  <2> QED BY <2>7 DEF u
<1>11. Lab2!AnswersInRot13'
  <2>1. Lab2!Kept(typed2)' = keys
    BY <1>1, SameConsole DEF keys
  <2>2. \A c : Lab2!EndsLine(c) <=> EndsLine(c)
    BY DEF Lab2!EndsLine, EndsLine
  <2>3. where' # "exited"
    BY <1>1
  <2> QED BY <1>1, <1>9, <1>10, <2>1, <2>2, <2>3 DEF Lab2!AnswersInRot13, T, text, newline
<1>12. Blank(buffer, stop + 1)'
  <2> SUFFICES ASSUME NEW k \in known, k >= stop' + 1 PROVE buffer'[k] \in {0, 10}
    BY <1>1 DEF Blank
  <2>1. k \in Index /\ k > stop' /\ buffer'[k] = buffer[k]
    BY <1>2, <1>3 DEF Index
  <2>2. k >= line2.length
    <3>1. stop' >= line2.length - 1 /\ line2.length \in Nat
      <4>1. /\ Rot13Line(line2) /\ typed2 \in Seq(Nat)
            /\ AsTyped(buffer, line2.length, typed2)
        BY <1>1 DEF Rot13Inv, Rot13Read
      <4>2. line2.length \in Nat
        BY <4>1, <1>2 DEF Rot13Line
      <4>3. keys = [i \in 1..line2.length |-> buffer[i - 1]]
        BY <4>1, <4>2, TypedIsKept DEF keys
      <4>4. Len(keys) = line2.length /\ keys \in Seq(Nat)
        <5>1. line2.length \in 0..BLOCK_SIZE
          BY <4>1 DEF Rot13Line
        <5>2. \A i \in 1..line2.length : buffer[i - 1] \in Nat
          BY <1>2, <4>2, <5>1 DEF Index
        <5> QED BY <4>2, <4>3, <5>2
      <4>5. T >= Len(keys) - 1
        <5>1. CASE newline
          <6>1. keys # <<>> /\ text = SubSeq(keys, 1, Len(keys) - 1)
            BY <5>1 DEF newline, text
          <6>2. Len(keys) - 1 \in Nat
            BY <4>2, <4>4, <6>1
          <6> QED BY <4>2, <4>4, <6>1, <6>2 DEF T
        <5>2. CASE ~newline
          BY <4>2, <4>4, <5>2 DEF text, T
        <5> QED BY <5>1, <5>2
      <4> QED BY <1>3, <1>4, <4>2, <4>4, <4>5
    <3> QED BY <1>3, <2>1, <3>1 DEF Index
  <2> QED BY <1>2, <2>1, <2>2 DEF Blank
<1> QED BY <1>1, <1>2, <1>3, <1>11, <1>12 DEF Rot13Inv

LEMMA Rot13Exits ==
    ASSUME Rot13Inv, Lab2!exit
    PROVE  Rot13Inv'
<1> DEFINE keys    == Kept(typed2)
           newline == keys # <<>> /\ EndsLine(keys[Len(keys)])
           text    == IF newline THEN SubSeq(keys, 1, Len(keys) - 1) ELSE keys
<1>1. /\ where = "read" /\ where' \in {"exited", "gone"} /\ Lab2!Stops(buffer[0])
      /\ UNCHANGED <<typed2, known, buffer>>
  BY DEF Lab2!exit, Lab2!ExitTo, Lab2!rot13_vars
<1>2. Len(text) = 0 /\ text = [i \in 1..Len(text) |-> buffer[i - 1]]
  BY <1>1, LineStops
<1> HIDE DEF text
<1>3. text = <<>>
  BY <1>2
<1>4. Lab2!AnswersInRot13'
  <2>1. Lab2!Kept(typed2)' = keys
    BY <1>1, SameConsole DEF keys
  <2>2. \A c : Lab2!EndsLine(c) <=> EndsLine(c)
    BY DEF Lab2!EndsLine, EndsLine
  <2> HIDE DEF keys
  <2> QED BY <1>1, <1>3, <2>1, <2>2 DEF Lab2!AnswersInRot13, text
<1> QED BY <1>1, <1>4 DEF Rot13Inv

LEMMA StepRot13 ==
    ASSUME Lab2Inv, Rot13Inv, Lab2!Next
    PROVE  Rot13Inv'
<1>1. CASE Lab2!Install_SWI_Handler \/ Lab2!Call_UserApp \/ Lab2!RestoreHandler
  <2>1. /\ where \notin {"reading", "read", "answered"}
        /\ where' \in {"installed", "user", "gone", "returned"}
        /\ where' \in {"installed", "user"} => where \in {"main", "installed"}
        /\ UNCHANGED <<known, buffer>>
    BY <1>1 DEF Lab2!Install_SWI_Handler, Lab2!Call_UserApp, Lab2!RestoreHandler,
                Lab2!rot13_vars, Lab2!ExitTo, Lab2Inv
  <2>2. where' \in {"installed", "user"} => Blank(buffer, 0)'
    BY <2>1 DEF Rot13Inv, Blank
  <2>3. known' \subseteq Index /\ buffer' \in [Index -> Nat]
    BY <2>1 DEF Rot13Inv
  <2> QED BY <2>1, <2>2, <2>3, NoAnswer DEF Rot13Inv
<1>2. CASE Lab2!read
  BY <1>2, Rot13Reads
<1>3. CASE \E c \in Rot13Keys : Lab2!getc(c)
  <2>1. PICK c \in Nat : Lab2!getc(c)
    BY <1>3, Rot13KeysAssumption
  <2> QED BY <2>1, Rot13Types
<1>4. CASE Lab2!read_return
  <2>1. /\ where = "reading" /\ where' = "read" /\ buffer' = line2.buf
        /\ UNCHANGED <<line2, typed2, known>>
    BY <1>4 DEF Lab2!read_return
  <2>2. line2.buf \in [Index -> Nat]
    BY <2>1 DEF Rot13Inv, Rot13Read, Rot13Line
  <2>3. Rot13Read' /\ Blank(line2.buf, line2.length)
    BY <2>1 DEF Rot13Inv, Rot13Read
  <2>4. Blank(buffer, line2.length)'
    BY <2>1, <2>3 DEF Blank
  <2> QED BY <2>1, <2>2, <2>3, <2>4, NoAnswer DEF Rot13Inv
<1>5. CASE Lab2!exit
  BY <1>5, Rot13Exits
<1>6. CASE Lab2!rot13
  BY <1>6, Rot13Answers
<1>7. CASE Lab2!flush
  <2>1. /\ where = "answered" /\ where' = "user"
        /\ buffer' = [k \in Index |-> IF k < stop THEN 0 ELSE buffer[k]]
        /\ known' = known \cup ((0..stop) \cap Index)
    BY <1>7 DEF Lab2!flush, Lab2!Flushed, Lab2!Index, Index
  <2>2. /\ stop \in 0..BLOCK_SIZE /\ Blank(buffer, stop + 1) /\ known \subseteq Index
        /\ stop \in Index => buffer[stop] = 10
        /\ buffer \in [Index -> Nat]
    BY <2>1 DEF Rot13Inv
  <2>3. Blank(buffer, 0)'
    <3> SUFFICES ASSUME NEW k \in known' PROVE buffer'[k] \in {0, 10}
      BY DEF Blank
    <3>1. k \in Index /\ k \in Nat /\ stop \in Nat
      BY <2>1, <2>2, BlockAssumption DEF Index
    <3>2. CASE k < stop
      BY <2>1, <3>1, <3>2
    <3>3. CASE k = stop
      BY <2>1, <2>2, <3>1, <3>3
    <3>4. CASE k > stop
      <4>1. k \in known /\ k >= stop + 1
        BY <2>1, <3>1, <3>4
      <4> QED BY <2>1, <2>2, <3>1, <3>4, <4>1 DEF Blank
    <3> QED BY <3>1, <3>2, <3>3, <3>4
  <2>4. buffer' \in [Index -> Nat] /\ known' \subseteq Index
    BY <2>1, <2>2
  <2> QED BY <2>1, <2>3, <2>4, NoAnswer DEF Rot13Inv
<1> QED BY <1>1, <1>2, <1>3, <1>4, <1>5, <1>6, <1>7 DEF Lab2!Next

-----------------------------------------------------------------------------
(* The theorems.                                                           *)

OneProgramInv ==
    /\ KernelInv /\ UnmaskedInv /\ ReadingInv
    /\ ProgramInv
    /\ Lab2Inv /\ Rot13Inv

\* All three kinds of behaviour begin with lab3's kernel in one of its initial states.
LEMMA InitInv == AllInit => OneProgramInv
<1> SUFFICES ASSUME AllInit PROVE OneProgramInv
  OBVIOUS
<1>1. Init
  BY DEF AllInit, Lab3Waits, ProgramsInit
<1>2. SleepingInv
  BY <1>1 DEF Init, SleepingInv
<1>3. Lab2Inv
  BY DEF AllInit, Lab2Waits, Lab2!Init, Lab2Inv, Lab2!LeavesMachineAsFound
<1>4. ReadingInv
  <2>1. pc = "kmain"
    BY <1>1 DEF Init
  <2>2. part = "lab3" => block \in [Index -> Nat]
    BY DEF AllInit, ProgramsInit
  <2> QED BY <2>1, <2>2 DEF ReadingInv
<1>5. UnmaskedInv
  BY <1>1 DEF Init, UnmaskedInv
<1>6. ProgramInv
  <2>1. CASE part = "lab3" /\ ProgramsInit
    <3>1. at = "prompt" /\ pc = "kmain" /\ t = 0 /\ took = 0
      BY <2>1 DEF ProgramsInit, Init
    <3> QED BY <2>1, <3>1 DEF ProgramInv, PlaceInv, WatchInv, BlockInv, TextInv
  <2>2. CASE part # "lab3" /\ NoProgram
    BY <2>2 DEF ProgramInv, NoProgram
  <2> QED BY <2>1, <2>2 DEF AllInit, Lab3Waits
<1>7. Rot13Inv
  <2>1. where = "main" /\ known = {}
    BY DEF AllInit, Lab2Waits, Lab2!Init
  <2>2. buffer \in [Index -> Nat]
    <3>1. CASE Lab2Waits
      <4>1. buffer = [k \in Index |-> 0]
        BY <3>1 DEF Lab2Waits, Index
      <4> QED BY <4>1
    <3>2. CASE Lab2!Init
      <4>1. buffer \in [Index -> Garbage]
        BY <3>2 DEF Lab2!Init, Lab2!Index, Index
      <4> QED BY <4>1, GarbageAssumption
    <3> QED BY <3>1, <3>2 DEF AllInit
  <2> QED BY <2>1, <2>2 DEF Rot13Inv, Blank, Lab2!AnswersInRot13
<1> QED BY <1>1, <1>2, <1>3, <1>4, <1>5, <1>6, <1>7, InitTaken, InitClock
        DEF OneProgramInv, KernelInv

LEMMA StepInv == OneProgramInv /\ AllStep => OneProgramInv'
<1> SUFFICES ASSUME OneProgramInv, AllStep
             PROVE  OneProgramInv'
  OBVIOUS
<1>1. KernelInv'
  <2>1. CASE KernelStep
    BY <2>1, StepTaken, StepLine, StepClock, StepSleeping DEF OneProgramInv, KernelInv
  <2>2. CASE UNCHANGED vars
    <3>1. /\ UNCHANGED <<vector, handler, old_ins, pc, unmasked, timer, oscr, osmr>>
          /\ UNCHANGED <<oier, ossr, icmr, iclr, wait_time, asked, started>>
          /\ UNCHANGED <<now, held, ticks>>
      BY <2>2 DEF vars, install_vars, timer_vars, sleep_vars, time_vars
    <3>2. Lost' = Lost
      BY <3>1 DEF Lost
    <3>3. LineInv'
      BY <3>1, Zenon DEF OneProgramInv, KernelInv, LineInv, Started, InProgram
    <3>4. TakenInv' /\ ClockInv' /\ SleepingInv'
      BY <3>1, <3>2 DEF OneProgramInv, KernelInv, TakenInv, LeavesMachineAsFound, ClockInv,
                        SleepingInv, Started, InProgram
    <3> QED BY <3>3, <3>4 DEF KernelInv
  <2> QED BY <2>1, <2>2, ProjectStep
<1>2. Lab2Inv'
  <2>1. CASE Lab2!Next
    BY <2>1, StepLab2 DEF OneProgramInv
  <2>2. CASE UNCHANGED lab2_vars
    BY <2>2 DEF OneProgramInv, Lab2Inv, Lab2!LeavesMachineAsFound, lab2_vars
  <2> QED BY <2>1, <2>2 DEF AllNext, AllStep
<1>3. ReadingInv'
  BY StepReading DEF OneProgramInv
<1>4. UnmaskedInv'
  <2>1. CASE UNCHANGED vars
    <3>1. pc' = pc /\ unmasked' = unmasked
      BY <2>1, Zenon DEF vars
    <3> QED BY <3>1, Zenon DEF OneProgramInv, UnmaskedInv
  <2> QED BY <2>1, ProjectStep, StepUnmasked DEF OneProgramInv
<1>5. ProgramInv'
  BY StepProgram DEF OneProgramInv, KernelInv
<1>6. Rot13Inv'
  <2>1. CASE Lab2!Next
    BY <2>1, StepRot13 DEF OneProgramInv
  <2>2. CASE UNCHANGED lab2_vars
    <3>1. /\ where' = where /\ line2' = line2 /\ typed2' = typed2 /\ buffer' = buffer
          /\ stop' = stop /\ answer' = answer /\ known' = known
      BY <2>2, Zenon DEF lab2_vars
    <3>2. Rot13Inv
      BY DEF OneProgramInv
    <3>3. Rot13Read <=> Rot13Read'
      BY <3>1 DEF Rot13Read, Rot13Line, IsLine
    <3>4. /\ where \in {"main", "installed", "user"} => Blank(buffer, 0)'
          /\ where = "reading" => Blank(line2.buf, line2.length)'
          /\ where = "read" => Blank(buffer, line2.length)'
          /\ where = "answered" => Blank(buffer, stop + 1)'
      BY <3>1, <3>2 DEF Rot13Inv, Blank
    <3>5. Lab2!AnswersInRot13'
      BY <3>1, <3>2 DEF Rot13Inv, Lab2!AnswersInRot13
    <3> QED BY <3>1, <3>2, <3>3, <3>4, <3>5 DEF Rot13Inv
  <2> QED BY <2>1, <2>2 DEF AllNext, AllStep
<1> QED BY <1>1, <1>2, <1>3, <1>4, <1>5, <1>6 DEF OneProgramInv

LEMMA Invariance == AllSpec => []OneProgramInv
<1> QED BY InitInv, StepInv, PTL DEF AllSpec, AllStep

\* U-Boot gets back from lab3's kernel its two handlers and a timer that is off, and
\* from lab2's its handler, whatever program ran (lab3 main.c:53-83, lab2
\* part2/kernel/kernel.c:36-51).
THEOREM MachineReturned == AllSpec => []MachineIsLeftAsFound
<1>1. OneProgramInv => MachineIsLeftAsFound
  BY DEF OneProgramInv, KernelInv, TakenInv, Lab2Inv, MachineIsLeftAsFound
<1> QED BY <1>1, Invariance, PTL

\* lab3's clock is never ahead of the oscillator, and behind it by no more than the tick
\* that runs and the counts that went by masked, whatever the width of the clock and
\* however often it has started again from zero (lab3 main.c:168-178).
THEOREM ClockBehind == AllSpec => []ClockLosesOnlyMaskedTime
<1>1. OneProgramInv => ClockLosesOnlyMaskedTime
  <2> SUFFICES ASSUME OneProgramInv, InProgram
               PROVE  (now - timer * MATCH) % (WORD * MATCH) <= MATCH + held
    BY DEF ClockLosesOnlyMaskedTime
  <2>1. /\ now \in Nat /\ held \in Nat /\ ticks \in Nat /\ oscr \in Nat /\ MATCH \in Nat \ {0}
        /\ (ossr = TRUE \/ oscr < MATCH) /\ 0 <= Lost /\ Lost <= held
        /\ timer = ticks % WORD /\ WORD \in Nat \ {0}
    BY MatchAssumption, WordAssumption DEF OneProgramInv, KernelInv, ClockInv, Started
  <2> DEFINE behind == now - ticks * MATCH
             shown  == now - timer * MATCH
             round  == WORD * MATCH
  <2>2. ticks * MATCH \in Int /\ behind \in Int
    BY <2>1
  <2>3. Lost = behind - MATCH \/ (Lost = behind - oscr /\ oscr < MATCH)
    BY <2>1 DEF Lost
  <2>4. 0 <= behind /\ behind <= MATCH + held
    <3> HIDE DEF behind
    <3> QED BY <2>1, <2>2, <2>3
  <2>5. PICK k \in Nat : ticks = WORD * k + timer
    <3>1. ticks = WORD * (ticks \div WORD) + (ticks % WORD) /\ ticks \div WORD \in Nat
      BY <2>1
    <3> QED BY <2>1, <3>1
  <2>6. timer \in Nat /\ round \in Nat \ {0}
    <3>1. ticks % WORD \in 0..(WORD - 1)
      BY <2>1, Division
    <3> QED BY <2>1, <3>1
  <2>7. shown = behind + round * k
    <3>1. ticks * MATCH = round * k + timer * MATCH /\ timer * MATCH \in Int
          /\ round * k \in Int
      BY <2>1, <2>5, <2>6
    <3>2. shown = now - timer * MATCH /\ behind = now - ticks * MATCH
      OBVIOUS
    <3> DEFINE whole   == ticks * MATCH
               counted == timer * MATCH
               turns   == round * k
    <3>3. whole = turns + counted /\ shown = now - counted /\ behind = now - whole
          /\ counted \in Int /\ turns \in Int
      BY <3>1, <3>2
    <3> HIDE DEF shown, behind, whole, counted, turns
    <3>4. shown = behind + turns
      BY <2>1, <3>3
    <3> QED BY <3>4 DEF turns
  <2> DEFINE q == behind \div round
             f == behind % round
  <2> HIDE DEF behind, shown, round
  <2>8. behind = round * q + f /\ q \in Nat /\ f \in 0..(round - 1)
    <3>1. behind \in Nat
      BY <2>2, <2>4
    <3> QED BY <2>6, <3>1
  <2> HIDE DEF q, f
  <2>9. f <= behind
    <3>1. round * q \in Nat
      BY <2>6, <2>8
    <3> QED BY <2>6, <2>8, <3>1
  <2>10. shown % round = f
    <3>1. shown \in Int /\ q + k \in Int /\ shown = round * (q + k) + f
      BY <2>2, <2>5, <2>6, <2>7, <2>8
    <3> QED BY <2>6, <2>8, <3>1, ModUnique
  <2>11. shown % round <= MATCH + held
    BY <2>1, <2>2, <2>4, <2>6, <2>8, <2>9, <2>10
  <2> QED BY <2>11 DEF shown, round
<1> QED BY <1>1, Invariance, PTL

\* For every width of the clock, every tick and every duration a size_t holds, no sleep is
\* shorter than asked by more than the tick it began in, whatever was typed, written and
\* slept before and however often the clock starts again from zero, except where the sum
\* of the clock and the duration passes the width (lab3 sleep.c:15-22).
THEOREM SleepsNearlyAsAsked == AllSpec => SleepIsAtMostATickShort
<1> DEFINE Enough == \/ wait_time < asked
                     \/ (now - started) * TIMER_RESOLUTION >= (asked - TIMER_RESOLUTION) * MATCH
<1>1. OneProgramInv /\ AllStep => [pc = "sleeping" /\ pc' = "user" => Enough]_vars
  <2> SUFFICES ASSUME OneProgramInv, AllStep,
                      pc = "sleeping", pc' = "user", KernelStep
               PROVE  Enough
    BY ProjectStep
  <2>1. SleepReturn
    <3>1. CASE Count \/ Irq
      <4>1. UNCHANGED pc
        BY <3>1, Zenon DEF Count, Irq
      <4> QED BY <4>1
    <3> QED BY <3>1 DEF KernelStep, Install_Handler, initTimer, Call_UserApp, exit, freeTimer,
                        RestoreHandlers, read, getc, ReadReturn, write, putc, WriteReturn, sleep
  <2> QED BY <2>1, SleptEnough DEF OneProgramInv, KernelInv
<1> QED BY <1>1, Invariance, PTL DEF AllSpec, AllStep, SleepIsAtMostATickShort

\* What lab3's read has in its buffer is what was typed and not erased again, for every
\* sequence of keys and every size of the buffer (lab3 kernel/read.c:39-64).
THEOREM LineTyped == AllSpec => []LineIsWhatWasTyped
<1>1. OneProgramInv => LineIsWhatWasTyped
  <2> SUFFICES ASSUME OneProgramInv, pc = "reading" PROVE Filled = Kept(typed)
    BY DEF LineIsWhatWasTyped, Reading
  <2>1. /\ count \in Nat /\ typed \in Seq(Nat) /\ line \in Line(count)
        /\ AsTyped(line.buf, line.length, typed)
    BY DEF OneProgramInv, ReadingInv, OpenLine
  <2>2. line.length \in Nat
    BY <2>1, LineFields
  <2> QED BY <2>1, <2>2, TypedIsKept DEF Filled
<1> QED BY <1>1, Invariance, PTL

\* While a line is open the terminal shows what is in the buffer, the erased characters
\* blank, for every sequence of keys (lab3 kernel/read.c:46-48, 60-61).
THEOREM ScreenInStep == AllSpec => []ScreenShowsLine
<1>1. OneProgramInv => ScreenShowsLine
  <2> SUFFICES ASSUME OneProgramInv, pc = "reading", ~line.ended
               PROVE  Shows(line.screen, Filled)
    BY DEF ScreenShowsLine, Reading
  <2>1. /\ count \in Nat /\ line \in Line(count)
        /\ InStep(line.screen, line.buf, line.length)
    BY DEF OneProgramInv, ReadingInv, OpenLine
  <2> QED BY <2>1, InStepShows DEF Filled
<1> QED BY <1>1, Invariance, PTL

\* Both programs of lab3 tell what happened: typo echoes the line as it was typed and
\* nothing of an earlier one, the time it prints is the time the line took, to a tick and
\* then cut to tenths, as far as an int holds it, and the score of the game fits the row
\* that it shows, for every line, every duration, every width of the clock and every size
\* of the buffer (lab3 typo.c:22-37, hardestGame.c:65-108).
THEOREM ToldAsItHappened == AllSpec => []TellsWhatHappened
<1>1. OneProgramInv => TellsWhatHappened
  <2> SUFFICES ASSUME OneProgramInv PROVE TellsWhatHappened
    OBVIOUS
  <2>1. CASE part = "lab3"
    <3>1. PlaceInv /\ WatchInv /\ TextInv
      BY <2>1 DEF OneProgramInv, ProgramInv
    <3>2. at = "print" /\ pc = "writing" => line.buf = Kept(entered)
      BY <3>1 DEF TextInv
    <3>3. at \in {"echo", "print", "result"} => t \in Int /\ TimeIsRight
      BY <3>1 DEF WatchInv
    <3>4. at = "prompt" /\ pc = "writing" /\ prog = "typo" => Seconds
      BY <3>1 DEF TextInv
    <3>5. ASSUME at = "result", NEW dt \in DriveTimes \cup {t} PROVE ScoreFitsRow(position(dt))
      <4>1. dt \in Int
        BY <3>3, <3>5, DriveTimesAssumption
      <4>2. position(dt) \in Int
        BY <4>1 DEF position, CDiv
      <4> QED BY <4>2, ScoreFits
    <3> QED BY <3>2, <3>3, <3>4, <3>5 DEF TellsWhatHappened, Seconds
  <2>2. CASE part # "lab3"
    <3>1. at = "none"
      BY <2>2 DEF OneProgramInv, ProgramInv
    <3> QED BY <3>1 DEF TellsWhatHappened
  <2> QED BY <2>1, <2>2
<1> QED BY <1>1, Invariance, PTL

\* rot13 answers every line with what was typed, turned: with that and a newline when
\* the line was ended by one or reaches no further than an earlier line, whatever memory
\* held before, for every sequence of keys and every size of the buffer; it ends on an
\* empty line only (lab2/part1/rot13/rot13.c:33-51).
THEOREM AnswersTurned == AllSpec => []AnswersInRot13
<1>1. OneProgramInv => AnswersInRot13
  BY DEF OneProgramInv, Rot13Inv, AnswersInRot13
<1> QED BY <1>1, Invariance, PTL
=============================================================================
